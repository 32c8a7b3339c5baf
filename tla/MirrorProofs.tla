---------------------------- MODULE MirrorProofs ----------------------------
(***************************************************************************)
(* Proofs about the way of a history to the pages, for any number of       *)
(* pages, any ceiling of the ring and any lengths of turns and reads.      *)
(***************************************************************************)
EXTENDS Mirror, QueueLemmas, FiniteSetTheorems, TLAPS

-----------------------------------------------------------------------------
(* The ring.                                                               *)

Item == [id : Nat, kind : {"earlier_output", "output_block", "user_turn", "control"},
         state : {"open", "paused", "closed"}, lines : Nat]

Ring == [entries : Seq(Item), lines : Nat, nextId : Nat,
         droppedEntries : Nat, droppedLines : Nat]

\* A ring in which every id was dropped or is held, in order, and whose counter
\* counts its lines.
RingOK(r) ==
  /\ r \in Ring
  /\ r.lines = LineCount(r.entries)
  /\ r.nextId = Len(r.entries) + r.droppedEntries + 1
  /\ \A i \in 1..Len(r.entries) : r.entries[i].id = r.droppedEntries + i

\* What the counts are.
LEMMA CountsAre ==
  ASSUME NEW es \in Seq(Item)
  PROVE  /\ LineCounts(es) \in [0..Len(es) -> Nat]
         /\ LineCounts(es)[0] = 0
         /\ \A k \in 1..Len(es) : LineCounts(es)[k] = LineCounts(es)[k - 1] + es[k].lines
<1> DEFINE n == Len(es)
           F(g) == [k \in 0..n |-> IF k = 0 THEN 0 ELSE g[k - 1] + es[k].lines]
           step == [k \in 1..n |-> [y \in Nat |-> y + es[k].lines]]
           c == LineCounts(es)
<1>1. n \in Nat /\ \A k \in 1..n : es[k].lines \in Nat
  <2>1. \A k \in 1..n : es[k] \in Item OBVIOUS
  <2> QED BY <2>1 DEF Item
<1> HIDE DEF n
<1>2. step \in [1..n -> [Nat -> Nat]]
  BY <1>1
<1>3. PICK f \in [0..n -> Nat] : f[0] = 0 /\ \A k \in 1..n : f[k] = step[k][f[k - 1]]
  <2>1. 0 \in Nat OBVIOUS
  <2> HIDE DEF step
  <2>2. \E f \in [0..n -> Nat] : Stepwise(f, n, 0, step) BY <1>1, <1>2, <2>1, Recursion
  <2> QED BY <2>2 DEF Stepwise
<1>4. \A k \in 1..n : f[k] = f[k - 1] + es[k].lines
  <2> TAKE k \in 1..n
  <2>1. k - 1 \in 0..n /\ f[k - 1] \in Nat BY <1>1
  <2> QED BY <1>3, <2>1
<1>5. f = F(f)
  <2>1. \A k \in 0..n : k # 0 => k \in 1..n BY <1>1
  <2> QED BY <1>3, <1>4, <2>1
<1>6. c = CHOOSE g : g = F(g)
  BY DEF LineCounts, n
<1>7. c = F(c)
  <2> HIDE DEF F, c
  <2> QED BY <1>5, <1>6
<1> HIDE DEF c
<1>8. c[0] = 0 /\ \A k \in 1..n : c[k] = c[k - 1] + es[k].lines
  <2>1. 0 \in 0..n /\ \A k \in 1..n : k \in 0..n /\ k # 0 BY <1>1
  <2> QED BY <1>7, <2>1
<1>9. \A k \in 0..n : c[k] = f[k]
  <2>1. \A k \in 1..n : c[k - 1] = f[k - 1] => c[k] = f[k] BY <1>4, <1>8
  <2>2. c[0] = f[0] BY <1>3, <1>8
  <2>3. n \in Nat BY <1>1
  <2>4. GoAlike(c, f, n) BY <2>1, <2>2 DEF GoAlike
  <2>5. SameUpTo(c, f, n)
    <3> HIDE DEF F, step
    <3> QED BY <2>3, <2>4, SameRecursion
  <2> QED BY <2>5 DEF SameUpTo
<1>10. c \in [0..n -> Nat]
  <2>1. c = [k \in 0..n |-> c[k]] BY <1>7
  <2>2. \A k \in 0..n : c[k] \in Nat BY <1>9
  <2> QED BY <2>1, <2>2
<1> QED BY <1>8, <1>10 DEF c, n

\* The m entries of es behind position a have the lines of those of t behind b.
Alike(es, a, t, b, m) ==
  /\ es \in Seq(Item) /\ t \in Seq(Item) /\ a \in Nat /\ b \in Nat /\ m \in Nat
  /\ a + m <= Len(es) /\ b + m <= Len(t)
  /\ \A k \in 1..m : es[a + k].lines = t[b + k].lines

\* Such stretches count alike.
LEMMA CountShift ==
  ASSUME NEW es, NEW t, NEW a, NEW b, NEW m, Alike(es, a, t, b, m)
  PROVE  LineCounts(es)[a + m] - LineCounts(es)[a] = LineCounts(t)[b + m] - LineCounts(t)[b]
<1> DEFINE c == LineCounts(es)
           d == LineCounts(t)
           T == {k \in 0..m : c[a + k] - c[a] = d[b + k] - d[b]}
           n == Len(es)
           l == Len(t)
<1>0. /\ es \in Seq(Item) /\ t \in Seq(Item) /\ a \in Nat /\ b \in Nat /\ m \in Nat
      /\ \A k \in 1..m : es[a + k].lines = t[b + k].lines
  BY DEF Alike
<1>1. /\ c \in [0..n -> Nat] /\ d \in [0..l -> Nat] /\ n \in Nat /\ l \in Nat
      /\ a + m <= n /\ b + m <= l
      /\ \A k \in 1..n : c[k] = c[k - 1] + es[k].lines
      /\ \A k \in 1..l : d[k] = d[k - 1] + t[k].lines
      /\ \A k \in 1..n : es[k].lines \in Nat
  <2>1. \A k \in 1..n : es[k] \in Item BY <1>0
  <2>2. \A k \in 1..n : es[k].lines \in Nat BY <2>1 DEF Item
  <2>3. a + m <= n /\ b + m <= l BY DEF Alike
  <2> QED BY <1>0, <2>2, <2>3, CountsAre
<1> HIDE DEF c, d, n, l
<1>2. 0 \in T
  <2>1. c[a] \in Nat /\ d[b] \in Nat /\ a + 0 = a /\ b + 0 = b /\ 0 \in 0..m BY <1>0, <1>1
  <2>2. c[a + 0] - c[a] = d[b + 0] - d[b] BY <2>1
  <2> QED BY <2>1, <2>2
<1>3. ASSUME NEW k \in 1..m, k - 1 \in T PROVE k \in T
  <2>1. /\ a + k \in 1..n /\ b + k \in 1..l /\ (a + k) - 1 = a + (k - 1)
        /\ (b + k) - 1 = b + (k - 1) /\ a \in 0..n /\ b \in 0..l
        /\ a + (k - 1) \in 0..n /\ b + (k - 1) \in 0..l
    BY <1>0, <1>1
  <2>2. c[a + k] = c[a + (k - 1)] + es[a + k].lines BY <1>0, <1>1, <2>1
  <2>3. d[b + k] = d[b + (k - 1)] + t[b + k].lines BY <1>0, <1>1, <2>1
  <2>4. es[a + k].lines = t[b + k].lines /\ es[a + k].lines \in Nat BY <1>0, <1>1, <2>1
  <2>5. c[a + (k - 1)] \in Nat /\ d[b + (k - 1)] \in Nat /\ c[a] \in Nat /\ d[b] \in Nat BY <1>0, <1>1, <2>1
  <2>6. c[a + (k - 1)] - c[a] = d[b + (k - 1)] - d[b] BY <1>3
  <2>7. \A u, v, w, x, y \in Nat : u - v = w - x => (u + y) - v = (w + y) - x OBVIOUS
  <2>8. c[a + k] - c[a] = d[b + k] - d[b] BY <2>2, <2>3, <2>4, <2>5, <2>6, <2>7
  <2> QED BY <2>8
<1>4. m \in T
  <2>1. m \in 0..m /\ m \in Nat BY <1>0
  <2> HIDE DEF T
  <2> QED BY <1>2, <1>3, <2>1, InductUpTo
<1> QED BY <1>4 DEF c, d

\* What is recorded is counted.
LEMMA CountAppend ==
  ASSUME NEW es \in Seq(Item), NEW e \in Item
  PROVE  LineCount(Append(es, e)) = LineCount(es) + e.lines
<1> DEFINE t == Append(es, e)
           n == Len(es)
<1>1. /\ t \in Seq(Item) /\ Len(t) = n + 1 /\ n \in Nat /\ t[n + 1] = e
      /\ \A k \in 1..n : t[k] = es[k]
  OBVIOUS
<1>2. LineCounts(es)[n] \in Nat /\ LineCounts(es)[0] = 0
  BY <1>1, CountsAre
<1> HIDE DEF t
<1>3. /\ LineCounts(t)[0] = 0 /\ LineCounts(t)[n] \in Nat
      /\ LineCounts(t)[n + 1] = LineCounts(t)[n] + e.lines
  <2>1. n + 1 \in 1..Len(t) /\ (n + 1) - 1 = n /\ n \in 0..Len(t) BY <1>1
  <2> QED BY <1>1, <2>1, CountsAre
<1>4. LineCounts(es)[0 + n] - LineCounts(es)[0] = LineCounts(t)[0 + n] - LineCounts(t)[0]
  <2>1. 0 \in Nat /\ 0 + n <= Len(es) /\ 0 + n <= Len(t) BY <1>1
  <2>2. \A k \in 1..n : es[0 + k].lines = t[0 + k].lines BY <1>1
  <2>3. Alike(es, 0, t, 0, n) BY <1>1, <2>1, <2>2 DEF Alike
  <2> HIDE DEF n
  <2> QED BY <2>3, CountShift
<1>5. LineCounts(es)[n] = LineCounts(t)[n]
  <2>1. 0 + n = n BY <1>1
  <2> QED BY <1>2, <1>3, <1>4, <2>1
<1> QED BY <1>1, <1>3, <1>5 DEF LineCount, t

\* What is left when the first k entries have gone.
LEMMA CountRest ==
  ASSUME NEW es \in Seq(Item), NEW k \in 0..Len(es)
  PROVE  LET t == SubSeq(es, k + 1, Len(es)) IN
         /\ t \in Seq(Item) /\ Len(t) = Len(es) - k
         /\ \A i \in 1..(Len(es) - k) : t[i] = es[k + i]
         /\ LineCount(t) = LineCount(es) - LineCounts(es)[k]
<1> DEFINE t == SubSeq(es, k + 1, Len(es))
           n == Len(es)
<1>0. n \in Nat /\ k \in Nat /\ k <= n /\ \A i \in 1..n : es[i] \in Item
  OBVIOUS
<1>1. t \in Seq(Item) /\ Len(t) = n - k /\ \A i \in 1..(n - k) : t[i] = es[k + i]
  BY <1>0, SubSeqProperties
<1> HIDE DEF t
<1>2. LineCounts(es)[n] \in Nat /\ LineCounts(es)[k] \in Nat
  BY <1>0, CountsAre
<1>3. LineCounts(t)[0] = 0 /\ LineCounts(t)[n - k] \in Nat
  <2>1. n - k \in 0..Len(t) BY <1>0, <1>1
  <2> QED BY <1>1, <2>1, CountsAre
<1>4. LineCounts(es)[k + (n - k)] - LineCounts(es)[k]
        = LineCounts(t)[0 + (n - k)] - LineCounts(t)[0]
  <2> DEFINE m == n - k
  <2>1. 0 \in Nat /\ m \in Nat /\ k + m <= Len(es) /\ 0 + m <= Len(t) BY <1>0, <1>1
  <2>2. \A i \in 1..m : es[k + i].lines = t[0 + i].lines
    <3> TAKE i \in 1..m
    <3>1. 0 + i = i OBVIOUS
    <3>2. t[i] = es[k + i] BY <1>1
    <3> QED BY <3>1, <3>2
  <2> HIDE DEF m, n
  <2>3. Alike(es, k, t, 0, m) BY <1>0, <1>1, <2>1, <2>2 DEF Alike
  <2>4. LineCounts(es)[k + m] - LineCounts(es)[k] = LineCounts(t)[0 + m] - LineCounts(t)[0]
    BY <2>3, CountShift
  <2> QED BY <2>4 DEF m
<1>5. k + (n - k) = n /\ 0 + (n - k) = n - k
  BY <1>0
<1>6. LineCounts(t)[n - k] = LineCounts(es)[n] - LineCounts(es)[k]
  BY <1>2, <1>3, <1>4, <1>5
<1> QED BY <1>1, <1>6 DEF LineCount, t

\* What the counter becomes when the i-th entry is replaced.
LEMMA CountReplaced ==
  ASSUME NEW es \in Seq(Item), NEW t \in Seq(Item), Len(t) = Len(es), NEW i \in 1..Len(es),
         \A j \in 1..Len(es) : j # i => t[j] = es[j]
  PROVE  LineCount(t) = (LineCount(es) - es[i].lines) + t[i].lines
<1> DEFINE n == Len(es)
           c == LineCounts(es)
           d == LineCounts(t)
<1>1. n \in Nat /\ i \in 1..n /\ es[i].lines \in Nat /\ t[i].lines \in Nat
  <2>1. es[i] \in Item /\ t[i] \in Item OBVIOUS
  <2> QED BY <2>1 DEF Item
<1>2. /\ c[0] = 0 /\ d[0] = 0 /\ c \in [0..n -> Nat] /\ d \in [0..n -> Nat]
      /\ c[i] = c[i - 1] + es[i].lines /\ d[i] = d[i - 1] + t[i].lines
  BY <1>1, CountsAre
<1>3. c[0 + (i - 1)] - c[0] = d[0 + (i - 1)] - d[0]
  <2> DEFINE m == i - 1
  <2>1. 0 \in Nat /\ m \in Nat /\ 0 + m <= Len(es) /\ 0 + m <= Len(t) BY <1>1
  <2>2. \A j \in 1..m : es[0 + j].lines = t[0 + j].lines
    <3> TAKE j \in 1..m
    <3>1. 0 + j = j /\ j \in 1..Len(es) /\ j # i BY <1>1
    <3> QED BY <3>1
  <2> HIDE DEF m
  <2>3. Alike(es, 0, t, 0, m) BY <1>1, <2>1, <2>2 DEF Alike
  <2>4. c[0 + m] - c[0] = d[0 + m] - d[0]
    BY <2>3, CountShift
  <2> QED BY <2>4 DEF m
<1>4. c[i + (n - i)] - c[i] = d[i + (n - i)] - d[i]
  <2> DEFINE m == n - i
  <2>1. i \in Nat /\ m \in Nat /\ i + m <= Len(es) /\ i + m <= Len(t) BY <1>1
  <2>2. \A j \in 1..m : es[i + j].lines = t[i + j].lines
    <3> TAKE j \in 1..m
    <3>1. i + j \in 1..Len(es) /\ i + j # i BY <1>1
    <3> QED BY <3>1
  <2> HIDE DEF m
  <2>3. Alike(es, i, t, i, m) BY <1>1, <2>1, <2>2 DEF Alike
  <2>4. c[i + m] - c[i] = d[i + m] - d[i]
    BY <2>3, CountShift
  <2> QED BY <2>4 DEF m
<1>5. /\ 0 + (i - 1) = i - 1 /\ i + (n - i) = n
      /\ c[i - 1] \in Nat /\ d[i - 1] \in Nat /\ c[n] \in Nat /\ d[n] \in Nat
      /\ c[i] \in Nat /\ d[i] \in Nat
  <2>1. i - 1 \in 0..n /\ n \in 0..n /\ i \in 0..n BY <1>1
  <2>2. c \in [0..n -> Nat] /\ d \in [0..n -> Nat] BY <1>2
  <2> HIDE DEF c, d, n
  <2>3. 0 + (i - 1) = i - 1 /\ i + (n - i) = n BY <1>1
  <2> QED BY <2>1, <2>2, <2>3
<1> HIDE DEF c, d
<1>6. d[n] = (c[n] - es[i].lines) + t[i].lines
  <2>a. 0 + (i - 1) = i - 1 /\ i + (n - i) = n /\ c[0] = 0 /\ d[0] = 0 BY <1>2, <1>5
  <2>b. c[i - 1] - 0 = d[i - 1] - 0 BY <1>3, <2>a
  <2>c. c[n] - c[i] = d[n] - d[i] BY <1>4, <2>a
  <2>1. c[i - 1] = d[i - 1] /\ c[n] - c[i] = d[n] - d[i] BY <1>5, <2>b, <2>c
  <2> DEFINE x == c[i - 1]
             u == c[n]
             v == d[n]
             p == es[i].lines
             q == t[i].lines
  <2>2. x \in Nat /\ u \in Nat /\ v \in Nat /\ p \in Nat /\ q \in Nat BY <1>1, <1>5
  <2>3. u - (x + p) = v - (x + q) BY <1>2, <2>1
  <2> HIDE DEF x, u, v, p, q
  <2>4. v = (u - p) + q BY <2>2, <2>3
  <2> QED BY <2>4 DEF u, v, p, q
<1> QED BY <1>6 DEF LineCount, c, d

\* q is the ring r without its first k entries.
Dropped(r, q, k) ==
  /\ k \in 0..Len(r.entries)
  /\ Len(q.entries) = Len(r.entries) - k
  /\ \A i \in 1..(Len(r.entries) - k) : q.entries[i] = r.entries[k + i]
  /\ q.nextId = r.nextId /\ q.droppedEntries = r.droppedEntries + k

\* Eviction drops the oldest entries, if any, and brings the ring within its
\* ceiling; the newest entry stays if it fits alone.
LEMMA EvictOK ==
  ASSUME NEW r, RingOK(r)
  PROVE  LET q == Evict(r) IN
         /\ RingOK(q) /\ q.lines <= MaxLines
         /\ \E k \in Nat : Dropped(r, q, k)
         /\ q.droppedEntries = r.droppedEntries => q = r
         /\ r.entries # <<>> /\ r.entries[Len(r.entries)].lines <= MaxLines => q.entries # <<>>
<1> DEFINE es == r.entries
           n == Len(es)
           c == LineCounts(es)
           k == CHOOSE k \in Fit(r) : \A l \in Fit(r) : k <= l
           t == SubSeq(es, k + 1, n)
           q == [r EXCEPT !.entries = t, !.lines = r.lines - c[k],
                          !.droppedEntries = r.droppedEntries + k,
                          !.droppedLines = r.droppedLines + c[k]]
<1>1. /\ r \in Ring /\ es \in Seq(Item) /\ n \in Nat /\ r.lines \in Nat /\ r.nextId \in Nat
      /\ r.droppedEntries \in Nat /\ r.droppedLines \in Nat
      /\ r.lines = c[n] /\ r.nextId = n + r.droppedEntries + 1
      /\ \A i \in 1..n : es[i].id = r.droppedEntries + i
  BY DEF RingOK, Ring, LineCount
<1>2. /\ c \in [0..n -> Nat] /\ c[0] = 0
      /\ \A i \in 1..n : c[i] = c[i - 1] + es[i].lines
  BY <1>1, CountsAre
<1>3. MaxLines \in Nat
  BY MirrorLimits
<1>4. Evict(r) = q
  BY <1>1 DEF Evict, Ring
<1>f. Fit(r) = {i \in 0..n : r.lines - c[i] <= MaxLines}
  BY DEF Fit
<1> HIDE DEF c
<1>5. n \in Fit(r)
  <2>1. r.lines - c[n] = 0 /\ n \in 0..n BY <1>1
  <2> QED BY <1>3, <1>f, <2>1
<1>6. k \in Fit(r) /\ \A l \in Fit(r) : k <= l
  <2>1. Fit(r) \subseteq Nat /\ Fit(r) # {} BY <1>5, <1>f
  <2>2. \E i \in Fit(r) : \A j \in Fit(r) : i <= j BY <2>1, LeastIndex
  <2> QED BY <2>2
<1>7. k \in 0..n /\ r.lines - c[k] <= MaxLines
  BY <1>6, <1>f
<1> HIDE DEF k
<1>8. /\ t \in Seq(Item) /\ Len(t) = n - k
      /\ \A i \in 1..(n - k) : t[i] = es[k + i]
      /\ LineCount(t) = r.lines - c[k]
  <2>1. LineCount(es) = r.lines BY <1>1 DEF LineCount, c
  <2> QED BY <1>1, <1>7, <2>1, CountRest DEF c
<1>9. LineCount(t) \in Nat
  <2>1. n - k \in 0..Len(t) BY <1>1, <1>7, <1>8
  <2>2. LineCounts(t) \in [0..Len(t) -> Nat] BY <1>8, CountsAre
  <2> QED BY <1>7, <1>8, <2>1, <2>2 DEF LineCount
<1>10. c[k] \in Nat /\ k \in Nat
  BY <1>2, <1>7
<1> HIDE DEF t
<1>11. /\ q.entries = t /\ q.lines = r.lines - c[k] /\ q.droppedEntries = r.droppedEntries + k
       /\ q.nextId = r.nextId /\ q \in Ring
  <2>1. r.lines - c[k] \in Nat /\ r.droppedEntries + k \in Nat /\ r.droppedLines + c[k] \in Nat
    <3>1. LineCount(t) = r.lines - c[k] BY <1>8
    <3>2. r.droppedEntries \in Nat /\ r.droppedLines \in Nat BY <1>1
    <3>3. r.lines - c[k] \in Nat BY <1>9, <3>1
    <3> HIDE DEF q
    <3> QED BY <1>10, <3>2, <3>3
  <2> QED BY <1>1, <1>8, <2>1 DEF Ring
<1>12. RingOK(q)
  <2>1. q.nextId = Len(q.entries) + q.droppedEntries + 1
    <3>1. \A x, y, z \in Nat : x + z + 1 = (x - y) + (z + y) + 1 OBVIOUS
    <3>2. n + r.droppedEntries + 1 = (n - k) + (r.droppedEntries + k) + 1 BY <1>1, <1>10, <3>1
    <3> QED BY <1>1, <1>8, <1>11, <3>2
  <2>2. \A i \in 1..Len(q.entries) : q.entries[i].id = q.droppedEntries + i
    <3> TAKE i \in 1..Len(q.entries)
    <3>1. i \in 1..(n - k) /\ k + i \in 1..n BY <1>1, <1>7, <1>8, <1>11
    <3>2. q.entries[i].id = r.droppedEntries + (k + i) BY <1>1, <1>8, <1>11, <3>1
    <3> QED BY <1>1, <1>10, <1>11, <3>1, <3>2
  <2> QED BY <1>8, <1>11, <2>1, <2>2 DEF RingOK
<1>13. Dropped(r, q, k)
  BY <1>1, <1>7, <1>8, <1>11 DEF Dropped
<1>14. ASSUME q.droppedEntries = r.droppedEntries PROVE q = r
  <2>1. k = 0 BY <1>1, <1>10, <1>11, <1>14
  <2>2. t = es
    <3>1. Len(t) = Len(es) /\ \A i \in 1..Len(es) : t[i] = es[i] BY <1>1, <1>8, <2>1
    <3> QED BY <1>1, <1>8, <3>1, SeqEqual
  <2>3. r.lines - c[k] = r.lines /\ r.droppedEntries + k = r.droppedEntries
        /\ r.droppedLines + c[k] = r.droppedLines
    BY <1>1, <1>2, <2>1
  <2> DEFINE x == r.lines - c[k]
             y == r.droppedEntries + k
             z == r.droppedLines + c[k]
  <2>4. x = r.lines /\ y = r.droppedEntries /\ z = r.droppedLines BY <2>3
  <2> HIDE DEF x, y, z
  <2>5. [r EXCEPT !.entries = t, !.lines = x, !.droppedEntries = y, !.droppedLines = z] = r
    BY <1>1, <2>2, <2>4 DEF Ring
  <2> QED BY <2>5 DEF x, y, z
<1>15. ASSUME es # <<>>, es[n].lines <= MaxLines PROVE q.entries # <<>>
  <2>1. n \in 1..n /\ n - 1 \in 0..n BY <1>1, <1>15
  <2>2. c[n] = c[n - 1] + es[n].lines /\ c[n - 1] \in Nat BY <1>2, <2>1
  <2>3. es[n].lines \in Nat
    <3>1. es[n] \in Item BY <1>1, <2>1
    <3> QED BY <3>1 DEF Item
  <2>4. r.lines - c[n - 1] = es[n].lines BY <1>1, <2>2, <2>3
  <2>5. n - 1 \in Fit(r) BY <1>15, <1>f, <2>1, <2>4
  <2>6. k <= n - 1 BY <1>6, <2>5
  <2>7. Len(t) # 0 BY <1>1, <1>8, <1>10, <2>6
  <2> QED BY <1>11, <2>7
<1> QED BY <1>4, <1>7, <1>10, <1>11, <1>12, <1>13, <1>14, <1>15

\* What the fields of a well-formed ring are.
LEMMA RingParts ==
  ASSUME NEW r, RingOK(r)
  PROVE  /\ r \in Ring /\ r.entries \in Seq(Item) /\ Len(r.entries) \in Nat
         /\ r.lines \in Nat /\ r.nextId \in Nat
         /\ r.droppedEntries \in Nat /\ r.droppedLines \in Nat
         /\ r.lines = LineCount(r.entries) /\ r.nextId = Len(r.entries) + r.droppedEntries + 1
         /\ \A i \in 1..Len(r.entries) : r.entries[i].id = r.droppedEntries + i
<1>1. /\ r \in Ring /\ r.lines = LineCount(r.entries)
      /\ r.nextId = Len(r.entries) + r.droppedEntries + 1
      /\ \A i \in 1..Len(r.entries) : r.entries[i].id = r.droppedEntries + i
  BY DEF RingOK
<1>2. /\ r.entries \in Seq(Item) /\ r.lines \in Nat /\ r.nextId \in Nat
      /\ r.droppedEntries \in Nat /\ r.droppedLines \in Nat
  BY <1>1 DEF Ring
<1>3. Len(r.entries) \in Nat BY <1>2
<1> QED BY <1>1, <1>2, <1>3

\* push before eviction.
Grown(r, e) ==
  [r EXCEPT !.entries = Append(@, e), !.nextId = @ + 1, !.lines = @ + e.lines]

\* Recording grows the ring by one entry, before anything is evicted.
LEMMA GrownOK ==
  ASSUME NEW r, RingOK(r), NEW e \in Item, e.id = r.nextId
  PROVE  LET g == Grown(r, e) IN
         /\ RingOK(g) /\ g.entries = Append(r.entries, e) /\ Push(r, e) = Evict(g)
         /\ Len(g.entries) = Len(r.entries) + 1 /\ g.entries[Len(r.entries) + 1] = e
         /\ \A i \in 1..Len(r.entries) : g.entries[i] = r.entries[i]
         /\ g.droppedEntries = r.droppedEntries /\ g.droppedLines = r.droppedLines
         /\ g.nextId = r.nextId + 1
<1> DEFINE es == r.entries
           t == Append(es, e)
           n == Len(es)
           g == Grown(r, e)
<1>1. /\ r \in Ring /\ es \in Seq(Item) /\ n \in Nat /\ r.lines \in Nat /\ r.nextId \in Nat
      /\ r.droppedEntries \in Nat /\ e.lines \in Nat
      /\ r.lines = LineCount(es) /\ r.nextId = n + r.droppedEntries + 1
      /\ \A i \in 1..n : es[i].id = r.droppedEntries + i
  <2>1. e.lines \in Nat BY DEF Item
  <2> QED BY <2>1, RingParts
<1>2. /\ t \in Seq(Item) /\ Len(t) = n + 1 /\ t[n + 1] = e /\ \A i \in 1..n : t[i] = es[i]
      /\ LineCount(t) = r.lines + e.lines
  BY <1>1, CountAppend
<1> HIDE DEF t
<1>3. /\ g \in Ring /\ g.entries = t /\ g.lines = r.lines + e.lines /\ g.nextId = r.nextId + 1
      /\ g.droppedEntries = r.droppedEntries /\ g.droppedLines = r.droppedLines
  <2>1. g = [r EXCEPT !.entries = t, !.nextId = r.nextId + 1, !.lines = r.lines + e.lines]
    BY <1>1 DEF Grown, Ring, t
  <2>2. r.nextId + 1 \in Nat /\ r.lines + e.lines \in Nat BY <1>1
  <2> QED BY <1>1, <1>2, <2>1, <2>2 DEF Ring
<1>4. g.nextId = Len(g.entries) + g.droppedEntries + 1
  <2>1. (n + r.droppedEntries + 1) + 1 = (n + 1) + r.droppedEntries + 1 BY <1>1
  <2> QED BY <1>1, <1>2, <1>3, <2>1
<1>5. \A i \in 1..Len(g.entries) : g.entries[i].id = g.droppedEntries + i
  <2> SUFFICES ASSUME NEW i \in 1..(n + 1) PROVE t[i].id = r.droppedEntries + i
    BY <1>2, <1>3
  <2>1. CASE i \in 1..n BY <1>1, <1>2, <2>1
  <2>2. CASE i = n + 1
    <3>1. t[i].id = r.nextId BY <1>2, <2>2
    <3> QED BY <1>1, <2>2, <3>1
  <2> QED BY <1>1, <2>1, <2>2
<1>6. RingOK(g)
  BY <1>2, <1>3, <1>4, <1>5 DEF RingOK
<1>7. Push(r, e) = Evict(g)
  BY DEF Push, Grown
<1> QED BY <1>2, <1>3, <1>6, <1>7 DEF t

\* update before eviction.
Altered(r, e) ==
  LET old == CHOOSE x \in Range(r.entries) : x.id = e.id IN
  [r EXCEPT !.entries = Replaced(@, e), !.lines = (@ - old.lines) + e.lines]

\* t is the sequence es with e at position i.
With(es, t, i, e) ==
  /\ i \in 1..Len(es) /\ Len(t) = Len(es) /\ t[i] = e
  /\ \A j \in 1..Len(es) : j # i => t[j] = es[j]

\* Where ids are distinct one entry is replaced.
LEMMA ReplacedIs ==
  ASSUME NEW es \in Seq(Item), NEW e \in Item, NEW i \in 1..Len(es), es[i].id = e.id,
         \A j \in 1..Len(es) : es[j].id = es[i].id => j = i
  PROVE  Replaced(es, e) \in Seq(Item) /\ With(es, Replaced(es, e), i, e)
<1> DEFINE t == Replaced(es, e)
           n == Len(es)
<1>1. n \in Nat /\ DOMAIN es = 1..n /\ \A j \in 1..n : es[j] \in Item
  OBVIOUS
<1>2. t = [j \in 1..n |-> IF es[j].id = e.id THEN e ELSE es[j]]
  BY <1>1 DEF Replaced
<1> HIDE DEF t
<1>3. t \in Seq(Item) /\ Len(t) = n
  <2>1. t \in [1..n -> Item] BY <1>1, <1>2
  <2> QED BY <1>1, <2>1
<1>4. t[i] = e
  BY <1>1, <1>2
<1>5. \A j \in 1..n : j # i => t[j] = es[j]
  BY <1>1, <1>2
<1> QED BY <1>3, <1>4, <1>5 DEF With, t

\* An update changes one entry, before anything is evicted.
LEMMA AlteredOK ==
  ASSUME NEW r, RingOK(r), NEW e \in Item, NEW i \in 1..Len(r.entries), r.entries[i].id = e.id
  PROVE  LET g == Altered(r, e) IN
         /\ RingOK(g) /\ g.entries = Replaced(r.entries, e) /\ Update(r, e) = Evict(g)
         /\ With(r.entries, g.entries, i, e)
         /\ g.droppedEntries = r.droppedEntries /\ g.droppedLines = r.droppedLines
         /\ g.nextId = r.nextId
<1> DEFINE es == r.entries
           t == Replaced(es, e)
           n == Len(es)
           old == CHOOSE x \in Range(es) : x.id = e.id
           g == Altered(r, e)
<1>1. /\ r \in Ring /\ es \in Seq(Item) /\ n \in Nat /\ r.lines \in Nat /\ r.nextId \in Nat
      /\ r.droppedEntries \in Nat /\ e.lines \in Nat
      /\ r.lines = LineCount(es) /\ r.nextId = n + r.droppedEntries + 1
      /\ \A j \in 1..n : es[j].id = r.droppedEntries + j
  <2>1. e.lines \in Nat BY DEF Item
  <2> QED BY <2>1, RingParts
<1>2. \A j \in 1..n : es[j].id = es[i].id => j = i
  BY <1>1
<1>3. t \in Seq(Item) /\ With(es, t, i, e)
  BY <1>1, <1>2, ReplacedIs
<1>4. old = es[i]
  <2>1. DOMAIN es = 1..n /\ i \in DOMAIN es BY <1>1
  <2>2. es[i] \in Range(es) /\ es[i].id = e.id BY <2>1 DEF Range
  <2>3. \A x \in Range(es) : x.id = e.id => x = es[i] BY <1>2, <2>1 DEF Range
  <2> QED BY <2>2, <2>3
<1> HIDE DEF t, old
<1>5. LineCount(t) = (r.lines - old.lines) + e.lines
  <2>1. Len(t) = Len(es) /\ t[i] = e /\ \A j \in 1..Len(es) : j # i => t[j] = es[j] BY <1>3 DEF With
  <2> QED BY <1>1, <1>3, <1>4, <2>1, CountReplaced
<1>6. LineCount(t) \in Nat
  <2>1. LineCounts(t) \in [0..Len(t) -> Nat] /\ Len(t) \in 0..Len(t) BY <1>3, CountsAre
  <2> QED BY <2>1 DEF LineCount
<1>7. /\ g \in Ring /\ g.entries = t /\ g.lines = LineCount(t) /\ g.nextId = r.nextId
      /\ g.droppedEntries = r.droppedEntries /\ g.droppedLines = r.droppedLines
  <2>1. g = [r EXCEPT !.entries = t, !.lines = (r.lines - old.lines) + e.lines]
    BY <1>1 DEF Altered, Ring, t, old
  <2> QED BY <1>1, <1>3, <1>5, <1>6, <2>1 DEF Ring
<1>8. Len(t) = n /\ t[i] = e /\ \A j \in 1..n : j # i => t[j] = es[j]
  BY <1>3 DEF With
<1>9. \A j \in 1..n : t[j].id = r.droppedEntries + j
  <2> TAKE j \in 1..n
  <2>1. CASE j = i BY <1>1, <1>8, <2>1
  <2>2. CASE j # i BY <1>1, <1>8, <2>2
  <2> QED BY <2>1, <2>2
<1>10. RingOK(g)
  BY <1>1, <1>7, <1>8, <1>9 DEF RingOK
<1>11. Update(r, e) = Evict(g)
  BY DEF Update, Altered
<1> QED BY <1>3, <1>7, <1>10, <1>11 DEF t

-----------------------------------------------------------------------------
(* The blocks.                                                             *)

AllClosed(es) == \A i \in 1..Len(es) : es[i].kind = "output_block" => es[i].state = "closed"

\* A block that is not closed is the current one, b, and no turn stands behind it.
Blocks(es, b) ==
  \A i \in 1..Len(es) : es[i].kind = "output_block" /\ es[i].state # "closed" =>
    es[i].id = b /\ \A j \in 1..Len(es) : i < j => es[j].kind # "user_turn"

\* Where every block is closed none can still grow, whatever the current one is.
LEMMA ClosedBlocks == ASSUME NEW es, AllClosed(es), NEW b PROVE Blocks(es, b)
BY DEF AllClosed, Blocks

\* What was dropped cannot matter.
LEMMA BlocksDropped ==
  ASSUME NEW r, NEW q, NEW k \in Nat, r.entries \in Seq(Item), Dropped(r, q, k)
  PROVE  /\ \A b : Blocks(r.entries, b) => Blocks(q.entries, b)
         /\ AllClosed(r.entries) => AllClosed(q.entries)
<1> DEFINE es == r.entries
           t == q.entries
           n == Len(es)
<1>1. /\ n \in Nat /\ Len(t) = n - k /\ k <= n
      /\ \A i \in 1..(n - k) : t[i] = es[k + i] /\ k + i \in 1..n
  <2>1. n \in Nat /\ k \in 0..n /\ Len(t) = n - k /\ \A i \in 1..(n - k) : t[i] = es[k + i]
    BY DEF Dropped
  <2> HIDE DEF n, es, t
  <2>2. \A i \in 1..(n - k) : k + i \in 1..n BY <2>1
  <2> QED BY <2>1, <2>2
<1> HIDE DEF es, t, n
<1>2. ASSUME NEW b, Blocks(es, b) PROVE Blocks(t, b)
  <2> SUFFICES ASSUME NEW i \in 1..(n - k), t[i].kind = "output_block", t[i].state # "closed"
               PROVE  t[i].id = b /\ \A j \in 1..(n - k) : i < j => t[j].kind # "user_turn"
    BY <1>1 DEF Blocks
  <2>1. es[k + i].id = b /\ \A j \in 1..n : k + i < j => es[j].kind # "user_turn"
    BY <1>1, <1>2 DEF Blocks, n
  <2>2. ASSUME NEW j \in 1..(n - k), i < j PROVE t[j].kind # "user_turn"
    <3>1. k + j \in 1..n /\ t[j] = es[k + j] BY <1>1
    <3>2. k + i < k + j BY <1>1, <2>2
    <3> QED BY <2>1, <3>1, <3>2
  <2> QED BY <1>1, <2>1, <2>2
<1>3. ASSUME AllClosed(es) PROVE AllClosed(t)
  BY <1>1, <1>3 DEF AllClosed, n
<1> QED BY <1>2, <1>3 DEF es, t

\* t is the sequence es with e behind it.
Behind(es, t, e) ==
  /\ Len(es) \in Nat /\ Len(t) = Len(es) + 1 /\ t[Len(es) + 1] = e
  /\ \A i \in 1..Len(es) : t[i] = es[i]

\* A new entry behind closed blocks, or one that is not a turn.
LEMMA BlocksAppend ==
  ASSUME NEW es, NEW t, NEW e, Behind(es, t, e)
  PROVE  /\ AllClosed(es) /\ e.kind # "output_block" => AllClosed(t)
         /\ AllClosed(es) => Blocks(t, e.id)
         /\ \A b : Blocks(es, b) /\ e.kind \notin {"output_block", "user_turn"} => Blocks(t, b)
<1> DEFINE n == Len(es)
<1>1. /\ n \in Nat /\ Len(t) = n + 1
      /\ \A i \in 1..Len(t) : (i \in 1..n /\ t[i] = es[i]) \/ (i = n + 1 /\ t[i] = e)
  BY DEF Behind
<1>2. AllClosed(es) /\ e.kind # "output_block" => AllClosed(t)
  BY <1>1 DEF AllClosed
<1>3. ASSUME AllClosed(es) PROVE Blocks(t, e.id)
  <2> SUFFICES ASSUME NEW i \in 1..Len(t), t[i].kind = "output_block", t[i].state # "closed"
               PROVE  t[i].id = e.id /\ \A j \in 1..Len(t) : i < j => t[j].kind # "user_turn"
    BY DEF Blocks
  <2>1. i = n + 1 /\ t[i] = e BY <1>1, <1>3 DEF AllClosed
  <2>2. \A j \in 1..Len(t) : ~(i < j) BY <1>1, <2>1
  <2> QED BY <2>1, <2>2
<1>4. ASSUME NEW b, Blocks(es, b), e.kind \notin {"output_block", "user_turn"} PROVE Blocks(t, b)
  <2> SUFFICES ASSUME NEW i \in 1..Len(t), t[i].kind = "output_block", t[i].state # "closed"
               PROVE  t[i].id = b /\ \A j \in 1..Len(t) : i < j => t[j].kind # "user_turn"
    BY DEF Blocks
  <2>1. i \in 1..n /\ t[i] = es[i] BY <1>1, <1>4
  <2>2. es[i].id = b /\ \A j \in 1..n : i < j => es[j].kind # "user_turn"
    BY <1>4, <2>1 DEF Blocks
  <2>3. ASSUME NEW j \in 1..Len(t), i < j PROVE t[j].kind # "user_turn"
    BY <1>1, <1>4, <2>2, <2>3
  <2> QED BY <2>1, <2>2, <2>3
<1> QED BY <1>2, <1>3, <1>4

\* A block that changes is the current one.
LEMMA BlocksWith ==
  ASSUME NEW es, NEW t, NEW i, NEW e, NEW b, With(es, t, i, e), Blocks(es, b),
         es[i].id = b, e.id = b, e.kind = es[i].kind, es[i].state # "closed",
         \A j \in 1..Len(es) : es[j].id = b => j = i
  PROVE  Blocks(t, b) /\ (e.state = "closed" => AllClosed(t))
<1>1. /\ i \in 1..Len(es) /\ Len(t) = Len(es) /\ t[i] = e
      /\ \A j \in 1..Len(es) : j # i => t[j] = es[j]
  BY DEF With
<1>2. \A j \in 1..Len(es) : t[j].kind = es[j].kind
  BY <1>1
<1>3. ASSUME NEW j \in 1..Len(es), j # i, es[j].kind = "output_block" PROVE es[j].state = "closed"
  BY <1>3 DEF Blocks
<1>4. Blocks(t, b)
  <2> SUFFICES ASSUME NEW j \in 1..Len(t), t[j].kind = "output_block", t[j].state # "closed"
               PROVE  t[j].id = b /\ \A l \in 1..Len(t) : j < l => t[l].kind # "user_turn"
    BY DEF Blocks
  <2>1. j = i BY <1>1, <1>3
  <2>2. \A l \in 1..Len(es) : i < l => es[l].kind # "user_turn"
    BY <1>1, <1>2, <2>1 DEF Blocks
  <2> QED BY <1>1, <1>2, <2>1, <2>2
<1>5. e.state = "closed" => AllClosed(t)
  BY <1>1, <1>3 DEF AllClosed
<1> QED BY <1>4, <1>5

-----------------------------------------------------------------------------
(* The steps of the ring.                                                  *)

HubStates == {"idle", "attaching", "live", "polling"} \cup Failures

HubType == [viewers : SUBSET Viewers, reader : {"off", "first", "on"}, state : HubStates,
            attachedOnce : BOOLEAN, currentBlock : Nat, lastDropped : Nat]

\* The inductive invariant of the ring.
RingInv ==
  /\ RingOK(ring) /\ ring.lines <= MaxLines
  /\ hub \in HubType
  /\ Blocks(ring.entries, hub.currentBlock)

\* What the invariant says of the ring and its entries.
LEMMA RingFields ==
  ASSUME NEW r, RingOK(r)
  PROVE  /\ r \in Ring /\ r.entries \in Seq(Item) /\ Len(r.entries) \in Nat
         /\ DOMAIN r.entries = 1..Len(r.entries)
         /\ r.droppedEntries \in Nat /\ r.droppedLines \in Nat /\ r.nextId \in Nat
         /\ r.nextId = Len(r.entries) + r.droppedEntries + 1
         /\ \A i \in 1..Len(r.entries) :
              r.entries[i] \in Item /\ r.entries[i].id = r.droppedEntries + i
         /\ \A i, j \in 1..Len(r.entries) : r.entries[i].id = r.entries[j].id => i = j
<1>1. /\ r \in Ring /\ r.entries \in Seq(Item) /\ r.droppedEntries \in Nat
      /\ r.droppedLines \in Nat /\ r.nextId \in Nat
      /\ r.nextId = Len(r.entries) + r.droppedEntries + 1
      /\ \A i \in 1..Len(r.entries) : r.entries[i].id = r.droppedEntries + i
  BY RingParts
<1>2. /\ Len(r.entries) \in Nat /\ DOMAIN r.entries = 1..Len(r.entries)
      /\ \A i \in 1..Len(r.entries) : r.entries[i] \in Item
  BY <1>1
<1>3. \A i, j \in 1..Len(r.entries) : r.entries[i].id = r.entries[j].id => i = j
  BY <1>1, <1>2
<1> QED BY <1>1, <1>2, <1>3

\* The hub knows its viewers.
LEMMA SeenIs ==
  ASSUME NEW h \in HubType, NEW r, r.droppedEntries \in Nat
  PROVE  LET s == Seen(h, r) IN
         /\ s \in HubType /\ s.viewers = h.viewers /\ s.reader = h.reader /\ s.state = h.state
         /\ s.attachedOnce = h.attachedOnce /\ s.currentBlock = h.currentBlock
         /\ h.viewers # {} => s.lastDropped = r.droppedEntries
BY DEF Seen, HubType

\* Who leaves changes the hub's state only when nobody is left.
LEMMA LeftIs ==
  ASSUME NEW h \in HubType, NEW V
  PROVE  LET l == Left(h, V) IN
         /\ l \in HubType /\ l.viewers = h.viewers \ V /\ l.currentBlock = h.currentBlock
         /\ l.lastDropped = h.lastDropped
         /\ ~(h.viewers \subseteq V) => l.state = h.state
<1>1. "idle" \in HubStates BY DEF HubStates
<1> QED BY <1>1 DEF Left, HubType

\* A push into a ring.
LEMMA PushOK ==
  ASSUME NEW r, RingOK(r), NEW e \in Item, e.id = r.nextId
  PROVE  LET q == Push(r, e) IN
         /\ RingOK(q) /\ q.lines <= MaxLines /\ q.nextId = r.nextId + 1
         /\ AllClosed(r.entries) => Blocks(q.entries, e.id)
         /\ AllClosed(r.entries) /\ e.kind # "output_block" => AllClosed(q.entries)
         /\ \A b : Blocks(r.entries, b) /\ e.kind \notin {"output_block", "user_turn"}
                     => Blocks(q.entries, b)
<1> DEFINE g == Grown(r, e)
           q == Push(r, e)
<1>1. /\ RingOK(g) /\ g.entries = Append(r.entries, e) /\ q = Evict(g)
      /\ Len(g.entries) = Len(r.entries) + 1 /\ g.entries[Len(r.entries) + 1] = e
      /\ \A i \in 1..Len(r.entries) : g.entries[i] = r.entries[i]
      /\ g.nextId = r.nextId + 1
  BY GrownOK
<1>2. RingOK(q) /\ q.lines <= MaxLines /\ \E k \in Nat : Dropped(g, q, k)
  BY <1>1, EvictOK
<1> HIDE DEF g, q
<1>3. PICK k \in Nat : Dropped(g, q, k)
  BY <1>2
<1>4. /\ \A b : Blocks(g.entries, b) => Blocks(q.entries, b)
      /\ AllClosed(g.entries) => AllClosed(q.entries)
  BY <1>1, <1>3, RingFields, BlocksDropped
<1>5. /\ AllClosed(r.entries) /\ e.kind # "output_block" => AllClosed(g.entries)
      /\ AllClosed(r.entries) => Blocks(g.entries, e.id)
      /\ \A b : Blocks(r.entries, b) /\ e.kind \notin {"output_block", "user_turn"}
                  => Blocks(g.entries, b)
  <2>1. Behind(r.entries, g.entries, e) BY <1>1, RingFields DEF Behind
  <2> QED BY <2>1, BlocksAppend
<1>6. q.nextId = r.nextId + 1
  BY <1>1, <1>3 DEF Dropped
<1> QED BY <1>2, <1>4, <1>5, <1>6 DEF q

\* An update of the current block of a ring.
LEMMA UpdateOK ==
  ASSUME NEW r, RingOK(r), NEW i \in 1..Len(r.entries), NEW e \in Item,
         r.entries[i].id = e.id, e.kind = r.entries[i].kind, r.entries[i].state # "closed",
         Blocks(r.entries, e.id)
  PROVE  LET q == Update(r, e) IN
         /\ RingOK(q) /\ q.lines <= MaxLines /\ q.nextId = r.nextId
         /\ Blocks(q.entries, e.id)
         /\ e.state = "closed" => AllClosed(q.entries)
<1> DEFINE g == Altered(r, e)
           q == Update(r, e)
<1>1. /\ RingOK(g) /\ q = Evict(g) /\ With(r.entries, g.entries, i, e) /\ g.nextId = r.nextId
  BY AlteredOK
<1>2. RingOK(q) /\ q.lines <= MaxLines /\ \E k \in Nat : Dropped(g, q, k)
  BY <1>1, EvictOK
<1> HIDE DEF g, q
<1>3. PICK k \in Nat : Dropped(g, q, k)
  BY <1>2
<1>4. /\ \A b : Blocks(g.entries, b) => Blocks(q.entries, b)
      /\ AllClosed(g.entries) => AllClosed(q.entries)
  BY <1>1, <1>3, RingFields, BlocksDropped
<1>5. \A j \in 1..Len(r.entries) : r.entries[j].id = e.id => j = i
  BY RingFields
<1>6. Blocks(g.entries, e.id) /\ (e.state = "closed" => AllClosed(g.entries))
  BY <1>1, <1>5, BlocksWith
<1>7. q.nextId = r.nextId
  BY <1>1, <1>3 DEF Dropped
<1> QED BY <1>2, <1>4, <1>6, <1>7 DEF q

\* The block that output goes into.
LEMMA OpenBlockIs ==
  ASSUME RingInv
  PROVE  /\ OpenBlock = {} => AllClosed(ring.entries)
         /\ \A b \in OpenBlock :
              /\ b \in Item /\ b.id = hub.currentBlock /\ b.state # "closed"
              /\ \E i \in 1..Len(ring.entries) : ring.entries[i] = b
<1>1. /\ DOMAIN ring.entries = 1..Len(ring.entries)
      /\ \A i \in 1..Len(ring.entries) : ring.entries[i] \in Item
  BY RingFields DEF RingInv
<1>2. Range(ring.entries) = {ring.entries[i] : i \in 1..Len(ring.entries)}
  BY <1>1 DEF Range
<1>3. ASSUME OpenBlock = {} PROVE AllClosed(ring.entries)
  <2> SUFFICES ASSUME NEW i \in 1..Len(ring.entries), ring.entries[i].kind = "output_block",
                      ring.entries[i].state # "closed"
               PROVE  FALSE
    BY DEF AllClosed
  <2>1. ring.entries[i].id = hub.currentBlock BY DEF RingInv, Blocks
  <2>2. ring.entries[i] \in OpenBlock BY <1>2, <2>1 DEF OpenBlock
  <2> QED BY <1>3, <2>2
<1>4. ASSUME NEW b \in OpenBlock
      PROVE  /\ b \in Item /\ b.id = hub.currentBlock /\ b.state # "closed"
             /\ \E i \in 1..Len(ring.entries) : ring.entries[i] = b
  BY <1>1, <1>2 DEF OpenBlock
<1> QED BY <1>3, <1>4

\* Entries that are recorded.
LEMMA NewEntryIs ==
  ASSUME RingInv, NEW kind \in {"earlier_output", "output_block", "user_turn", "control"},
         NEW n \in Nat
  PROVE  LET e == NewEntry(kind, n) IN
         e \in Item /\ e.id = ring.nextId /\ e.kind = kind /\ e.lines = n /\ e.state = "open"
<1>1. ring.nextId \in Nat BY RingFields DEF RingInv
<1> QED BY <1>1 DEF NewEntry, Item

\* A change of an entry's lines or state keeps its id and kind.
LEMMA EntryWith ==
  ASSUME NEW b \in Item, NEW n \in Nat
  PROVE  /\ LET e == [b EXCEPT !.lines = @ + n, !.state = "open"] IN
            e \in Item /\ e.id = b.id /\ e.kind = b.kind
         /\ \A s \in {"paused", "closed"} :
              LET e == [b EXCEPT !.state = s] IN
              e \in Item /\ e.id = b.id /\ e.kind = b.kind /\ e.state = s /\ e.lines = b.lines
<1>1. b.lines + n \in Nat BY DEF Item
<1> QED BY <1>1 DEF Item

\* A step that leaves the ring alone.
LEMMA RingSame ==
  ASSUME RingInv, ring' = ring, hub' \in HubType, hub'.currentBlock = hub.currentBlock
  PROVE  RingInv'
BY DEF RingInv

\* A step that sets a state of the hub and tells it.
LEMMA HubWith ==
  ASSUME NEW h \in HubType
  PROVE  /\ \A s \in HubStates : LET k == [h EXCEPT !.state = s] IN
              /\ k \in HubType /\ k.viewers = h.viewers /\ k.currentBlock = h.currentBlock
              /\ k.lastDropped = h.lastDropped /\ k.state = s /\ k.reader = h.reader
              /\ k.attachedOnce = h.attachedOnce
         /\ LET k == [h EXCEPT !.reader = "off"] IN
              /\ k \in HubType /\ k.viewers = h.viewers /\ k.currentBlock = h.currentBlock
              /\ k.lastDropped = h.lastDropped
         /\ LET k == [h EXCEPT !.currentBlock = 0] IN
              /\ k \in HubType /\ k.viewers = h.viewers /\ k.currentBlock = 0
              /\ k.lastDropped = h.lastDropped /\ k.state = h.state
BY DEF HubType

\* A read that was answered.
LEMMA RingPulled ==
  ASSUME RingInv, NEW idle, NEW r, NEW block \in Nat, NEW told, Pulled(idle, r, block, told),
         RingOK(r), r.lines <= MaxLines, Blocks(r.entries, block)
  PROVE  RingInv'
<1>1. hub' \in HubType /\ hub'.currentBlock = block
  <2>1. hub' = [hub EXCEPT !.reader = "on", !.attachedOnce = @ \/ (hub.reader = "first"), !.currentBlock = block]
    BY DEF Pulled
  <2>2. hub \in HubType BY DEF RingInv
  <2>3. (hub.attachedOnce \/ (hub.reader = "first")) \in BOOLEAN OBVIOUS
  <2> DEFINE b == hub.attachedOnce \/ (hub.reader = "first")
  <2>4. hub' = [hub EXCEPT !.reader = "on", !.attachedOnce = b, !.currentBlock = block] BY <2>1, <2>2 DEF HubType
  <2>5. b \in BOOLEAN BY <2>3
  <2> HIDE DEF b
  <2> QED BY <2>2, <2>4, <2>5 DEF HubType
<1>2. ring' = r BY DEF Pulled
<1> QED BY <1>1, <1>2 DEF RingInv

\* An entry that is recorded.
LEMMA RingRecords ==
  ASSUME RingInv, NEW r, RingOK(r), NEW h \in HubType, NEW e \in Item, e.id = r.nextId, NEW us,
         Records(r, h, e, us),
         Blocks(Push(r, e).entries, h.currentBlock)
  PROVE  RingInv'
<1> DEFINE q == Push(r, e)
<1>1. RingOK(q) /\ q.lines <= MaxLines BY PushOK
<1>2. q.droppedEntries \in Nat BY <1>1, RingFields
<1>3. ring' = q /\ hub' = Seen(h, q) BY DEF Records, Broadcast
<1>4. Seen(h, q) \in HubType /\ Seen(h, q).currentBlock = h.currentBlock
  <2> HIDE DEF q
  <2> QED BY <1>2, SeenIs
<1> QED BY <1>1, <1>3, <1>4 DEF RingInv

\* Reads keep the invariant.
LEMMA RingPull == ASSUME RingInv, Pull PROVE RingInv'
<1>1. hub \in HubType /\ hub.currentBlock \in Nat /\ ring \in Ring /\ ring.nextId \in Nat
      /\ RingOK(ring) /\ ring.lines <= MaxLines /\ Blocks(ring.entries, hub.currentBlock)
  BY RingFields DEF RingInv, HubType
<1>2. \A n \in Reads : n \in Nat
  BY MirrorSets
<1>3. ASSUME NEW idle \in BOOLEAN, PullNothing(idle) PROVE RingInv'
  BY <1>1, <1>3, RingPulled DEF PullNothing
<1>4. ASSUME NEW n \in Reads, PullEarlier(n) PROVE RingInv'
  <2> DEFINE e == NewEntry("earlier_output", n)
             q == Push(ring, e)
  <2>1. e \in Item /\ e.id = ring.nextId /\ e.kind = "earlier_output" BY <1>2, NewEntryIs
  <2>2. RingOK(q) /\ q.lines <= MaxLines /\ Blocks(q.entries, hub.currentBlock)
    <3> HIDE DEF e
    <3> QED BY <1>1, <2>1, PushOK
  <2>3. \E told : Pulled(FALSE, q, hub.currentBlock, told) BY <1>4 DEF PullEarlier
  <2> HIDE DEF q
  <2> QED BY <1>1, <2>2, <2>3, RingPulled
<1>5. ASSUME NEW n \in Reads, NEW idle \in BOOLEAN, PullMore(n, idle) PROVE RingInv'
  <2>1. PICK b \in OpenBlock :
          LET e == [b EXCEPT !.lines = @ + n, !.state = "open"] IN
          \E told : Pulled(idle, Update(ring, e), hub.currentBlock, told)
    BY <1>5 DEF PullMore
  <2> DEFINE e == [b EXCEPT !.lines = @ + n, !.state = "open"]
             q == Update(ring, e)
  <2>2. b \in Item /\ b.id = hub.currentBlock /\ b.state # "closed" BY OpenBlockIs
  <2>3. PICK i \in 1..Len(ring.entries) : ring.entries[i] = b BY OpenBlockIs
  <2>4. e \in Item /\ e.id = b.id /\ e.kind = b.kind BY <1>2, <2>2, EntryWith
  <2>5. \E told : Pulled(idle, q, hub.currentBlock, told) BY <2>1
  <2>6. RingOK(q) /\ q.lines <= MaxLines /\ Blocks(q.entries, hub.currentBlock)
    <3> HIDE DEF e
    <3> QED BY <1>1, <2>2, <2>3, <2>4, UpdateOK
  <2> HIDE DEF q
  <2> QED BY <1>1, <2>5, <2>6, RingPulled
<1>6. ASSUME NEW n \in Reads, NEW idle \in BOOLEAN, PullBlock(n, idle) PROVE RingInv'
  <2> DEFINE e == NewEntry("output_block", n)
             q == Push(ring, e)
  <2>1. e \in Item /\ e.id = ring.nextId /\ e.kind = "output_block" BY <1>2, NewEntryIs
  <2>2. AllClosed(ring.entries) BY <1>6, OpenBlockIs DEF PullBlock
  <2>3. e.id \in Nat BY <1>1, <2>1
  <2>4. \E told : Pulled(idle, q, e.id, told) BY <1>6 DEF PullBlock
  <2> HIDE DEF e
  <2>5. RingOK(q) /\ q.lines <= MaxLines /\ Blocks(q.entries, e.id)
    BY <1>1, <2>1, <2>2, PushOK
  <2> HIDE DEF q
  <2> QED BY <2>3, <2>4, <2>5, RingPulled
<1> QED BY <1>3, <1>4, <1>5, <1>6 DEF Pull

\* So does telling the viewers.
LEMMA RingTells == ASSUME RingInv, Tells PROVE RingInv'
<1>1. /\ hub \in HubType /\ RingOK(ring) /\ ring.droppedEntries \in Nat
      /\ Blocks(ring.entries, hub.currentBlock)
  BY RingFields DEF RingInv
<1>2. ASSUME TellFirst PROVE RingInv'
  <2> DEFINE l == [hub EXCEPT !.state = "live"]
  <2>1. l \in HubType /\ l.currentBlock = hub.currentBlock
    <3>1. "live" \in HubStates BY DEF HubStates
    <3> QED BY <1>1, <3>1, HubWith
  <2>2. ring' = ring /\ hub' = Seen(l, ring) BY <1>2 DEF TellFirst
  <2> HIDE DEF l
  <2>3. hub' \in HubType /\ hub'.currentBlock = hub.currentBlock BY <1>1, <2>1, <2>2, SeenIs
  <2> QED BY <2>2, <2>3, RingSame
<1>3. ASSUME TellPaused PROVE RingInv'
  <2>1. PICK b \in OpenBlock :
          LET r == Update(ring, [b EXCEPT !.state = "paused"]) IN
          ring' = r /\ hub' = Seen(hub, r)
    BY <1>3 DEF TellPaused, Broadcast
  <2> DEFINE e == [b EXCEPT !.state = "paused"]
             q == Update(ring, e)
  <2>2. b \in Item /\ b.id = hub.currentBlock /\ b.state # "closed" BY OpenBlockIs
  <2>3. PICK i \in 1..Len(ring.entries) : ring.entries[i] = b BY OpenBlockIs
  <2>4. e \in Item /\ e.id = b.id /\ e.kind = b.kind BY <2>2, EntryWith
  <2>5. RingOK(q) /\ q.lines <= MaxLines /\ Blocks(q.entries, hub.currentBlock)
    <3> HIDE DEF e
    <3> QED BY <1>1, <2>2, <2>3, <2>4, UpdateOK
  <2>6. ring' = q /\ hub' = Seen(hub, q) BY <2>1
  <2> HIDE DEF q
  <2>7. q.droppedEntries \in Nat BY <2>5, RingFields
  <2>8. hub' \in HubType /\ hub'.currentBlock = hub.currentBlock BY <1>1, <2>6, <2>7, SeenIs
  <2> QED BY <2>5, <2>6, <2>8 DEF RingInv
<1>4. ASSUME Tell PROVE RingInv'
  <2>1. ring' = ring /\ hub' = Seen(hub, ring) BY <1>4 DEF Tell, Broadcast
  <2>2. hub' \in HubType /\ hub'.currentBlock = hub.currentBlock BY <1>1, <2>1, SeenIs
  <2> QED BY <2>1, <2>2, RingSame
<1> QED BY <1>2, <1>3, <1>4 DEF Tells

\* So does an entry that the Console records by itself.
LEMMA RingRecord ==
  ASSUME RingInv, (\E n \in Turns : RecordUserTurn(n)) \/ RecordControl PROVE RingInv'
<1>1. /\ hub \in HubType /\ RingOK(ring) /\ ring.nextId \in Nat
      /\ Blocks(ring.entries, hub.currentBlock)
  BY RingFields DEF RingInv
<1>2. ASSUME NEW n \in Turns, RecordUserTurn(n) PROVE RingInv'
  <2> DEFINE e == NewEntry("user_turn", n)
  <2>1. e \in Item /\ e.id = ring.nextId /\ e.kind = "user_turn"
    <3>1. n \in Nat BY MirrorSets
    <3> QED BY <3>1, NewEntryIs
  <2>2. \/ ClosedBlock = {} /\ Records(ring, hub, e, <<>>)
        \/ \E b \in ClosedBlock :
             Records(Update(ring, b), [hub EXCEPT !.currentBlock = 0], e, <<b>>)
    BY <1>2 DEF RecordUserTurn
  <2> HIDE DEF e
  <2>3. CASE ClosedBlock = {} /\ Records(ring, hub, e, <<>>)
    <3>1. OpenBlock = {} BY <2>3 DEF ClosedBlock
    <3>2. AllClosed(ring.entries) BY <3>1, OpenBlockIs
    <3>3. AllClosed(Push(ring, e).entries) BY <1>1, <2>1, <3>2, PushOK
    <3>4. Blocks(Push(ring, e).entries, hub.currentBlock) BY <3>3, ClosedBlocks
    <3> QED BY <1>1, <2>1, <2>3, <3>4, RingRecords
  <2>4. ASSUME NEW b \in ClosedBlock,
               Records(Update(ring, b), [hub EXCEPT !.currentBlock = 0], e, <<b>>)
        PROVE  RingInv'
    <3> DEFINE h == [hub EXCEPT !.currentBlock = 0]
               r == Update(ring, b)
    <3>1. PICK o \in OpenBlock : b = [o EXCEPT !.state = "closed"] BY DEF ClosedBlock
    <3>2. o \in Item /\ o.id = hub.currentBlock /\ o.state # "closed" BY OpenBlockIs
    <3>3. PICK i \in 1..Len(ring.entries) : ring.entries[i] = o BY OpenBlockIs
    <3>4. b \in Item /\ b.id = o.id /\ b.kind = o.kind /\ b.state = "closed"
      BY <3>1, <3>2, EntryWith
    <3>5. RingOK(r) /\ r.nextId = ring.nextId /\ AllClosed(r.entries)
      BY <1>1, <3>2, <3>3, <3>4, UpdateOK
    <3>6. h \in HubType /\ h.currentBlock = 0 BY <1>1, HubWith
    <3>7. Records(r, h, e, <<b>>) BY <2>4
    <3> HIDE DEF h, r
    <3>8. AllClosed(Push(r, e).entries) BY <2>1, <3>5, PushOK
    <3>9. Blocks(Push(r, e).entries, h.currentBlock) BY <3>8, ClosedBlocks
    <3> QED BY <2>1, <3>5, <3>6, <3>7, <3>9, RingRecords
  <2> QED BY <2>2, <2>3, <2>4
<1>3. ASSUME RecordControl PROVE RingInv'
  <2> DEFINE e == NewEntry("control", 0)
  <2>1. e \in Item /\ e.id = ring.nextId /\ e.kind = "control"
    <3>1. 0 \in Nat OBVIOUS
    <3> QED BY <3>1, NewEntryIs
  <2>2. Records(ring, hub, e, <<>>) BY <1>3 DEF RecordControl
  <2> HIDE DEF e
  <2>3. Blocks(Push(ring, e).entries, hub.currentBlock) BY <1>1, <2>1, PushOK
  <2> QED BY <1>1, <2>1, <2>2, <2>3, RingRecords
<1> QED BY <1>2, <1>3

\* Every other step leaves the ring and the current block alone.
LEMMA HubSteps ==
  ASSUME RingInv,
         Polls \/ Stops \/ (\E s \in Failures : Fails(s))
           \/ \E v \in Viewers : \/ Select(v) \/ Deselect(v) \/ Reobserve(v)
                                 \/ Connects(v) \/ TurnedAway(v) \/ Breaks(v) \/ Receives(v)
  PROVE  ring' = ring /\ hub' \in HubType /\ hub'.currentBlock = hub.currentBlock
<1>1. hub \in HubType /\ ring.droppedEntries \in Nat
  BY RingFields DEF RingInv
<1>2. /\ \A s \in {"idle", "attaching", "live", "polling"} : s \in HubStates
      /\ \A s \in Failures : s \in HubStates
  BY DEF HubStates
<1>3. ASSUME NEW h \in HubType, NEW s \in HubStates, h.currentBlock = hub.currentBlock,
             SetState(h, s)
      PROVE  hub' \in HubType /\ hub'.currentBlock = hub.currentBlock
  <2> DEFINE k == [h EXCEPT !.state = s]
  <2>1. hub' = Seen(k, ring) BY <1>3 DEF SetState, Broadcast
  <2>2. k \in HubType /\ k.currentBlock = hub.currentBlock BY <1>3, HubWith
  <2> HIDE DEF k
  <2> QED BY <1>1, <2>1, <2>2, SeenIs
<1>4. ASSUME Polls PROVE ring' = ring /\ hub' \in HubType /\ hub'.currentBlock = hub.currentBlock
  BY <1>1, <1>2, <1>3, <1>4 DEF Polls
<1>5. ASSUME NEW s \in Failures, Fails(s)
      PROVE  ring' = ring /\ hub' \in HubType /\ hub'.currentBlock = hub.currentBlock
  <2> DEFINE h == [hub EXCEPT !.reader = "off"]
  <2>1. h \in HubType /\ h.currentBlock = hub.currentBlock BY <1>1, HubWith
  <2>2. SetState(h, s) /\ ring' = ring BY <1>5 DEF Fails
  <2> HIDE DEF h
  <2> QED BY <1>2, <1>3, <2>1, <2>2
<1>6. ASSUME Stops PROVE ring' = ring /\ hub' \in HubType /\ hub'.currentBlock = hub.currentBlock
  BY <1>1, <1>2, <1>6 DEF Stops, HubType
<1>7. ASSUME NEW v \in Viewers, Connects(v)
      PROVE  ring' = ring /\ hub' \in HubType /\ hub'.currentBlock = hub.currentBlock
  <2> DEFINE joined == [hub EXCEPT !.viewers = @ \cup {v}, !.lastDropped = ring.droppedEntries]
  <2>1. joined \in HubType /\ joined.currentBlock = hub.currentBlock BY <1>1 DEF HubType
  <2>2. /\ ring' = ring
        /\ hub' = joined \/ hub' = [joined EXCEPT !.state = "attaching", !.reader = "first"]
    BY <1>7 DEF Connects
  <2> HIDE DEF joined
  <2> QED BY <1>2, <2>1, <2>2 DEF HubType
<1>8. ASSUME NEW v \in Viewers, Deselect(v) \/ Reobserve(v) \/ Breaks(v)
      PROVE  ring' = ring /\ hub' \in HubType /\ hub'.currentBlock = hub.currentBlock
  <2>1. ring' = ring /\ hub' = Left(hub, {v}) BY <1>8 DEF Deselect, Reobserve, Breaks
  <2> QED BY <1>1, <2>1, LeftIs
<1>9. ASSUME NEW v \in Viewers, Select(v) \/ TurnedAway(v) \/ Receives(v)
      PROVE  ring' = ring /\ hub' \in HubType /\ hub'.currentBlock = hub.currentBlock
  BY <1>1, <1>9 DEF Select, TurnedAway, Receives
<1> QED BY <1>4, <1>5, <1>6, <1>7, <1>8, <1>9

\* The invariant of the ring holds in the beginning.
LEMMA RingStart == ASSUME Init PROVE RingInv
<1>1. FreshRing \in Ring
  BY DEF FreshRing, Ring
<1>2. LineCount(<<>>) = 0
  <2>1. <<>> \in Seq(Item) /\ Len(<<>>) = 0 OBVIOUS
  <2> QED BY <2>1, CountsAre DEF LineCount
<1>3. RingOK(FreshRing)
  <2>1. FreshRing.entries = <<>> /\ FreshRing.lines = 0 /\ FreshRing.nextId = 1
        /\ FreshRing.droppedEntries = 0
    BY DEF FreshRing
  <2>2. Len(<<>>) = 0 /\ 0 + 0 + 1 = 1 OBVIOUS
  <2> QED BY <1>1, <1>2, <2>1, <2>2 DEF RingOK
<1>4. FreshHub \in HubType
  BY DEF FreshHub, HubType, HubStates
<1>5. FreshRing.lines <= MaxLines /\ Blocks(FreshRing.entries, 0)
  BY MirrorLimits DEF FreshRing, Blocks
<1> QED BY <1>3, <1>4, <1>5 DEF Init, RingInv, FreshHub

\* The inductive invariant of the ring holds always.
THEOREM RingInvariant == Spec => []RingInv
<1>1. Init => RingInv
  BY RingStart
<1>2. RingInv /\ [Next]_vars => RingInv'
  <2> SUFFICES ASSUME RingInv, [Next]_vars PROVE RingInv' OBVIOUS
  <2>1. CASE UNCHANGED vars
    <3>1. ring' = ring /\ hub' = hub BY <2>1 DEF vars
    <3>2. hub \in HubType BY DEF RingInv
    <3> QED BY <3>1, <3>2, RingSame
  <2>2. CASE Next
    <3>1. Pull \/ Tells \/ ((\E n \in Turns : RecordUserTurn(n)) \/ RecordControl)
          \/ (Polls \/ Stops \/ (\E s \in Failures : Fails(s))
                \/ \E v \in Viewers : \/ Select(v) \/ Deselect(v) \/ Reobserve(v)
                                      \/ Connects(v) \/ TurnedAway(v) \/ Breaks(v) \/ Receives(v))
      BY <2>2 DEF Next
    <3> QED BY <3>1, RingPull, RingTells, RingRecord, HubSteps, RingSame
  <2> QED BY <2>1, <2>2
<1> QED BY <1>1, <1>2, PTL DEF Spec

\* The counter of the ring (history.ts) counts its lines and stays within the
\* ceiling, ids grow, and every id that was given out is held or was dropped.
THEOREM RingIsExact == Spec => []RingExact
<1>1. RingInv => RingExact
  <2> SUFFICES ASSUME RingInv PROVE RingExact OBVIOUS
  <2>1. /\ DOMAIN ring.entries = 1..Len(ring.entries) /\ Len(ring.entries) \in Nat
        /\ ring.droppedEntries \in Nat /\ ring.nextId = Len(ring.entries) + ring.droppedEntries + 1
        /\ \A i \in 1..Len(ring.entries) : ring.entries[i].id = ring.droppedEntries + i
        /\ ring.lines = LineCount(ring.entries) /\ ring.lines <= MaxLines
    BY RingFields DEF RingInv, RingOK
  <2>2. Len(ring.entries) + ring.droppedEntries = ring.nextId - 1 BY <2>1
  <2>3. ASSUME NEW i \in DOMAIN ring.entries, NEW j \in DOMAIN ring.entries, i < j
        PROVE  ring.entries[i].id < ring.entries[j].id
    <3>1. i \in 1..Len(ring.entries) /\ j \in 1..Len(ring.entries) BY <2>1
    <3>2. ring.entries[i].id = ring.droppedEntries + i /\ ring.entries[j].id = ring.droppedEntries + j
      BY <2>1, <3>1
    <3> QED BY <2>1, <2>3, <3>1, <3>2
  <2> QED BY <2>1, <2>2, <2>3 DEF RingExact
<1> QED BY <1>1, RingInvariant, PTL

\* A block that can still grow (pull and closeCurrentBlock in observer.ts) has no
\* user turn after it.
THEOREM GrowingBlocksAreLast == Spec => []BlocksGrowLast
<1>1. RingInv => BlocksGrowLast
  <2> SUFFICES ASSUME RingInv PROVE BlocksGrowLast OBVIOUS
  <2>1. DOMAIN ring.entries = 1..Len(ring.entries) BY RingFields DEF RingInv
  <2> QED BY <2>1 DEF RingInv, Blocks, BlocksGrowLast
<1> QED BY <1>1, RingInvariant, PTL

-----------------------------------------------------------------------------
(* The turns that the entries make.                                        *)

\* A set of positions that is not empty has a last one.
LEMMA GreatestIndex ==
  ASSUME NEW n \in Nat, NEW T, T \subseteq 1..n, T # {}
  PROVE  \E i \in T : \A j \in T : j <= i
<1> DEFINE U == {n - i : i \in T}
<1>1. U \subseteq Nat /\ U # {}
  <2>1. ASSUME NEW i \in T PROVE n - i \in Nat
    <3>1. i \in 1..n OBVIOUS
    <3> QED BY <3>1
  <2>2. PICK i \in T : TRUE OBVIOUS
  <2>3. n - i \in U OBVIOUS
  <2> QED BY <2>1, <2>3
<1>2. PICK u \in U : \A w \in U : u <= w
  <2> HIDE DEF U
  <2> QED BY <1>1, LeastIndex
<1>3. PICK i \in T : u = n - i
  OBVIOUS
<1>4. ASSUME NEW j \in T PROVE j <= i
  <2>1. n - j \in U OBVIOUS
  <2>2. n - i <= n - j BY <1>2, <1>3, <2>1
  <2>3. i \in 1..n /\ j \in 1..n OBVIOUS
  <2> QED BY <2>2, <2>3
<1> QED BY <1>4

\* es has the entries of es0, changed perhaps in their lines and states, and one
\* more at most.
Longer(es0, es) ==
  /\ es0 \in Seq(Item) /\ es \in Seq(Item) /\ Len(es) \in {Len(es0), Len(es0) + 1}
  /\ \A i \in 1..Len(es0) : es[i].id = es0[i].id /\ es[i].kind = es0[i].kind

\* Ids are positive and distinct.
Numbered(es) ==
  /\ es \in Seq(Item)
  /\ \A i \in 1..Len(es) : es[i].id # 0 /\ \A j \in 1..Len(es) : es[i].id = es[j].id => i = j

\* The positions of the user turns up to i.
TurnsTo(es, i) == {j \in 1..i : es[j].kind = "user_turn"}

\* The turn of an entry depends on the turns before it only.
LEMMA TurnOfIs ==
  ASSUME NEW es \in Seq(Item), NEW i \in 1..Len(es)
  PROVE  /\ TurnsTo(es, i) = {} => TurnOf(es, i) = 0
         /\ TurnsTo(es, i) # {} =>
              \E j \in TurnsTo(es, i) : /\ \A k \in TurnsTo(es, i) : k <= j
                                        /\ TurnOf(es, i) = es[j].id
<1> DEFINE T == TurnsTo(es, i)
           last == CHOOSE j \in T : \A k \in T : k <= j
<1>1. TurnOf(es, i) = IF T = {} THEN 0 ELSE es[last].id
  BY DEF TurnOf, TurnsTo
<1>2. ASSUME T # {} PROVE last \in T /\ \A k \in T : k <= last
  <2>1. i \in Nat /\ T \subseteq 1..i BY DEF TurnsTo
  <2> HIDE DEF T
  <2>2. \E j \in T : \A k \in T : k <= j BY <1>2, <2>1, GreatestIndex
  <2> QED BY <2>2
<1> HIDE DEF last
<1> QED BY <1>1, <1>2

\* A later entry does not change the turns of the earlier ones.
LEMMA TurnOfNext ==
  ASSUME NEW es0, NEW es, Longer(es0, es), NEW i \in 1..Len(es0)
  PROVE  TurnOf(es, i) = TurnOf(es0, i)
<1>1. /\ es0 \in Seq(Item) /\ es \in Seq(Item) /\ i \in 1..Len(es)
      /\ \A j \in 1..Len(es0) : es[j].id = es0[j].id /\ es[j].kind = es0[j].kind
  BY DEF Longer
<1>2. TurnsTo(es, i) = TurnsTo(es0, i) /\ TurnsTo(es, i) \subseteq 1..Len(es0)
  BY <1>1 DEF TurnsTo
<1>3. CASE TurnsTo(es, i) = {}
  BY <1>1, <1>2, <1>3, TurnOfIs
<1>4. CASE TurnsTo(es, i) # {}
  <2>1. PICK j \in TurnsTo(es, i) : /\ \A k \in TurnsTo(es, i) : k <= j
                                    /\ TurnOf(es, i) = es[j].id
    BY <1>1, <1>4, TurnOfIs
  <2>2. PICK l \in TurnsTo(es0, i) : /\ \A k \in TurnsTo(es0, i) : k <= l
                                     /\ TurnOf(es0, i) = es0[l].id
    BY <1>1, <1>2, <1>4, TurnOfIs
  <2>3. j \in 1..Len(es0) /\ l \in 1..Len(es0) /\ j <= l /\ l <= j BY <1>2, <2>1, <2>2
  <2>4. j = l BY <2>3
  <2> QED BY <1>1, <2>1, <2>2, <2>3, <2>4
<1> QED BY <1>3, <1>4

\* Nothing but a missing user turn makes the turn 0.
LEMMA TurnZero ==
  ASSUME NEW es, Numbered(es), NEW i \in 1..Len(es)
  PROVE  TurnOf(es, i) = 0 <=> \A j \in 1..i : es[j].kind # "user_turn"
<1>1. es \in Seq(Item) /\ \A j \in 1..i : j \in 1..Len(es) /\ es[j].id # 0
  BY DEF Numbered
<1>2. TurnsTo(es, i) = {} <=> \A j \in 1..i : es[j].kind # "user_turn"
  BY DEF TurnsTo
<1>3. CASE TurnsTo(es, i) = {}
  BY <1>1, <1>2, <1>3, TurnOfIs
<1>4. CASE TurnsTo(es, i) # {}
  <2>1. PICK j \in TurnsTo(es, i) : TurnOf(es, i) = es[j].id BY <1>1, <1>4, TurnOfIs
  <2>2. j \in 1..i BY DEF TurnsTo
  <2> QED BY <1>1, <1>2, <1>4, <2>1, <2>2
<1> QED BY <1>3, <1>4

\* The nodes that the page has are those of the turns it shows.
Kept(es, i) == es[i].kind = "earlier_output" => TurnOf(es, i) = 0

\* The projection has an entry of its own for each entry that is kept.
LEMMA ProjectedIs ==
  ASSUME NEW es \in Seq(Item)
  PROVE  /\ \A n \in Projected(es) : \E i \in 1..Len(es) :
              Kept(es, i) /\ n.turn = TurnOf(es, i) /\ n.entry = es[i]
         /\ \A i \in 1..Len(es) : Kept(es, i) =>
              \E n \in Projected(es) : n.turn = TurnOf(es, i) /\ n.entry = es[i]
<1>1. Projected(es) = {[turn |-> TurnOf(es, i), entry |-> es[i]] :
                         i \in {j \in DOMAIN es : es[j].kind = "earlier_output" => TurnOf(es, j) = 0}}
  BY DEF Projected
<1>2. DOMAIN es = 1..Len(es)
  OBVIOUS
<1>3. ASSUME NEW n \in Projected(es)
      PROVE  \E i \in 1..Len(es) : Kept(es, i) /\ n.turn = TurnOf(es, i) /\ n.entry = es[i]
  <2>1. PICK i \in DOMAIN es : Kept(es, i) /\ n = [turn |-> TurnOf(es, i), entry |-> es[i]]
    BY <1>1 DEF Kept
  <2>2. n.turn = TurnOf(es, i) /\ n.entry = es[i] BY <2>1
  <2> QED BY <1>2, <2>1, <2>2
<1>4. ASSUME NEW i \in 1..Len(es), Kept(es, i)
      PROVE  \E n \in Projected(es) : n.turn = TurnOf(es, i) /\ n.entry = es[i]
  <2> DEFINE n == [turn |-> TurnOf(es, i), entry |-> es[i]]
  <2>1. n \in Projected(es) BY <1>1, <1>2, <1>4 DEF Kept
  <2>2. n.turn = TurnOf(es, i) /\ n.entry = es[i] OBVIOUS
  <2> QED BY <2>1, <2>2
<1> QED BY <1>3, <1>4

\* A page that shows es0 and is brought up to date shows es.
LEMMA ShownNext ==
  ASSUME NEW es0, NEW es, Longer(es0, es)
  PROVE  UpdateTurns(Projected(es0), Projected(es)) = Projected(es)
<1>1. /\ es0 \in Seq(Item) /\ es \in Seq(Item)
      /\ \A i \in 1..Len(es0) : i \in 1..Len(es) /\ es[i].id = es0[i].id /\ es[i].kind = es0[i].kind
  BY DEF Longer
<1>2. \A i \in 1..Len(es0) : TurnOf(es, i) = TurnOf(es0, i)
  BY TurnOfNext
<1>3. ASSUME NEW n \in Projected(es0)
      PROVE  \E m \in Projected(es) : <<m.turn, m.entry.id>> = <<n.turn, n.entry.id>>
  <2>1. PICK i \in 1..Len(es0) : Kept(es0, i) /\ n.turn = TurnOf(es0, i) /\ n.entry = es0[i]
    BY <1>1, ProjectedIs
  <2>2. Kept(es, i) BY <1>1, <1>2, <2>1 DEF Kept
  <2>3. PICK m \in Projected(es) : m.turn = TurnOf(es, i) /\ m.entry = es[i]
    BY <1>1, <2>2, ProjectedIs
  <2>4. m.turn = n.turn /\ m.entry.id = n.entry.id BY <1>1, <1>2, <2>1, <2>3
  <2> QED BY <2>4
<1> DEFINE old == {n \in Projected(es0) :
                     \A m \in Projected(es) : <<m.turn, m.entry.id>> # <<n.turn, n.entry.id>>}
<1>4. old = {}
  BY <1>3
<1>5. UpdateTurns(Projected(es0), Projected(es)) = old \cup Projected(es)
  BY DEF UpdateTurns
<1> QED BY <1>4, <1>5

\* The synthetic turn is there as soon as something stands before the first turn.
LEMMA SyntheticIs ==
  ASSUME NEW es, Numbered(es)
  PROVE  Synthetic(es) <=> \E i \in 1..Len(es) : /\ es[i].kind # "earlier_output"
                                                 /\ \A j \in 1..i : es[j].kind # "user_turn"
<1>1. es \in Seq(Item)
  BY DEF Numbered
<1>2. Synthetic(es) <=> \E n \in Projected(es) : n.turn = 0 /\ n.entry.kind # "earlier_output"
  BY DEF Synthetic
<1>3. ASSUME NEW n \in Projected(es), n.turn = 0, n.entry.kind # "earlier_output"
      PROVE  \E i \in 1..Len(es) : /\ es[i].kind # "earlier_output"
                                   /\ \A j \in 1..i : es[j].kind # "user_turn"
  <2>1. PICK i \in 1..Len(es) : n.turn = TurnOf(es, i) /\ n.entry = es[i]
    BY <1>1, ProjectedIs
  <2> QED BY <1>3, <2>1, TurnZero
<1>4. ASSUME NEW i \in 1..Len(es), es[i].kind # "earlier_output",
             \A j \in 1..i : es[j].kind # "user_turn"
      PROVE  \E n \in Projected(es) : n.turn = 0 /\ n.entry.kind # "earlier_output"
  <2>1. TurnOf(es, i) = 0 /\ Kept(es, i) BY <1>4, TurnZero DEF Kept
  <2>2. PICK n \in Projected(es) : n.turn = TurnOf(es, i) /\ n.entry = es[i]
    BY <1>1, <2>1, ProjectedIs
  <2> QED BY <1>4, <2>1, <2>2
<1> QED BY <1>2, <1>3, <1>4

\* ts lists, for each position, the ids of the user turns up to there.
Listed(es, ts) ==
  /\ ts \in [0..Len(es) -> Seq(Nat)] /\ ts[0] = <<>>
  /\ \A k \in 1..Len(es) :
       ts[k] = IF es[k].kind = "user_turn" THEN Append(ts[k - 1], es[k].id) ELSE ts[k - 1]

\* The recursion that lists the user turns has its values.
LEMMA UserTurnsAre ==
  ASSUME NEW es \in Seq(Item)
  PROVE  \E ts : Listed(es, ts) /\ UserTurns(es) = ts[Len(es)]
<1> DEFINE n == Len(es)
           F(g) == [k \in 0..n |-> IF k = 0 THEN <<>>
                                   ELSE IF es[k].kind = "user_turn" THEN Append(g[k - 1], es[k].id)
                                   ELSE g[k - 1]]
           step == [k \in 1..n |-> [s \in Seq(Nat) |-> IF es[k].kind = "user_turn"
                                                      THEN Append(s, es[k].id) ELSE s]]
           c == CHOOSE g : g = F(g)
<1>1. n \in Nat /\ \A k \in 1..n : es[k].id \in Nat
  <2>1. \A k \in 1..n : es[k] \in Item OBVIOUS
  <2> QED BY <2>1 DEF Item
<1>2. UserTurns(es) = c[n]
  BY DEF UserTurns
<1> HIDE DEF n
<1>3. step \in [1..n -> [Seq(Nat) -> Seq(Nat)]]
  <2>1. ASSUME NEW k \in 1..n, NEW s \in Seq(Nat)
        PROVE  (IF es[k].kind = "user_turn" THEN Append(s, es[k].id) ELSE s) \in Seq(Nat)
    BY <1>1
  <2> QED BY <2>1
<1>4. PICK f \in [0..n -> Seq(Nat)] : f[0] = <<>> /\ \A k \in 1..n : f[k] = step[k][f[k - 1]]
  <2>1. <<>> \in Seq(Nat) OBVIOUS
  <2> HIDE DEF step
  <2>2. \E f \in [0..n -> Seq(Nat)] : Stepwise(f, n, <<>>, step) BY <1>1, <1>3, <2>1, Recursion
  <2> QED BY <2>2 DEF Stepwise
<1>5. \A k \in 1..n : f[k] = IF es[k].kind = "user_turn" THEN Append(f[k - 1], es[k].id) ELSE f[k - 1]
  <2> TAKE k \in 1..n
  <2>1. k - 1 \in 0..n /\ f[k - 1] \in Seq(Nat) BY <1>1
  <2> QED BY <1>4, <2>1
<1>6. f = F(f)
  <2>1. \A k \in 0..n : k # 0 => k \in 1..n BY <1>1
  <2> QED BY <1>4, <1>5, <2>1
<1>7. c = F(c)
  <2> HIDE DEF F
  <2> QED BY <1>6
<1> HIDE DEF c
<1>8. c[0] = <<>> /\ \A k \in 1..n : c[k] = IF es[k].kind = "user_turn" THEN Append(c[k - 1], es[k].id) ELSE c[k - 1]
  <2>1. 0 \in 0..n /\ \A k \in 1..n : k \in 0..n /\ k # 0 BY <1>1
  <2> QED BY <1>7, <2>1
<1> HIDE DEF F, step
<1>9. \A k \in 0..n : c[k] = f[k]
  <2>1. \A k \in 1..n : c[k - 1] = f[k - 1] => c[k] = f[k] BY <1>5, <1>8
  <2>2. c[0] = f[0] BY <1>4, <1>8
  <2>3. n \in Nat BY <1>1
  <2>4. GoAlike(c, f, n) BY <2>1, <2>2 DEF GoAlike
  <2>5. SameUpTo(c, f, n) BY <2>3, <2>4, SameRecursion
  <2> QED BY <2>5 DEF SameUpTo
<1>10. Listed(es, f)
  BY <1>4, <1>5 DEF Listed, n
<1>11. UserTurns(es) = f[n]
  <2>1. n \in 0..n BY <1>1
  <2>2. c[n] = f[n] BY <1>9, <2>1
  <2> QED BY <1>2, <2>2
<1> QED BY <1>10, <1>11 DEF n

\* Each list has ids of user turns, each once.
LEMMA ListedIs ==
  ASSUME NEW es, NEW ts, Numbered(es), Listed(es, ts)
  PROVE  \A k \in 0..Len(es) :
           /\ \A a \in 1..Len(ts[k]) : \E j \in 1..k : es[j].kind = "user_turn" /\ ts[k][a] = es[j].id
           /\ \A a, b \in 1..Len(ts[k]) : ts[k][a] = ts[k][b] => a = b
           /\ (\A j \in 1..k : es[j].kind # "user_turn") => ts[k] = <<>>
<1> DEFINE n == Len(es)
           From(k) == \A a \in 1..Len(ts[k]) : \E j \in 1..k : es[j].kind = "user_turn" /\ ts[k][a] = es[j].id
           Once(k) == \A a, b \in 1..Len(ts[k]) : ts[k][a] = ts[k][b] => a = b
           None(k) == (\A j \in 1..k : es[j].kind # "user_turn") => ts[k] = <<>>
           T == {k \in 0..n : From(k) /\ Once(k) /\ None(k)}
<1>1. /\ n \in Nat /\ ts \in [0..n -> Seq(Nat)] /\ ts[0] = <<>>
      /\ \A k \in 1..n :
           ts[k] = IF es[k].kind = "user_turn" THEN Append(ts[k - 1], es[k].id) ELSE ts[k - 1]
      /\ \A i, j \in 1..n : es[i].id = es[j].id => i = j
      /\ \A i \in 1..n : es[i].id \in Nat
  <2>1. es \in Seq(Item) BY DEF Numbered
  <2>2. \A k \in 1..n : es[k] \in Item BY <2>1
  <2>3. \A i \in 1..n : es[i].id \in Nat BY <2>2 DEF Item
  <2> QED BY <2>1, <2>3 DEF Listed, Numbered
<1> HIDE DEF n
<1>2. 0 \in T
  <2>1. Len(ts[0]) = 0 /\ 0 \in 0..n BY <1>1
  <2>2. \A a \in 1..Len(ts[0]) : FALSE BY <2>1
  <2>3. From(0) /\ Once(0) /\ None(0) BY <1>1, <2>2
  <2> HIDE DEF From, Once, None
  <2> QED BY <2>1, <2>3
<1>3. ASSUME NEW k \in 1..n, k - 1 \in T PROVE k \in T
  <2>1. k - 1 \in 0..n /\ k \in 0..n /\ ts[k - 1] \in Seq(Nat) /\ k \in Nat BY <1>1
  <2>2. From(k - 1) /\ Once(k - 1) /\ None(k - 1) BY <1>3
  <2>3. \A j \in 1..(k - 1) : j \in 1..k /\ j \in 1..n /\ j # k BY <1>1
  <2> DEFINE s == ts[k - 1]
             x == es[k].id
             t == ts[k]
             l == Len(s)
  <2>4. CASE es[k].kind = "user_turn"
    <3>1. t = Append(s, x) BY <1>1, <2>4
    <3>2. x \in Nat /\ l \in Nat BY <1>1, <2>1
    <3>3. /\ Len(t) = l + 1 /\ t[l + 1] = x /\ \A a \in 1..l : t[a] = s[a]
      BY <2>1, <3>1, <3>2
    <3>4. \A a \in 1..l : \E j \in 1..(k - 1) : es[j].kind = "user_turn" /\ s[a] = es[j].id
      BY <2>2
    <3> HIDE DEF s, t, l
    <3>5. \A a \in 1..l : s[a] # x
      <4> TAKE a \in 1..l
      <4>1. PICK j \in 1..(k - 1) : s[a] = es[j].id BY <3>4
      <4> QED BY <1>1, <2>3, <4>1 DEF x
    <3>6. \A a \in 1..Len(t) : (a \in 1..l /\ t[a] = s[a]) \/ (a = l + 1 /\ t[a] = x) BY <3>2, <3>3
    <3>7. From(k)
      <4> SUFFICES ASSUME NEW a \in 1..Len(t)
                   PROVE  \E j \in 1..k : es[j].kind = "user_turn" /\ t[a] = es[j].id
        BY DEF t
      <4>1. CASE a \in 1..l /\ t[a] = s[a] BY <2>3, <3>4, <4>1
      <4>2. CASE a = l + 1 /\ t[a] = x
        <5>1. k \in 1..k BY <2>1
        <5> QED BY <2>4, <4>2, <5>1 DEF x
      <4> QED BY <3>6, <4>1, <4>2
    <3>8. Once(k)
      <4> SUFFICES ASSUME NEW a \in 1..Len(t), NEW b \in 1..Len(t), t[a] = t[b] PROVE a = b
        BY DEF t
      <4>1. \A c, d \in 1..l : s[c] = s[d] => c = d BY <2>2 DEF s, l
      <4> QED BY <3>5, <3>6, <4>1
    <3>9. None(k)
      <4>1. k \in 1..k BY <2>1
      <4> QED BY <2>4, <4>1
    <3> HIDE DEF From, Once, None
    <3> QED BY <2>1, <3>7, <3>8, <3>9
  <2>5. CASE es[k].kind # "user_turn"
    <3>1. t = s BY <1>1, <2>5
    <3>2. From(k) BY <2>2, <2>3, <3>1
    <3>3. Once(k) BY <2>2, <3>1
    <3>4. None(k) BY <2>2, <2>3, <3>1
    <3> HIDE DEF From, Once, None
    <3> QED BY <2>1, <3>2, <3>3, <3>4
  <2> QED BY <2>4, <2>5
<1>4. \A k \in 0..n : k \in T
  <2> HIDE DEF T
  <2> QED BY <1>1, <1>2, <1>3, InductUpTo
<1> QED BY <1>4 DEF n

\* What the list of turns is, and what one more entry does to it.
LEMMA UserTurnsOnce ==
  ASSUME NEW es, Numbered(es)
  PROVE  LET ts == UserTurns(es) IN
         /\ ts \in Seq(Nat)
         /\ \A a \in 1..Len(ts) : \E j \in 1..Len(es) : es[j].kind = "user_turn" /\ ts[a] = es[j].id
         /\ \A a, b \in 1..Len(ts) : ts[a] = ts[b] => a = b
         /\ (\A j \in 1..Len(es) : es[j].kind # "user_turn") => ts = <<>>
<1>1. es \in Seq(Item) BY DEF Numbered
<1>2. PICK ts : Listed(es, ts) /\ UserTurns(es) = ts[Len(es)] BY <1>1, UserTurnsAre
<1>3. Len(es) \in 0..Len(es) BY <1>1
<1>4. ts[Len(es)] \in Seq(Nat) BY <1>2, <1>3 DEF Listed
<1> QED BY <1>2, <1>3, <1>4, ListedIs

\* One entry more adds its turn below the others, or none.
LEMMA UserTurnsNext ==
  ASSUME NEW es0, NEW es, Longer(es0, es)
  PROVE  LET n == Len(es0) IN
         UserTurns(es) = IF Len(es) = n + 1 /\ es[n + 1].kind = "user_turn"
                         THEN Append(UserTurns(es0), es[n + 1].id) ELSE UserTurns(es0)
<1> DEFINE n == Len(es0)
<1>1. /\ es0 \in Seq(Item) /\ es \in Seq(Item) /\ n \in Nat
      /\ Len(es) = n \/ Len(es) = n + 1
      /\ \A i \in 1..n : i \in 1..Len(es) /\ es[i].id = es0[i].id /\ es[i].kind = es0[i].kind
  BY DEF Longer
<1>2. PICK ts0 : Listed(es0, ts0) /\ UserTurns(es0) = ts0[n] BY <1>1, UserTurnsAre
<1>3. PICK ts : Listed(es, ts) /\ UserTurns(es) = ts[Len(es)] BY <1>1, UserTurnsAre
<1>4. ts0[0] = <<>> /\ ts[0] = <<>>
  BY <1>2, <1>3 DEF Listed
<1>5. \A k \in 1..n :
        ts0[k] = IF es0[k].kind = "user_turn" THEN Append(ts0[k - 1], es0[k].id) ELSE ts0[k - 1]
  BY <1>2 DEF Listed
<1>6. \A k \in 1..Len(es) :
        ts[k] = IF es[k].kind = "user_turn" THEN Append(ts[k - 1], es[k].id) ELSE ts[k - 1]
  BY <1>3 DEF Listed
<1> HIDE DEF n
<1>7. \A k \in 1..n : ts[k - 1] = ts0[k - 1] => ts[k] = ts0[k]
  BY <1>1, <1>5, <1>6
<1>8. \A k \in 0..n : ts[k] = ts0[k]
  <2>1. ts[0] = ts0[0] /\ n \in Nat BY <1>1, <1>4
  <2>2. GoAlike(ts, ts0, n) BY <1>7, <2>1 DEF GoAlike
  <2>3. SameUpTo(ts, ts0, n) BY <2>1, <2>2, SameRecursion
  <2> QED BY <2>3 DEF SameUpTo
<1>9. ts[n] = ts0[n]
  BY <1>1, <1>8
<1>10. CASE Len(es) = n
  BY <1>1, <1>2, <1>3, <1>9, <1>10 DEF n
<1>11. CASE Len(es) = n + 1
  <2>1. n + 1 \in 1..Len(es) /\ (n + 1) - 1 = n BY <1>1, <1>11
  <2>2. ts[n + 1] = IF es[n + 1].kind = "user_turn" THEN Append(ts[n], es[n + 1].id) ELSE ts[n]
    BY <1>6, <2>1
  <2> QED BY <1>2, <1>3, <1>9, <1>11, <2>2 DEF n
<1> QED BY <1>1, <1>10, <1>11 DEF n

\* The sequence ts starts as s does, and has nothing twice.
Starts(s, ts) ==
  /\ s \in Seq(Nat) /\ ts \in Seq(Nat) /\ Len(s) <= Len(ts)
  /\ \A i \in 1..Len(s) : s[i] = ts[i]
  /\ \A i, j \in 1..Len(ts) : ts[i] = ts[j] => i = j

\* Articles are added below those that are there.
LEMMA EnsureAll ==
  ASSUME NEW s, NEW ts, Starts(s, ts)
  PROVE  EnsureTurns(s, ts) = ts
<1> DEFINE n == Len(ts)
           m == Len(s)
           F(g) == [k \in 0..n |-> IF k = 0 THEN s ELSE EnsureTurn(g[k - 1], ts[k])]
           First(k) == [i \in 1..k |-> ts[i]]
           f == [k \in 0..n |-> IF k <= m THEN First(m) ELSE First(k)]
           c == CHOOSE g : g = F(g)
<1>1. EnsureTurns(s, ts) = c[n]
  BY DEF EnsureTurns
<1>2. /\ n \in Nat /\ m \in Nat /\ m <= n /\ s \in Seq(Nat) /\ ts \in Seq(Nat)
      /\ \A i \in 1..n : ts[i] \in Nat
      /\ \A i, j \in 1..n : ts[i] = ts[j] => i = j
      /\ s = First(m)
  <2>1. /\ n \in Nat /\ m \in Nat /\ m <= n /\ s \in Seq(Nat) /\ ts \in Seq(Nat)
        /\ \A i \in 1..m : s[i] = ts[i]
        /\ \A i, j \in 1..n : ts[i] = ts[j] => i = j
    BY DEF Starts
  <2>2. s = [i \in 1..m |-> s[i]] BY <2>1
  <2>3. s = First(m) BY <2>1, <2>2
  <2>4. \A i \in 1..n : ts[i] \in Nat BY <2>1
  <2> QED BY <2>1, <2>3, <2>4
<1>3. \A k \in 0..n : /\ First(k) \in Seq(Nat) /\ Len(First(k)) = k
                      /\ Range(First(k)) = {ts[i] : i \in 1..k}
                      /\ \A i \in 1..k : First(k)[i] = ts[i]
  <2> TAKE k \in 0..n
  <2>1. k \in Nat /\ \A i \in 1..k : ts[i] \in Nat BY <1>2
  <2>2. First(k) \in [1..k -> Nat] BY <2>1
  <2>3. First(k) \in Seq(Nat) /\ Len(First(k)) = k BY <2>1, <2>2
  <2>4. Range(First(k)) = {ts[i] : i \in 1..k} BY DEF Range
  <2> QED BY <2>3, <2>4
<1> HIDE DEF n, m
<1>4. ASSUME NEW k \in 1..n PROVE f[k] = EnsureTurn(f[k - 1], ts[k])
  <2>1. k - 1 \in 0..n /\ k \in 0..n /\ k \in Nat BY <1>2
  <2>2. CASE k <= m
    <3>1. k - 1 <= m /\ m \in 0..n /\ k \in 1..m BY <1>2, <2>1, <2>2
    <3>2. f[k] = First(m) /\ f[k - 1] = First(m) BY <2>1, <2>2, <3>1
    <3>3. ts[k] \in Range(First(m)) BY <1>3, <3>1
    <3> HIDE DEF f, First
    <3> QED BY <3>2, <3>3 DEF EnsureTurn
  <2>3. CASE ~(k <= m)
    <3>1. f[k] = First(k) BY <2>1, <2>3
    <3>2. f[k - 1] = First(k - 1)
      <4>1. CASE k - 1 <= m
        <5>1. k - 1 = m BY <1>2, <2>1, <2>3, <4>1
        <5>2. f[k - 1] = First(m) BY <2>1, <4>1
        <5> QED BY <5>1, <5>2
      <4>2. CASE ~(k - 1 <= m) BY <2>1, <4>2
      <4> QED BY <4>1, <4>2
    <3>3. ts[k] \notin Range(First(k - 1))
      <4>1. \A i \in 1..(k - 1) : i \in 1..n /\ i # k BY <1>2
      <4>2. Range(First(k - 1)) = {ts[i] : i \in 1..(k - 1)} BY <1>3, <2>1
      <4>3. \A i \in 1..(k - 1) : ts[i] # ts[k] BY <1>2, <4>1
      <4> HIDE DEF First
      <4> QED BY <4>2, <4>3
    <3>4. Append(First(k - 1), ts[k]) = First(k)
      <4> DEFINE l == k - 1
                 a == First(l)
                 b == First(k)
                 d == Append(a, ts[k])
      <4>1. a \in Seq(Nat) /\ Len(a) = l /\ \A i \in 1..l : a[i] = ts[i] BY <1>3, <2>1
      <4>2. b \in Seq(Nat) /\ Len(b) = k /\ \A i \in 1..k : b[i] = ts[i] BY <1>3, <2>1
      <4>3. ts[k] \in Nat /\ l \in Nat /\ l + 1 = k BY <1>2, <2>1
      <4> HIDE DEF a, b, First, l
      <4>4. d \in Seq(Nat) /\ Len(d) = l + 1 /\ d[l + 1] = ts[k] /\ \A i \in 1..l : d[i] = a[i]
        BY <4>1, <4>3
      <4> HIDE DEF d
      <4>5. \A i \in 1..k : d[i] = b[i]
        <5> TAKE i \in 1..k
        <5>1. i \in 1..l \/ i = k BY <4>3
        <5> QED BY <4>1, <4>2, <4>3, <4>4, <5>1
      <4>6. d = b BY <4>2, <4>3, <4>4, <4>5, SeqEqual
      <4> QED BY <4>6 DEF d, a, b, l
    <3> HIDE DEF f, First
    <3> QED BY <3>1, <3>2, <3>3, <3>4 DEF EnsureTurn
  <2> QED BY <2>2, <2>3
<1>5. f = F(f)
  <2>1. \A k \in 0..n : k # 0 => k \in 1..n BY <1>2
  <2>2. f[0] = s
    <3>1. 0 \in 0..n /\ 0 <= m BY <1>2
    <3> QED BY <1>2, <3>1
  <2>3. f = [k \in 0..n |-> f[k]] OBVIOUS
  <2>4. \A k \in 0..n : f[k] = IF k = 0 THEN s ELSE EnsureTurn(f[k - 1], ts[k]) BY <1>4, <2>1, <2>2
  <2> HIDE DEF f
  <2> QED BY <2>3, <2>4
<1>6. c = F(c)
  <2> HIDE DEF F, f
  <2> QED BY <1>5
<1> HIDE DEF c
<1>7. c[0] = f[0] /\ \A k \in 1..n : c[k] = EnsureTurn(c[k - 1], ts[k])
  <2>1. 0 \in 0..n /\ 0 <= m /\ \A k \in 1..n : k \in 0..n /\ k # 0 BY <1>2
  <2>2. f[0] = s BY <1>2, <2>1
  <2> HIDE DEF f
  <2> QED BY <1>6, <2>1, <2>2
<1>8. c[n] = f[n]
  <2> HIDE DEF f
  <2>1. \A k \in 1..n : c[k - 1] = f[k - 1] => c[k] = f[k] BY <1>4, <1>7
  <2>2. n \in Nat /\ c[0] = f[0] BY <1>2, <1>7
  <2>a. GoAlike(c, f, n) BY <2>1, <2>2 DEF GoAlike
  <2>b. SameUpTo(c, f, n) BY <2>2, <2>a, SameRecursion
  <2>3. \A k \in 0..n : c[k] = f[k] BY <2>b DEF SameUpTo
  <2>4. n \in 0..n BY <1>2
  <2> QED BY <2>3, <2>4
<1>9. f[n] = ts
  <2>1. n \in 0..n BY <1>2
  <2>2. f[n] = First(n)
    <3>1. n <= m => n = m BY <1>2
    <3> QED BY <2>1, <3>1
  <2>3. First(n) = ts BY <1>2 DEF n
  <2> HIDE DEF f, First
  <2> QED BY <2>2, <2>3
<1> QED BY <1>1, <1>8, <1>9

\* The articles are those of the turns, each once.
LEMMA ArticlesOnce ==
  ASSUME NEW es, Numbered(es)
  PROVE  Starts(<<>>, Articles(es))
<1> DEFINE u == UserTurns(es)
           z == IF Synthetic(es) THEN <<0>> ELSE <<>>
           l == Len(u)
           t == Articles(es)
<1>1. /\ u \in Seq(Nat) /\ \A i, j \in 1..l : u[i] = u[j] => i = j
      /\ \A i \in 1..l : u[i] # 0
  <2>1. /\ u \in Seq(Nat) /\ \A i, j \in 1..l : u[i] = u[j] => i = j
        /\ \A i \in 1..l : \E j \in 1..Len(es) : u[i] = es[j].id
    BY UserTurnsOnce
  <2>2. \A j \in 1..Len(es) : es[j].id # 0 BY DEF Numbered
  <2> QED BY <2>1, <2>2
<1>2. t = z \o u
  BY DEF Articles
<1> HIDE DEF u, t
<1>3. l \in Nat BY <1>1
<1>4. CASE Synthetic(es)
  <2>1. t = <<0>> \o u BY <1>2, <1>4
  <2>2. t \in Seq(Nat) /\ Len(t) = l + 1 /\ t[1] = 0 /\ \A i \in 1..l : t[i + 1] = u[i]
    BY <1>1, <2>1
  <2>3. \A i \in 1..(l + 1) : i = 1 \/ (i - 1 \in 1..l /\ t[i] = u[i - 1])
    <3> TAKE i \in 1..(l + 1)
    <3>1. i # 1 => i - 1 \in 1..l /\ (i - 1) + 1 = i BY <1>3
    <3> QED BY <2>2, <3>1
  <2>4. ASSUME NEW i \in 1..Len(t), NEW j \in 1..Len(t), t[i] = t[j] PROVE i = j
    <3>1. i \in 1..(l + 1) /\ j \in 1..(l + 1) BY <2>2
    <3>a. \A k \in 1..(l + 1) : k # 1 => t[k] # 0
      <4> TAKE k \in 1..(l + 1)
      <4>1. k = 1 \/ (k - 1 \in 1..l /\ t[k] = u[k - 1]) BY <2>3
      <4>2. k - 1 \in 1..l => u[k - 1] # 0 BY <1>1
      <4> QED BY <4>1, <4>2
    <3>b. t[1] = 0 BY <2>2
    <3>2. CASE i = 1 \/ j = 1 BY <2>4, <3>1, <3>2, <3>a, <3>b
    <3>3. CASE i # 1 /\ j # 1
      <4>1. i - 1 \in 1..l /\ j - 1 \in 1..l /\ u[i - 1] = u[j - 1] BY <2>3, <2>4, <3>1, <3>3
      <4>2. i - 1 = j - 1 BY <1>1, <4>1
      <4> QED BY <1>3, <3>1, <4>2
    <3> QED BY <3>2, <3>3
  <2>5. <<>> \in Seq(Nat) /\ Len(<<>>) = 0 /\ 0 <= Len(t) /\ \A i \in 1..0 : FALSE BY <1>3, <2>2
  <2> QED BY <2>2, <2>4, <2>5 DEF Starts, t
<1>5. CASE ~Synthetic(es)
  <2>1. t = u BY <1>1, <1>2, <1>5
  <2>2. <<>> \in Seq(Nat) /\ Len(<<>>) = 0 /\ 0 <= Len(t) /\ \A i \in 1..0 : FALSE BY <1>3, <2>1
  <2> QED BY <1>1, <2>1, <2>2 DEF Starts, t
<1> QED BY <1>4, <1>5

\* One more entry leaves the articles that are there.
LEMMA ArticlesNext ==
  ASSUME NEW es0, NEW es, Longer(es0, es), Numbered(es)
  PROVE  Starts(Articles(es0), Articles(es))
<1> DEFINE n == Len(es0)
           u0 == UserTurns(es0)
           u == UserTurns(es)
           t0 == Articles(es0)
           t == Articles(es)
<1>1. /\ es0 \in Seq(Item) /\ es \in Seq(Item) /\ n \in Nat
      /\ Len(es) = n \/ Len(es) = n + 1
      /\ \A i \in 1..n : i \in 1..Len(es) /\ es[i].id = es0[i].id /\ es[i].kind = es0[i].kind
  BY DEF Longer
<1>2. Numbered(es0)
  <2>1. \A i \in 1..Len(es) : es[i].id # 0 /\ \A j \in 1..Len(es) : es[i].id = es[j].id => i = j
    BY DEF Numbered
  <2> QED BY <1>1, <2>1 DEF Numbered
<1>3. /\ t0 = (IF Synthetic(es0) THEN <<0>> ELSE <<>>) \o u0
      /\ t = (IF Synthetic(es) THEN <<0>> ELSE <<>>) \o u
  BY DEF Articles
<1>4. u0 \in Seq(Nat) /\ u \in Seq(Nat)
  BY <1>2, UserTurnsOnce
<1>5. /\ Len(u0) <= Len(u) /\ \A i \in 1..Len(u0) : u[i] = u0[i]
  <2>1. u = u0 \/ (n + 1 \in 1..Len(es) /\ u = Append(u0, es[n + 1].id))
    BY <1>1, UserTurnsNext
  <2>2. n + 1 \in 1..Len(es) => es[n + 1].id \in Nat
    <3>1. \A i \in 1..Len(es) : es[i] \in Item BY <1>1
    <3> QED BY <3>1 DEF Item
  <2> HIDE DEF u, u0
  <2> QED BY <1>4, <2>1, <2>2
<1>6. \/ Synthetic(es0) = Synthetic(es)
      \/ u0 = <<>> /\ ~Synthetic(es0)
  <2>1. ASSUME Synthetic(es0) PROVE Synthetic(es)
    <3>1. PICK i \in 1..n : es0[i].kind # "earlier_output" /\ \A j \in 1..i : es0[j].kind # "user_turn"
      BY <1>2, <2>1, SyntheticIs
    <3>2. \A j \in 1..i : j \in 1..n BY <1>1
    <3>3. i \in 1..Len(es) /\ es[i].kind # "earlier_output" /\ \A j \in 1..i : es[j].kind # "user_turn"
      BY <1>1, <3>1, <3>2
    <3> QED BY <3>3, SyntheticIs
  <2>2. ASSUME ~Synthetic(es0), Synthetic(es) PROVE u0 = <<>>
    <3>1. PICK i \in 1..Len(es) : es[i].kind # "earlier_output" /\ \A j \in 1..i : es[j].kind # "user_turn"
      BY <2>2, SyntheticIs
    <3>2. ~(i \in 1..n)
      <4> SUFFICES ASSUME i \in 1..n PROVE FALSE OBVIOUS
      <4>1. \A j \in 1..i : j \in 1..n BY <1>1
      <4>2. es0[i].kind # "earlier_output" /\ \A j \in 1..i : es0[j].kind # "user_turn"
        BY <1>1, <3>1, <4>1
      <4> QED BY <1>2, <2>2, <4>2, SyntheticIs
    <3>3. \A j \in 1..n : j \in 1..i BY <1>1, <3>2
    <3>4. \A j \in 1..n : es0[j].kind # "user_turn" BY <1>1, <3>1, <3>3
    <3> QED BY <1>2, <3>4, UserTurnsOnce
  <2> QED BY <2>1, <2>2 DEF Synthetic
<1>7. Starts(<<>>, t)
  BY ArticlesOnce
<1>8. t \in Seq(Nat) /\ \A i, j \in 1..Len(t) : t[i] = t[j] => i = j
  BY <1>7 DEF Starts
<1> HIDE DEF u, u0, t, t0
<1>9. CASE Synthetic(es0) = Synthetic(es)
  <2>1. CASE Synthetic(es0)
    <3>1. t0 = <<0>> \o u0 /\ t = <<0>> \o u BY <1>3, <1>9, <2>1
    <3>2. t0 \in Seq(Nat) /\ Len(t0) = Len(u0) + 1 /\ t0[1] = 0 /\ \A i \in 1..Len(u0) : t0[i + 1] = u0[i]
      BY <1>4, <3>1
    <3>3. Len(t) = Len(u) + 1 /\ t[1] = 0 /\ \A i \in 1..Len(u) : t[i + 1] = u[i]
      BY <1>4, <3>1
    <3>4. Len(u0) \in Nat /\ Len(u) \in Nat BY <1>4
    <3>5. ASSUME NEW i \in 1..Len(t0) PROVE t0[i] = t[i]
      <4>1. CASE i = 1 BY <3>2, <3>3, <4>1
      <4>2. CASE i # 1
        <5>1. i - 1 \in 1..Len(u0) /\ i - 1 \in 1..Len(u) /\ (i - 1) + 1 = i BY <1>5, <3>2, <3>4, <4>2
        <5> QED BY <1>5, <3>2, <3>3, <5>1
      <4> QED BY <4>1, <4>2
    <3>6. Len(t0) <= Len(t) BY <1>5, <3>2, <3>3, <3>4
    <3> QED BY <1>8, <3>2, <3>5, <3>6 DEF Starts, t, t0
  <2>2. CASE ~Synthetic(es0)
    <3>1. t0 = u0 /\ t = u BY <1>3, <1>4, <1>9, <2>2
    <3> QED BY <1>4, <1>5, <1>8, <3>1 DEF Starts, t, t0
  <2> QED BY <2>1, <2>2
<1>10. CASE u0 = <<>> /\ ~Synthetic(es0)
  <2>1. t0 = <<>> BY <1>3, <1>10
  <2> QED BY <1>7, <2>1 DEF t, t0
<1> QED BY <1>6, <1>9, <1>10

-----------------------------------------------------------------------------
(* The copy of the ring on a page.                                         *)

\* A page that keeps and shows these.
PageOf(order, kept, articles, shown, marker, state) ==
  [order |-> order, byId |-> kept, articles |-> articles, shown |-> shown, marker |-> marker,
   observe |-> state]

\* The fields of a page.
LEMMA PageIs ==
  ASSUME NEW o, NEW k, NEW a, NEW n, NEW m, NEW s
  PROVE  LET p == PageOf(o, k, a, n, m, s) IN
         /\ p.order = o /\ p.byId = k /\ p.articles = a
         /\ p.shown = n /\ p.marker = m /\ p.observe = s
BY DEF PageOf

\* The ids of the entries, and what a page tells of those that have gone.
Ids(es) == [i \in 1..Len(es) |-> es[i].id]

Marker(r) == IF r.droppedEntries > 0 THEN {r.droppedLines} ELSE {}

\* A page that shows the ring r in the state s; what it has kept may be more than
\* the ring has, of entries that have gone.
Copy(r, kept, s) ==
  PageOf(Ids(r.entries), kept, Articles(r.entries), Projected(r.entries), Marker(r), s)

\* Every entry of the ring is kept as it is now, and nothing that is yet to come.
Keeps(kept, r) ==
  /\ kept \subseteq Item
  /\ \A x \in kept : x.id < r.nextId
  /\ \A i \in 1..Len(r.entries) :
       /\ r.entries[i] \in kept
       /\ \A x \in kept : x.id = r.entries[i].id => x = r.entries[i]

\* The page finds the entries of the ring by their ids.
LEMMA MirroredIs ==
  ASSUME NEW r, RingOK(r), NEW kept, Keeps(kept, r), NEW p, p.order = Ids(r.entries), p.byId = kept
  PROVE  Mirrored(p) = r.entries
<1> DEFINE es == r.entries
           n == Len(es)
<1>1. n \in Nat /\ es \in Seq(Item) /\ es = [i \in 1..n |-> es[i]]
  BY RingFields
<1>2. /\ DOMAIN Ids(es) = 1..n /\ \A i \in 1..n : Ids(es)[i] = es[i].id
  BY DEF Ids
<1>3. \A i \in 1..n : es[i] \in kept /\ \A x \in kept : x.id = es[i].id => x = es[i]
  BY DEF Keeps
<1> HIDE DEF es, n
<1>4. Mirrored(p) = [i \in DOMAIN p.order |-> CHOOSE e \in p.byId : e.id = p.order[i]]
  BY DEF Mirrored
<1>5. p.order = Ids(es) /\ p.byId = kept
  BY DEF es
<1>6. ASSUME NEW i \in 1..n PROVE (CHOOSE e \in p.byId : e.id = p.order[i]) = es[i]
  <2>1. p.order[i] = es[i].id BY <1>2, <1>5
  <2> QED BY <1>3, <1>5, <2>1
<1>7. DOMAIN p.order = 1..n
  BY <1>2, <1>5
<1>8. Mirrored(p) = [i \in 1..n |-> es[i]]
  BY <1>4, <1>6, <1>7
<1> QED BY <1>1, <1>8 DEF es

\* What reconciling does to a page.
LEMMA ReconciledIs ==
  ASSUME NEW o, NEW k, NEW a, NEW n, NEW m, NEW s, NEW es, Mirrored(PageOf(o, k, a, n, m, s)) = es
  PROVE  Reconciled(PageOf(o, k, a, n, m, s))
           = PageOf(o, k, EnsureTurns(a, Articles(es)), UpdateTurns(n, Projected(es)), m, s)
<1> DEFINE p == PageOf(o, k, a, n, m, s)
<1>1. Reconciled(p) = [p EXCEPT !.articles = EnsureTurns(@, Articles(es)),
                                !.shown = UpdateTurns(@, Projected(es))]
  BY DEF Reconciled
<1> QED BY <1>1 DEF PageOf

\* The entries of a ring are numbered.
LEMMA RingNumbered ==
  ASSUME NEW r, RingOK(r) PROVE Numbered(r.entries)
<1>1. /\ r.entries \in Seq(Item) /\ r.droppedEntries \in Nat
      /\ \A i \in 1..Len(r.entries) : r.entries[i].id = r.droppedEntries + i
      /\ \A i, j \in 1..Len(r.entries) : r.entries[i].id = r.entries[j].id => i = j
  BY RingFields
<1>2. \A i \in 1..Len(r.entries) : r.entries[i].id # 0
  BY <1>1
<1> QED BY <1>1, <1>2 DEF Numbered

\* applySnapshot makes the copy anew.
LEMMA AppliedIs ==
  ASSUME NEW r, RingOK(r), NEW p, NEW f
  PROVE  \E kept : Keeps(kept, r) /\ Applied(p, f, Snapshot(r)) = Copy(r, kept, f.state)
<1> DEFINE es == r.entries
           kept == Range(es)
           mark == IF r.droppedEntries > 0 THEN {r.droppedLines} ELSE {}
           q == PageOf(Ids(es), kept, <<>>, {}, mark, f.state)
<1>1. /\ es \in Seq(Item) /\ Len(es) \in Nat /\ DOMAIN es = 1..Len(es) /\ r.droppedEntries \in Nat
      /\ r.nextId = Len(es) + r.droppedEntries + 1
      /\ \A i \in 1..Len(es) : es[i] \in Item /\ es[i].id = r.droppedEntries + i
      /\ \A i, j \in 1..Len(es) : es[i].id = es[j].id => i = j
  BY RingFields
<1>2. Keeps(kept, r)
  <2>1. kept = {es[i] : i \in 1..Len(es)} BY <1>1 DEF Range
  <2> HIDE DEF kept
  <2>2. \A x \in kept : x \in Item /\ x.id < r.nextId BY <1>1, <2>1
  <2>3. \A i \in 1..Len(es) : es[i] \in kept /\ \A x \in kept : x.id = es[i].id => x = es[i]
    BY <1>1, <2>1
  <2> QED BY <2>2, <2>3 DEF Keeps
<1>3. Applied(p, f, Snapshot(r)) = Reconciled(q)
  <2>1. [i \in DOMAIN es |-> es[i].id] = Ids(es) BY <1>1 DEF Ids
  <2>2. [BlankPage(f.state) EXCEPT !.order = Ids(es), !.byId = kept, !.marker = mark] = q
    <3> DEFINE b == BlankPage(f.state)
               i == Ids(es)
               x == [b EXCEPT !.order = i, !.byId = kept, !.marker = mark]
    <3>1. b = PageOf(<<>>, {}, <<>>, {}, {}, f.state)
      BY DEF BlankPage, PageOf
    <3>2. x = [b EXCEPT !.order = i, !.byId = kept, !.marker = mark]
      OBVIOUS
    <3> HIDE DEF kept, mark, b, i, x
    <3>3. x = PageOf(i, kept, <<>>, {}, mark, f.state)
      BY <3>1, <3>2 DEF PageOf
    <3> QED BY <3>3 DEF x, b, i
  <2>3. Applied(p, f, Snapshot(r))
          = Reconciled([BlankPage(f.state) EXCEPT !.order = [i \in DOMAIN es |-> es[i].id],
                                                  !.byId = kept, !.marker = mark])
    BY DEF Applied, Snapshot
  <2> HIDE DEF q, kept, mark, es
  <2> QED BY <2>1, <2>2, <2>3
<1>4. Mirrored(q) = es
  <2>1. q.order = Ids(es) /\ q.byId = kept BY DEF PageOf
  <2> HIDE DEF q, kept
  <2> QED BY <1>2, <2>1, MirroredIs
<1>5. Reconciled(q) = PageOf(Ids(es), kept, EnsureTurns(<<>>, Articles(es)),
                             UpdateTurns({}, Projected(es)), mark, f.state)
  <2> HIDE DEF kept, mark
  <2> QED BY <1>4, ReconciledIs
<1>6. EnsureTurns(<<>>, Articles(es)) = Articles(es)
  BY RingNumbered, ArticlesOnce, EnsureAll
<1>7. UpdateTurns({}, Projected(es)) = Projected(es)
  BY DEF UpdateTurns
<1> QED BY <1>2, <1>3, <1>5, <1>6, <1>7 DEF Copy, Marker

\* The entries kept when those of us have taken the place of theirs.
Overlaid(kept, us) ==
  {x \in kept : \A j \in 1..Len(us) : us[j].id # x.id} \cup {us[j] : j \in 1..Len(us)}

\* What applyDelta does with the updated entries of a frame.
LEMMA ChangedAll ==
  ASSUME NEW o, NEW kept, NEW a, NEW n, NEW m, NEW s, NEW us \in Seq(Item),
         \A i, j \in 1..Len(us) : us[i].id = us[j].id => us[i] = us[j]
  PROVE  AllChanged(PageOf(o, kept, a, n, m, s), us) = PageOf(o, Overlaid(kept, us), a, n, m, s)
<1> DEFINE l == Len(us)
           p == PageOf(o, kept, a, n, m, s)
           Over(k) == {x \in kept : \A j \in 1..k : us[j].id # x.id} \cup {us[j] : j \in 1..k}
           f == [k \in 0..l |-> PageOf(o, Over(k), a, n, m, s)]
           F(g) == [k \in 0..l |-> IF k = 0 THEN p ELSE Changed(g[k - 1], us[k])]
           c == CHOOSE g : g = F(g)
<1>1. AllChanged(p, us) = c[l]
  BY DEF AllChanged
<1>2. l \in Nat /\ \A i, j \in 1..l : us[i].id = us[j].id => us[i] = us[j]
  OBVIOUS
<1>3. \A k \in 0..l : f[k] = PageOf(o, Over(k), a, n, m, s)
  OBVIOUS
<1>4. f[0] = p
  <2>1. 0 \in 0..l /\ \A j \in 1..0 : FALSE BY <1>2
  <2>2. Over(0) = kept BY <2>1
  <2> HIDE DEF f, Over
  <2> QED BY <1>3, <2>1, <2>2
<1>5. \A k \in 1..l : f[k] = Changed(f[k - 1], us[k])
  <2> TAKE k \in 1..l
  <2>1. k - 1 \in 0..l /\ k \in 0..l /\ \A j \in 1..k : j \in 1..(k - 1) \/ j = k BY <1>2
  <2>2. k \in 1..k /\ \A j \in 1..(k - 1) : j \in 1..k /\ j \in 1..l BY <1>2
  <2>3. SetById(Over(k - 1), us[k]) = Over(k)
    <3>1. ASSUME NEW x \in SetById(Over(k - 1), us[k]) PROVE x \in Over(k)
      <4>1. CASE x = us[k] BY <2>2, <4>1
      <4>2. CASE x \in Over(k - 1) /\ x.id # us[k].id
        <5>1. CASE x \in kept /\ \A j \in 1..(k - 1) : us[j].id # x.id BY <2>1, <4>2, <5>1
        <5>2. CASE \E j \in 1..(k - 1) : x = us[j] BY <2>2, <5>2
        <5> QED BY <4>2, <5>1, <5>2
      <4> QED BY <4>1, <4>2 DEF SetById
    <3>2. ASSUME NEW x \in Over(k) PROVE x \in SetById(Over(k - 1), us[k])
      <4>1. CASE x \in kept /\ \A j \in 1..k : us[j].id # x.id
        <5>1. x.id # us[k].id /\ \A j \in 1..(k - 1) : us[j].id # x.id BY <2>2, <4>1
        <5>2. x \in Over(k - 1) BY <4>1, <5>1
        <5> QED BY <5>1, <5>2 DEF SetById
      <4>2. CASE \E j \in 1..k : x = us[j]
        <5>1. PICK j \in 1..k : x = us[j] BY <4>2
        <5>2. CASE x = us[k] BY <5>2 DEF SetById
        <5>3. CASE x # us[k]
          <6>1. j \in 1..(k - 1) /\ j \in 1..l BY <2>1, <2>2, <5>1, <5>3
          <6>2. x \in Over(k - 1) BY <5>1, <6>1
          <6>3. x.id # us[k].id BY <1>2, <5>1, <5>3, <6>1
          <6> QED BY <6>2, <6>3 DEF SetById
        <5> QED BY <5>2, <5>3
      <4> QED BY <4>1, <4>2
    <3> HIDE DEF Over
    <3> QED BY <3>1, <3>2
  <2> HIDE DEF Over, f
  <2>4. Changed(PageOf(o, Over(k - 1), a, n, m, s), us[k])
          = PageOf(o, SetById(Over(k - 1), us[k]), a, n, m, s)
    BY DEF Changed, PageOf
  <2> QED BY <1>3, <2>1, <2>3, <2>4
<1>6. f = F(f)
  <2>1. \A k \in 0..l : k # 0 => k \in 1..l BY <1>2
  <2>2. f = [k \in 0..l |-> f[k]] OBVIOUS
  <2>3. \A k \in 0..l : f[k] = IF k = 0 THEN p ELSE Changed(f[k - 1], us[k]) BY <1>4, <1>5, <2>1
  <2> HIDE DEF f, p
  <2> QED BY <2>2, <2>3
<1>7. c = F(c)
  <2> HIDE DEF F, f
  <2> QED BY <1>6
<1> HIDE DEF c, f, p, l, Over
<1>8. c[0] = f[0] /\ \A k \in 1..l : c[k] = Changed(c[k - 1], us[k])
  <2>1. 0 \in 0..l /\ \A k \in 1..l : k \in 0..l /\ k # 0 BY <1>2
  <2> QED BY <1>4, <1>7, <2>1
<1>9. c[l] = f[l]
  <2>1. \A k \in 1..l : c[k - 1] = f[k - 1] => c[k] = f[k] BY <1>5, <1>8
  <2>2. c[0] = f[0] /\ l \in Nat BY <1>2, <1>8
  <2> DEFINE T == {k \in 0..l : c[k] = f[k]}
  <2>a. 0 \in T BY <2>2
  <2>b. ASSUME NEW k \in 1..l, k - 1 \in T PROVE k \in T
    <3>1. k \in 0..l BY <2>2
    <3> QED BY <2>1, <2>b, <3>1
  <2>c. \A k \in 0..l : k \in T
    <3> HIDE DEF T
    <3> QED BY <2>2, <2>a, <2>b, InductUpTo
  <2>3. \A k \in 0..l : c[k] = f[k] BY <2>c
  <2>4. l \in 0..l BY <1>2
  <2> QED BY <2>3, <2>4
<1>10. Over(l) = Overlaid(kept, us) /\ l \in 0..l
  BY <1>2 DEF Over, Overlaid, l
<1> QED BY <1>1, <1>3, <1>9, <1>10 DEF p

\* What applyDelta does with no appended entry, and with one.
LEMMA AddedAll ==
  ASSUME NEW p
  PROVE  AllAdded(p, <<>>) = p /\ \A e : AllAdded(p, <<e>>) = Added(p, e)
<1>1. AllAdded(p, <<>>) = p
  <2> DEFINE F(g) == [k \in 0..0 |-> IF k = 0 THEN p ELSE Added(g[k - 1], <<>>[k])]
             f == [k \in 0..0 |-> p]
             c == CHOOSE g : g = F(g)
  <2>1. AllAdded(p, <<>>) = c[0] BY DEF AllAdded
  <2>2. f = F(f) OBVIOUS
  <2>3. c = F(c)
    <3> HIDE DEF F, f
    <3> QED BY <2>2
  <2> HIDE DEF c
  <2>4. c[0] = p BY <2>3
  <2> QED BY <2>1, <2>4
<1>2. ASSUME NEW e PROVE AllAdded(p, <<e>>) = Added(p, e)
  <2> DEFINE es == <<e>>
             F(g) == [k \in 0..1 |-> IF k = 0 THEN p ELSE Added(g[k - 1], es[k])]
             f == [k \in 0..1 |-> IF k = 0 THEN p ELSE Added(p, e)]
             c == CHOOSE g : g = F(g)
  <2>1. AllAdded(p, es) = c[1] BY DEF AllAdded
  <2>2. f = F(f)
    <3>1. \A k \in 0..1 : k = 0 \/ k = 1 OBVIOUS
    <3>2. f[0] = p /\ f[1] = Added(p, e) /\ f = [k \in 0..1 |-> f[k]] OBVIOUS
    <3>3. es[1] = e OBVIOUS
    <3> HIDE DEF f, es
    <3> QED BY <3>1, <3>2, <3>3
  <2>3. c = F(c)
    <3> HIDE DEF F, f
    <3> QED BY <2>2
  <2> HIDE DEF c
  <2>4. c[0] = p /\ c[1] = Added(c[0], e) BY <2>3
  <2> QED BY <2>1, <2>4
<1> QED BY <1>1, <1>2

\* What a frame that tells of a change from the ring r0 to the ring r has to bring.
Brings(r0, r, told) ==
  /\ Longer(r0.entries, r.entries)
  /\ told.updated \in Seq(Item)
  /\ \/ told.appended = <<>> /\ Len(r.entries) = Len(r0.entries)
     \/ Len(r.entries) # 0 /\ told.appended = <<r.entries[Len(r.entries)]>>
  /\ \A i \in 1..Len(r0.entries) :
       r.entries[i] = r0.entries[i] \/ \E j \in 1..Len(told.updated) : told.updated[j] = r.entries[i]
  /\ \A j \in 1..Len(told.updated) :
       /\ told.updated[j].id < r.nextId
       /\ \A i \in 1..Len(r.entries) :
            r.entries[i].id = told.updated[j].id => r.entries[i] = told.updated[j]
       /\ \A k \in 1..Len(told.updated) :
            told.updated[k].id = told.updated[j].id => told.updated[k] = told.updated[j]

\* What is kept when the entry that is appended, if there is a new one, is kept too.
Joined(kept, r0, r) ==
  IF Len(r.entries) = Len(r0.entries) THEN kept ELSE kept \cup {r.entries[Len(r.entries)]}

\* Two rings that have dropped the same.
SameDrops(r0, r) == r.droppedEntries = r0.droppedEntries /\ r.droppedLines = r0.droppedLines

\* The ids of a sequence that has one entry more.
LEMMA IdsNext ==
  ASSUME NEW es0 \in Seq(Item), NEW es \in Seq(Item), Len(es) = Len(es0) + 1,
         \A i \in 1..Len(es0) : es[i].id = es0[i].id
  PROVE  Append(Ids(es0), es[Len(es)].id) = Ids(es)
<1> DEFINE k == Len(es0)
           e == es[Len(es)].id
           x == Append(Ids(es0), e)
           y == Ids(es)
<1>1. k \in Nat /\ Len(es) = k + 1 /\ e = es[k + 1].id
  OBVIOUS
<1>2. \A t \in Seq(Item) : /\ Ids(t) \in Seq(Nat) /\ Len(Ids(t)) = Len(t)
                           /\ \A i \in 1..Len(t) : Ids(t)[i] = t[i].id /\ t[i].id \in Nat
  <2> TAKE t \in Seq(Item)
  <2>1. Len(t) \in Nat /\ \A i \in 1..Len(t) : t[i] \in Item OBVIOUS
  <2>2. \A i \in 1..Len(t) : t[i].id \in Nat BY <2>1 DEF Item
  <2>3. Ids(t) \in [1..Len(t) -> Nat] BY <2>2 DEF Ids
  <2>4. Ids(t) \in Seq(Nat) /\ Len(Ids(t)) = Len(t) BY <2>1, <2>3
  <2> QED BY <2>2, <2>4 DEF Ids
<1>3. k + 1 \in 1..Len(es) /\ \A i \in 1..(k + 1) : i \in 1..k \/ i = k + 1
  BY <1>1
<1>4. e \in Nat
  BY <1>1, <1>2, <1>3
<1>5. y \in Seq(Nat) /\ Len(y) = k + 1 /\ \A i \in 1..(k + 1) : y[i] = es[i].id
  BY <1>1, <1>2
<1>6. Ids(es0) \in Seq(Nat) /\ Len(Ids(es0)) = k /\ \A i \in 1..k : Ids(es0)[i] = es[i].id
  BY <1>1, <1>2
<1>7. x \in Seq(Nat) /\ Len(x) = k + 1 /\ x[k + 1] = e /\ \A i \in 1..k : x[i] = es[i].id
  <2> DEFINE o == Ids(es0)
  <2> HIDE DEF o, e, k
  <2> QED BY <1>1, <1>4, <1>6 DEF o
<1> HIDE DEF x, y, k, e
<1>8. \A i \in 1..(k + 1) : x[i] = y[i]
  BY <1>1, <1>3, <1>5, <1>7
<1> QED BY <1>5, <1>7, <1>8 DEF x, y, k, e

\* An appended entry that the page knows changes nothing, another one goes below
\* the others.
LEMMA BroughtAppended ==
  ASSUME NEW r0, RingOK(r0), NEW r, RingOK(r), SameDrops(r0, r), NEW kept, Keeps(kept, r0),
         NEW told, Brings(r0, r, told), NEW a, NEW n, NEW m, NEW s
  PROVE  AllAdded(PageOf(Ids(r0.entries), kept, a, n, m, s), told.appended)
           = PageOf(Ids(r.entries), Joined(kept, r0, r), a, n, m, s)
<1> DEFINE es0 == r0.entries
           es == r.entries
           l == Len(es)
           p == PageOf(Ids(es0), kept, a, n, m, s)
<1>1. /\ es0 \in Seq(Item) /\ es \in Seq(Item) /\ Len(es0) \in Nat /\ l \in Nat
      /\ l \in {Len(es0), Len(es0) + 1}
      /\ \A i \in 1..Len(es0) : es[i].id = es0[i].id
  BY DEF Brings, Longer
<1>2. r.droppedEntries = r0.droppedEntries /\ r0.droppedEntries \in Nat
  BY RingFields DEF SameDrops
<1>3. p.byId = kept /\ p.order = Ids(es0)
  BY DEF PageOf
<1>4. CASE told.appended = <<>> /\ l = Len(es0)
  <2>1. Ids(es) = Ids(es0) BY <1>1, <1>4 DEF Ids
  <2>2. Joined(kept, r0, r) = kept BY <1>4 DEF Joined
  <2> QED BY <1>4, <2>1, <2>2, AddedAll
<1>5. CASE l # 0 /\ told.appended = <<es[l]>>
  <2> DEFINE e == es[l]
  <2>1. AllAdded(p, told.appended) = Added(p, e)
    BY <1>5, AddedAll
  <2>2. CASE l = Len(es0)
    <3>1. Ids(es) = Ids(es0) BY <1>1, <2>2 DEF Ids
    <3>2. Joined(kept, r0, r) = kept BY <2>2 DEF Joined
    <3>3. l \in 1..Len(es0) BY <1>1, <1>5, <2>2
    <3>4. es0[l] \in kept /\ es0[l].id = e.id BY <1>1, <3>3 DEF Keeps
    <3> HIDE DEF e, p
    <3>5. Added(p, e) = p BY <1>3, <3>4 DEF Added
    <3> QED BY <2>1, <3>1, <3>2, <3>5 DEF p
  <2>3. CASE l = Len(es0) + 1
    <3>1. /\ e.id = r.droppedEntries + l
          /\ r0.nextId = Len(es0) + r0.droppedEntries + 1
      <4>1. l \in 1..Len(es) BY <1>1, <1>5
      <4> QED BY <4>1, RingFields
    <3>2. \A x \in kept : x.id # e.id
      <4>1. \A x \in kept : x.id \in Nat /\ x.id < r0.nextId BY DEF Keeps, Item
      <4>2. e.id = r0.nextId BY <1>1, <1>2, <2>3, <3>1
      <4> QED BY <4>1, <4>2, RingFields
    <3>3. Joined(kept, r0, r) = kept \cup {e}
      BY <1>1, <2>3 DEF Joined
    <3>4. Append(Ids(es0), e.id) = Ids(es)
      BY <1>1, <2>3, IdsNext
    <3> HIDE DEF e
    <3>5. Added(p, e) = [p EXCEPT !.byId = @ \cup {e}, !.order = Append(@, e.id)]
      BY <1>3, <3>2 DEF Added
    <3>6. [p EXCEPT !.byId = @ \cup {e}, !.order = Append(@, e.id)]
            = PageOf(Append(Ids(es0), e.id), kept \cup {e}, a, n, m, s)
      <4> DEFINE o == Ids(es0)
                 x == [p EXCEPT !.byId = @ \cup {e}, !.order = Append(@, e.id)]
      <4>1. p = PageOf(o, kept, a, n, m, s) OBVIOUS
      <4>2. x = [p EXCEPT !.byId = @ \cup {e}, !.order = Append(@, e.id)] OBVIOUS
      <4> HIDE DEF p, o, x
      <4>3. x = PageOf(Append(o, e.id), kept \cup {e}, a, n, m, s) BY <4>1, <4>2 DEF PageOf
      <4> QED BY <4>3 DEF x, o
    <3> QED BY <2>1, <3>3, <3>4, <3>5, <3>6
  <2> QED BY <1>1, <2>2, <2>3
<1> QED BY <1>4, <1>5 DEF Brings

\* With what a frame brings the page keeps every entry of the ring as it is now.
LEMMA BroughtKept ==
  ASSUME NEW r0, RingOK(r0), NEW r, RingOK(r), SameDrops(r0, r), NEW kept, Keeps(kept, r0),
         NEW told, Brings(r0, r, told)
  PROVE  Keeps(Overlaid(Joined(kept, r0, r), told.updated), r)
<1> DEFINE es0 == r0.entries
           es == r.entries
           l == Len(es)
           l0 == Len(es0)
           us == told.updated
           old == Joined(kept, r0, r)
           new == Overlaid(old, us)
<1>1. /\ es0 \in Seq(Item) /\ es \in Seq(Item) /\ us \in Seq(Item)
      /\ l0 \in Nat /\ l \in Nat /\ l \in {l0, l0 + 1}
      /\ \A i \in 1..l0 : es[i].id = es0[i].id
      /\ \A i \in 1..l0 : es[i] = es0[i] \/ \E j \in 1..Len(us) : us[j] = es[i]
  BY DEF Brings, Longer
<1>2. \A j \in 1..Len(us) : /\ us[j] \in Item /\ us[j].id < r.nextId
                            /\ \A i \in 1..l : es[i].id = us[j].id => es[i] = us[j]
  BY DEF Brings
<1>3. /\ r.droppedEntries = r0.droppedEntries /\ r0.droppedEntries \in Nat
      /\ r0.nextId = l0 + r0.droppedEntries + 1 /\ r.nextId = l + r.droppedEntries + 1
      /\ \A i \in 1..l : es[i] \in Item /\ es[i].id = r.droppedEntries + i
      /\ \A i, j \in 1..l : es[i].id = es[j].id => i = j
      /\ r.nextId \in Nat /\ r0.nextId \in Nat
  BY RingFields DEF SameDrops
<1>4. /\ \A x \in kept : x \in Item /\ x.id \in Nat /\ x.id < r0.nextId
      /\ \A i \in 1..l0 : es0[i] \in kept /\ \A x \in kept : x.id = es0[i].id => x = es0[i]
  BY DEF Keeps, Item
<1>5. /\ \A x \in old : x \in kept \/ (l = l0 + 1 /\ x = es[l])
      /\ kept \subseteq old
      /\ l = l0 + 1 => es[l] \in old
  BY <1>1 DEF Joined
<1>6. /\ \A x \in new : (x \in old /\ \A j \in 1..Len(us) : us[j].id # x.id)
                          \/ \E j \in 1..Len(us) : x = us[j]
      /\ \A x \in old : (\A j \in 1..Len(us) : us[j].id # x.id) => x \in new
      /\ \A j \in 1..Len(us) : us[j] \in new
  BY DEF Overlaid
<1> HIDE DEF old, new, us, es, es0, l, l0
<1>7. \A i \in 1..l : i \in 1..l0 \/ (l = l0 + 1 /\ i = l)
  BY <1>1
<1>8. ASSUME NEW x \in old PROVE x \in Item /\ x.id < r.nextId
  <2>1. CASE x \in kept
    <3>1. r0.nextId <= r.nextId BY <1>1, <1>3
    <3> QED BY <1>3, <1>4, <2>1, <3>1
  <2>2. CASE l = l0 + 1 /\ x = es[l]
    <3>1. l \in 1..l BY <1>1, <2>2
    <3> QED BY <1>1, <1>3, <2>2, <3>1
  <2> QED BY <1>5, <2>1, <2>2
<1>9. \A x \in new : x \in Item /\ x.id < r.nextId
  BY <1>2, <1>6, <1>8
<1>10. ASSUME NEW i \in 1..l PROVE es[i] \in new
  <2>1. CASE \E j \in 1..Len(us) : us[j].id = es[i].id
    BY <1>2, <1>6, <2>1
  <2>2. CASE \A j \in 1..Len(us) : us[j].id # es[i].id
    <3>1. es[i] \in old
      <4>1. CASE i \in 1..l0 BY <1>1, <1>4, <1>5, <2>2, <4>1
      <4>2. CASE l = l0 + 1 /\ i = l BY <1>5, <4>2
      <4> QED BY <1>7, <4>1, <4>2
    <3> QED BY <1>6, <2>2, <3>1
  <2> QED BY <2>1, <2>2
<1>11. ASSUME NEW i \in 1..l, NEW x \in new, x.id = es[i].id PROVE x = es[i]
  <2>1. CASE \E j \in 1..Len(us) : x = us[j]
    BY <1>2, <1>11, <2>1
  <2>2. CASE x \in old /\ \A j \in 1..Len(us) : us[j].id # x.id
    <3>1. CASE x \in kept /\ i \in 1..l0
      <4>1. x = es0[i] BY <1>1, <1>4, <1>11, <3>1
      <4>2. es[i] = es0[i] BY <1>1, <1>11, <2>2, <3>1
      <4> QED BY <4>1, <4>2
    <3>2. CASE x \in kept /\ l = l0 + 1 /\ i = l
      <4>1. es[i].id = r0.nextId
        <5>1. es[i].id = r.droppedEntries + i BY <1>3
        <5>2. i = l0 + 1 BY <3>2
        <5>3. r0.droppedEntries + (l0 + 1) = r0.nextId
          <6>1. r0.nextId = l0 + r0.droppedEntries + 1 BY <1>3
          <6>2. l0 \in Nat /\ r0.droppedEntries \in Nat BY <1>1, <1>3
          <6> DEFINE a == r0.droppedEntries
                     b == r0.nextId
          <6>3. b = l0 + a + 1 /\ l0 \in Nat /\ a \in Nat BY <6>1, <6>2
          <6> HIDE DEF a, b
          <6>4. a + (l0 + 1) = b BY <6>3
          <6> QED BY <6>4 DEF a, b
        <5>4. r.droppedEntries = r0.droppedEntries BY <1>3
        <5> QED BY <5>1, <5>2, <5>3, <5>4
      <4> QED BY <1>3, <1>4, <1>11, <3>2, <4>1
    <3>3. CASE l = l0 + 1 /\ x = es[l]
      <4>1. l \in 1..l BY <1>1, <3>3
      <4> QED BY <1>3, <1>11, <3>3, <4>1
    <3> QED BY <1>5, <1>7, <2>2, <3>1, <3>2, <3>3
  <2> QED BY <1>6, <2>1, <2>2
<1> QED BY <1>9, <1>10, <1>11 DEF Keeps, new, old, us, es, l

\* applyDelta makes the copy of r0 a copy of r.
LEMMA MergedIs ==
  ASSUME NEW r0, RingOK(r0), NEW r, RingOK(r), SameDrops(r0, r), NEW kept, Keeps(kept, r0),
         NEW f, Brings(r0, r, f.told), f.dropped = r.droppedEntries, f.lines = r.droppedLines, NEW s
  PROVE  \E k : Keeps(k, r) /\ Merged(Copy(r0, kept, s), f) = Copy(r, k, f.state)
<1> DEFINE es0 == r0.entries
           es == r.entries
           us == f.told.updated
           k == Overlaid(Joined(kept, r0, r), us)
           a == Articles(es0)
           n == Projected(es0)
           m == Marker(r0)
           q == PageOf(Ids(es), k, a, n, m, s)
           z == PageOf(Ids(es), k, Articles(es), Projected(es), m, s)
<1>1. Keeps(k, r)
  BY BroughtKept
<1>2. AllAdded(Copy(r0, kept, s), f.told.appended) = PageOf(Ids(es), Joined(kept, r0, r), a, n, m, s)
  <2> HIDE DEF a, n, m
  <2>1. Copy(r0, kept, s) = PageOf(Ids(es0), kept, a, n, m, s) BY DEF Copy, a, n, m
  <2> QED BY <2>1, BroughtAppended
<1>3. AllChanged(PageOf(Ids(es), Joined(kept, r0, r), a, n, m, s), us) = q
  <2>1. us \in Seq(Item) /\ \A i, j \in 1..Len(us) : us[i].id = us[j].id => us[i] = us[j]
    BY DEF Brings
  <2> HIDE DEF a, n, m, us
  <2> QED BY <2>1, ChangedAll
<1>4. Mirrored(q) = es
  <2>1. q.order = Ids(es) /\ q.byId = k BY DEF PageOf
  <2> HIDE DEF q, k
  <2> QED BY <1>1, <2>1, MirroredIs
<1>5. Reconciled(q) = z
  <2>1. Longer(es0, es) BY DEF Brings
  <2>2. EnsureTurns(a, Articles(es)) = Articles(es) BY <2>1, RingNumbered, ArticlesNext, EnsureAll
  <2>3. UpdateTurns(n, Projected(es)) = Projected(es) BY <2>1, ShownNext
  <2> HIDE DEF a, n, m, k
  <2>4. Reconciled(q) = PageOf(Ids(es), k, EnsureTurns(a, Articles(es)), UpdateTurns(n, Projected(es)), m, s)
    BY <1>4, ReconciledIs
  <2> QED BY <2>2, <2>3, <2>4
<1>6. Merged(Copy(r0, kept, s), f)
        = [z EXCEPT !.observe = f.state, !.marker = IF f.dropped > 0 THEN {f.lines} ELSE @]
  BY <1>2, <1>3, <1>5 DEF Merged
<1>7. (IF f.dropped > 0 THEN {f.lines} ELSE m) = Marker(r)
  BY RingFields DEF Marker, SameDrops
<1>8. [z EXCEPT !.observe = f.state, !.marker = IF f.dropped > 0 THEN {f.lines} ELSE @]
        = Copy(r, k, f.state)
  <2> DEFINE i == Ids(es)
             b == Articles(es)
             t == Projected(es)
             d == IF f.dropped > 0 THEN {f.lines} ELSE m
             x == [z EXCEPT !.observe = f.state, !.marker = IF f.dropped > 0 THEN {f.lines} ELSE @]
  <2>1. z = PageOf(i, k, b, t, m, s) OBVIOUS
  <2>2. x = [z EXCEPT !.observe = f.state, !.marker = IF f.dropped > 0 THEN {f.lines} ELSE @] OBVIOUS
  <2> HIDE DEF z, i, k, b, t, m, x
  <2>3. x = PageOf(i, k, b, t, d, f.state) BY <2>1, <2>2 DEF PageOf
  <2>4. Copy(r, k, f.state) = PageOf(i, k, b, t, Marker(r), f.state) BY DEF Copy, i, b, t
  <2> QED BY <1>7, <2>3, <2>4 DEF x
<1> QED BY <1>1, <1>6, <1>8

-----------------------------------------------------------------------------
(* What is under way to a page.                                            *)

\* The page once it has had the frame f.
Take(p, f) ==
  IF f.snapshot = {} THEN Merged(p, f) ELSE Applied(p, f, CHOOSE s \in f.snapshot : TRUE)

\* The page p becomes q once it has had the frames fs.
Leads(p, fs, q) ==
  \E S, ps : /\ fs \in Seq(S) /\ ps[0] = p /\ ps[Len(fs)] = q
             /\ \A k \in 1..Len(fs) : ps[k] = Take(ps[k - 1], fs[k])

\* Nothing is under way.
LEMMA LeadsNowhere ==
  ASSUME NEW p, NEW q
  PROVE  Leads(p, <<>>, q) <=> p = q
<1>1. ASSUME p = q PROVE Leads(p, <<>>, q)
  <2> DEFINE ps == [k \in {0} |-> p]
  <2>1. <<>> \in Seq({}) /\ Len(<<>>) = 0 /\ ps[0] = p OBVIOUS
  <2>2. \A k \in 1..0 : FALSE OBVIOUS
  <2> HIDE DEF ps
  <2> QED BY <1>1, <2>1, <2>2 DEF Leads
<1>2. Leads(p, <<>>, q) => p = q
  BY DEF Leads
<1> QED BY <1>1, <1>2

\* One more frame is sent.
LEMMA LeadsOn ==
  ASSUME NEW p, NEW fs, NEW q, Leads(p, fs, q), NEW f
  PROVE  Leads(p, fs \o <<f>>, Take(q, f))
<1>1. PICK S, ps : /\ fs \in Seq(S) /\ ps[0] = p /\ ps[Len(fs)] = q
                   /\ \A k \in 1..Len(fs) : ps[k] = Take(ps[k - 1], fs[k])
  BY DEF Leads
<1> DEFINE n == Len(fs)
           gs == fs \o <<f>>
           R == S \cup {f}
           qs == [k \in 0..(n + 1) |-> IF k = n + 1 THEN Take(q, f) ELSE ps[k]]
<1>2. n \in Nat /\ fs \in Seq(R) /\ <<f>> \in Seq(R)
  BY <1>1
<1>3. gs \in Seq(R) /\ Len(gs) = n + 1 /\ gs[n + 1] = f /\ \A k \in 1..n : gs[k] = fs[k]
  BY <1>2
<1>4. \A k \in 0..(n + 1) : qs[k] = IF k = n + 1 THEN Take(q, f) ELSE ps[k]
  OBVIOUS
<1>5. /\ 0 \in 0..(n + 1) /\ 0 # n + 1 /\ n + 1 \in 0..(n + 1) /\ n \in 0..(n + 1) /\ n # n + 1
      /\ n + 1 - 1 = n
      /\ \A k \in 1..(n + 1) : k \in 1..n \/ k = n + 1
      /\ \A k \in 1..n : k \in 0..(n + 1) /\ k # n + 1 /\ k - 1 \in 0..(n + 1) /\ k - 1 # n + 1
  BY <1>2
<1> HIDE DEF qs, gs, n, R
<1>6. qs[0] = p /\ qs[n + 1] = Take(q, f) /\ qs[n] = q
  BY <1>1, <1>4, <1>5 DEF n
<1>7. ASSUME NEW k \in 1..(n + 1) PROVE qs[k] = Take(qs[k - 1], gs[k])
  <2>1. CASE k = n + 1 BY <1>3, <1>5, <1>6, <2>1
  <2>2. CASE k \in 1..n
    <3>1. ps[k] = Take(ps[k - 1], fs[k]) BY <1>1, <2>2 DEF n
    <3>2. qs[k] = ps[k] /\ qs[k - 1] = ps[k - 1] /\ gs[k] = fs[k] BY <1>3, <1>4, <1>5, <2>2
    <3> QED BY <3>1, <3>2
  <2> QED BY <1>5, <2>1, <2>2
<1>8. gs \in Seq(R) /\ qs[0] = p /\ qs[Len(gs)] = Take(q, f)
      /\ \A k \in 1..Len(gs) : qs[k] = Take(qs[k - 1], gs[k])
  BY <1>3, <1>6, <1>7
<1> QED BY <1>8 DEF Leads, gs

\* Two more frames, or none.
LEMMA LeadsOnTwice ==
  ASSUME NEW p, NEW fs, NEW q, Leads(p, fs, q), NEW f, NEW g
  PROVE  fs \o <<f, g>> = (fs \o <<f>>) \o <<g>> /\ fs \o <<>> = fs
<1>1. PICK S : fs \in Seq(S)
  BY DEF Leads
<1> DEFINE R == S \cup {f, g}
           n == Len(fs)
           x == fs \o <<f, g>>
           y == fs \o <<f>>
           z == y \o <<g>>
<1>2. n \in Nat /\ fs \in Seq(R) /\ <<f, g>> \in Seq(R) /\ <<f>> \in Seq(R) /\ <<g>> \in Seq(R)
  BY <1>1
<1>3. x \in Seq(R) /\ Len(x) = n + 2 /\ x[n + 1] = f /\ x[n + 2] = g /\ \A k \in 1..n : x[k] = fs[k]
  BY <1>2
<1>4. y \in Seq(R) /\ Len(y) = n + 1 /\ y[n + 1] = f /\ \A k \in 1..n : y[k] = fs[k]
  BY <1>2
<1>5. z \in Seq(R) /\ Len(z) = n + 2 /\ z[n + 2] = g /\ \A k \in 1..(n + 1) : z[k] = y[k]
  <2> HIDE DEF y
  <2> QED BY <1>2, <1>4
<1>6. \A k \in 1..(n + 2) : k \in 1..n \/ k = n + 1 \/ k = n + 2
  BY <1>2
<1>7. n + 1 \in 1..(n + 1) /\ \A k \in 1..n : k \in 1..(n + 1)
  BY <1>2
<1>8. fs \o <<>> = fs
  BY <1>1
<1> HIDE DEF x, y, z, n, R
<1>9. \A k \in 1..(n + 2) : x[k] = z[k]
  BY <1>3, <1>4, <1>5, <1>6, <1>7
<1>10. x = z
  BY <1>3, <1>5, <1>9
<1> QED BY <1>8, <1>10 DEF x, y, z

\* The first frame arrives.
LEMMA LeadsFrom ==
  ASSUME NEW p, NEW fs, NEW q, Leads(p, fs, q), fs # <<>>
  PROVE  Leads(Take(p, Head(fs)), Tail(fs), q)
<1>1. PICK S, ps : /\ fs \in Seq(S) /\ ps[0] = p /\ ps[Len(fs)] = q
                   /\ \A k \in 1..Len(fs) : ps[k] = Take(ps[k - 1], fs[k])
  BY DEF Leads
<1> DEFINE n == Len(fs)
           gs == Tail(fs)
           qs == [k \in 0..(n - 1) |-> ps[k + 1]]
<1>2. n \in Nat /\ n # 0 /\ 1 \in 1..n
  BY <1>1
<1>3. Head(fs) = fs[1] /\ gs \in Seq(S) /\ Len(gs) = n - 1 /\ \A k \in 1..(n - 1) : gs[k] = fs[k + 1]
  BY <1>1
<1>4. /\ 0 \in 0..(n - 1) /\ 0 + 1 = 1 /\ n - 1 \in 0..(n - 1) /\ (n - 1) + 1 = n /\ 1 - 1 = 0
      /\ \A k \in 1..(n - 1) : /\ k \in 0..(n - 1) /\ k - 1 \in 0..(n - 1) /\ (k - 1) + 1 = k
                               /\ k + 1 \in 1..n /\ (k + 1) - 1 = k
  BY <1>2
<1>5. \A k \in 0..(n - 1) : qs[k] = ps[k + 1]
  OBVIOUS
<1> HIDE DEF qs, gs, n
<1>6. \A k \in 1..n : ps[k] = Take(ps[k - 1], fs[k])
  BY <1>1 DEF n
<1>7. qs[0] = Take(p, Head(fs)) /\ qs[n - 1] = q
  <2>1. ps[1] = Take(ps[0], fs[1]) BY <1>2, <1>4, <1>6
  <2>2. qs[0] = ps[1] /\ qs[n - 1] = ps[n] BY <1>4, <1>5
  <2> QED BY <1>1, <1>3, <2>1, <2>2 DEF n
<1>8. ASSUME NEW k \in 1..(n - 1) PROVE qs[k] = Take(qs[k - 1], gs[k])
  <2>1. ps[k + 1] = Take(ps[k], fs[k + 1]) BY <1>4, <1>6
  <2>2. qs[k] = ps[k + 1] /\ qs[k - 1] = ps[k] BY <1>4, <1>5
  <2> QED BY <1>3, <2>1, <2>2
<1>9. gs \in Seq(S) /\ qs[0] = Take(p, Head(fs)) /\ qs[Len(gs)] = q
      /\ \A k \in 1..Len(gs) : qs[k] = Take(qs[k - 1], gs[k])
  BY <1>3, <1>7, <1>8
<1> QED BY <1>9 DEF Leads, gs

\* What the ring has become, and what of it is told: with an eviction the frame
\* that tells it carries the whole ring.
Toward(r0, r, told) ==
  /\ r0.droppedEntries <= r.droppedEntries
  /\ r0.droppedEntries = r.droppedEntries => SameDrops(r0, r) /\ Brings(r0, r, told)

\* With what is under way the page p becomes a copy of r in the state s.
Follows(fs, p, r, s) == \E kept : Keeps(kept, r) /\ Leads(p, fs, Copy(r, kept, s))

\* A frame makes a copy of the ring as it was a copy of the ring as it is.
LEMMA TakenIs ==
  ASSUME NEW r0, RingOK(r0), NEW r, RingOK(r), NEW told, Toward(r0, r, told),
         NEW h, h.lastDropped = r0.droppedEntries, NEW kept, Keeps(kept, r0), NEW s
  PROVE  \E k : Keeps(k, r) /\ Take(Copy(r0, kept, s), Delta(h, r, told)) = Copy(r, k, h.state)
<1> DEFINE f == Delta(h, r, told)
           p == Copy(r0, kept, s)
<1>1. /\ f.state = h.state /\ f.told = told /\ f.dropped = r.droppedEntries
      /\ f.lines = r.droppedLines
      /\ f.snapshot = IF Resync(h, r) THEN {Snapshot(r)} ELSE {}
  BY DEF Delta
<1>2. r0.droppedEntries \in Nat /\ r.droppedEntries \in Nat
  BY RingFields
<1> HIDE DEF f, p
<1>3. CASE Resync(h, r)
  <2>1. f.snapshot = {Snapshot(r)} BY <1>1, <1>3
  <2>2. f.snapshot # {} /\ (CHOOSE x \in f.snapshot : TRUE) = Snapshot(r) BY <2>1
  <2>3. Take(p, f) = Applied(p, f, Snapshot(r)) BY <2>2 DEF Take
  <2>4. \E k : Keeps(k, r) /\ Applied(p, f, Snapshot(r)) = Copy(r, k, f.state) BY AppliedIs
  <2> QED BY <1>1, <2>3, <2>4 DEF f, p
<1>4. CASE ~Resync(h, r)
  <2>1. Take(p, f) = Merged(p, f) BY <1>1, <1>4 DEF Take
  <2>2. r0.droppedEntries = r.droppedEntries
    <3>1. r0.droppedEntries <= r.droppedEntries BY DEF Toward
    <3>2. ~(r0.droppedEntries < r.droppedEntries) BY <1>4 DEF Resync
    <3> QED BY <1>2, <3>1, <3>2
  <2>3. SameDrops(r0, r) /\ Brings(r0, r, f.told) BY <1>1, <2>2 DEF Toward
  <2>4. \E k : Keeps(k, r) /\ Merged(p, f) = Copy(r, k, f.state)
    BY <1>1, <2>3, MergedIs DEF p
  <2> QED BY <1>1, <2>1, <2>4 DEF f, p
<1> QED BY <1>3, <1>4

\* With a frame that is sent a page follows on.
LEMMA FollowsOn ==
  ASSUME NEW r0, RingOK(r0), NEW r, RingOK(r), NEW told, Toward(r0, r, told),
         NEW h, h.lastDropped = r0.droppedEntries, NEW fs, NEW p, NEW s, Follows(fs, p, r0, s)
  PROVE  Follows(fs \o <<Delta(h, r, told)>>, p, r, h.state)
<1>1. PICK kept : Keeps(kept, r0) /\ Leads(p, fs, Copy(r0, kept, s))
  BY DEF Follows
<1>2. PICK k : Keeps(k, r) /\ Take(Copy(r0, kept, s), Delta(h, r, told)) = Copy(r, k, h.state)
  BY <1>1, TakenIs
<1>3. Leads(p, fs \o <<Delta(h, r, told)>>, Take(Copy(r0, kept, s), Delta(h, r, told)))
  BY <1>1, LeadsOn
<1> QED BY <1>2, <1>3 DEF Follows

-----------------------------------------------------------------------------
(* What the hub tells brings the pages what it has changed.                *)

\* Nothing has changed.
LEMMA BringsNothing ==
  ASSUME NEW r, RingOK(r)
  PROVE  Brings(r, r, Nothing)
<1>1. r.entries \in Seq(Item) /\ Len(r.entries) \in Nat
  BY RingFields
<1>2. Longer(r.entries, r.entries)
  BY <1>1 DEF Longer
<1>3. Nothing.appended = <<>> /\ Nothing.updated = <<>> /\ <<>> \in Seq(Item) /\ Len(<<>>) = 0
  BY DEF Nothing
<1>4. \A j \in 1..0 : FALSE
  OBVIOUS
<1> QED BY <1>2, <1>3, <1>4 DEF Brings

\* An entry has been recorded.
LEMMA BringsRecorded ==
  ASSUME NEW r0, NEW r, RingOK(r0), RingOK(r), NEW us, Brings(r0, r, [appended |-> <<>>, updated |-> us]),
         NEW e \in Item, e.id = r.nextId
  PROVE  Brings(r0, Grown(r, e), [appended |-> <<e>>, updated |-> us])
<1> DEFINE es0 == r0.entries
           es == r.entries
           g == Grown(r, e)
           t == g.entries
           n0 == Len(es0)
           n == Len(es)
<1>1. /\ RingOK(g) /\ Len(t) = n + 1 /\ t[n + 1] = e /\ \A i \in 1..n : t[i] = es[i]
      /\ g.nextId = r.nextId + 1
  BY GrownOK
<1>2. /\ es0 \in Seq(Item) /\ es \in Seq(Item) /\ t \in Seq(Item) /\ n0 \in Nat /\ n \in Nat
      /\ r.nextId \in Nat /\ g.nextId \in Nat
      /\ \A i \in 1..n : es[i].id = r.droppedEntries + i /\ es[i].id \in Nat
      /\ r.nextId = n + r.droppedEntries + 1 /\ r.droppedEntries \in Nat
  BY <1>1, RingFields DEF Item
<1>3. /\ n = n0 /\ us \in Seq(Item)
      /\ \A i \in 1..n0 : es[i].id = es0[i].id /\ es[i].kind = es0[i].kind
      /\ \A i \in 1..n0 : es[i] = es0[i] \/ \E j \in 1..Len(us) : us[j] = es[i]
      /\ \A j \in 1..Len(us) :
           /\ us[j].id < r.nextId
           /\ \A i \in 1..n : es[i].id = us[j].id => es[i] = us[j]
           /\ \A k \in 1..Len(us) : us[k].id = us[j].id => us[k] = us[j]
  <2>1. <<es[n]>> # <<>> OBVIOUS
  <2> QED BY <2>1 DEF Brings, Longer
<1>4. \A i \in 1..(n + 1) : i \in 1..n \/ i = n + 1
  BY <1>2
<1> HIDE DEF es0, es, t, n0, n, g
<1>5. Longer(es0, t)
  BY <1>1, <1>2, <1>3 DEF Longer, n0
<1>6. \A i \in 1..n0 : t[i] = es0[i] \/ \E j \in 1..Len(us) : us[j] = t[i]
  BY <1>1, <1>3
<1>7. ASSUME NEW j \in 1..Len(us)
      PROVE  us[j].id < g.nextId /\ \A i \in 1..Len(t) : t[i].id = us[j].id => t[i] = us[j]
  <2>1. us[j].id \in Nat
    <3>1. us[j] \in Item BY <1>3
    <3> QED BY <3>1 DEF Item
  <2>2. us[j].id < r.nextId BY <1>3
  <2>3. us[j].id < g.nextId
    <3>1. \A x, y \in Nat : x < y => x < y + 1 OBVIOUS
    <3>2. g.nextId = r.nextId + 1 /\ r.nextId \in Nat BY <1>1, <1>2
    <3> QED BY <2>1, <2>2, <3>1, <3>2
  <2>4. t[n + 1].id # us[j].id BY <1>1, <1>2, <2>1, <2>2
  <2>5. \A i \in 1..n : t[i].id = us[j].id => t[i] = us[j] BY <1>1, <1>3
  <2> QED BY <1>1, <1>4, <2>3, <2>4, <2>5
<1>8. Len(t) # 0 /\ <<e>> = <<t[Len(t)]>>
  BY <1>1, <1>2
<1> QED BY <1>3, <1>5, <1>6, <1>7, <1>8 DEF Brings, g, t, es0, n0

\* What is yet to be told when the entry e has changed, and is told too.
Also(told, e) == [Refreshed(told, e) EXCEPT !.updated = Append(@, e)]

\* Of what is told, only the changed entry is different, and it comes last.
LEMMA AlsoIs ==
  ASSUME NEW told, NEW e \in Item, told.updated \in Seq(Item)
  PROVE  LET a == Also(told, e)
             us == told.updated
             vs == a.updated
         IN /\ a.appended = Replaced(told.appended, e)
            /\ vs \in Seq(Item) /\ Len(vs) = Len(us) + 1 /\ vs[Len(us) + 1] = e
            /\ \A j \in 1..Len(us) : vs[j] = IF us[j].id = e.id THEN e ELSE us[j]
<1> DEFINE us == told.updated
           ws == Replaced(us, e)
<1>1. ws \in Seq(Item) /\ Len(ws) = Len(us) /\ \A j \in 1..Len(us) : ws[j] = IF us[j].id = e.id THEN e ELSE us[j]
  <2>1. DOMAIN us = 1..Len(us) /\ Len(us) \in Nat /\ \A j \in 1..Len(us) : us[j] \in Item OBVIOUS
  <2>2. ws = [j \in 1..Len(us) |-> IF us[j].id = e.id THEN e ELSE us[j]] BY <2>1 DEF Replaced
  <2> HIDE DEF us, ws
  <2> QED BY <2>1, <2>2
<1>2. Also(told, e).appended = Replaced(told.appended, e) /\ Also(told, e).updated = Append(ws, e)
  BY DEF Also, Refreshed
<1> HIDE DEF ws
<1>3. /\ Append(ws, e) \in Seq(Item) /\ Len(Append(ws, e)) = Len(us) + 1
      /\ Append(ws, e)[Len(us) + 1] = e /\ \A j \in 1..Len(us) : Append(ws, e)[j] = ws[j]
  BY <1>1
<1> QED BY <1>1, <1>2, <1>3

\* An entry has changed.
LEMMA BringsAltered ==
  ASSUME NEW r0, NEW r, RingOK(r0), RingOK(r), NEW told, Brings(r0, r, told),
         NEW i \in 1..Len(r.entries), NEW e \in Item, r.entries[i].id = e.id, r.entries[i].kind = e.kind
  PROVE  Brings(r0, Altered(r, e), Also(told, e))
<1> DEFINE es0 == r0.entries
           es == r.entries
           g == Altered(r, e)
           t == g.entries
           n0 == Len(es0)
           n == Len(es)
           us == told.updated
           a == Also(told, e)
           vs == a.updated
           l == Len(us)
<1>1. RingOK(g) /\ g.nextId = r.nextId /\ Len(t) = n /\ t[i] = e /\ \A j \in 1..n : j # i => t[j] = es[j]
  BY AlteredOK DEF With
<1>2. /\ es0 \in Seq(Item) /\ es \in Seq(Item) /\ t \in Seq(Item) /\ n0 \in Nat /\ n \in Nat
      /\ r.nextId \in Nat
      /\ \A j \in 1..n : es[j].id = r.droppedEntries + j
      /\ \A j \in 1..n : es[j].id = e.id => j = i
      /\ r.nextId = n + r.droppedEntries + 1 /\ r.droppedEntries \in Nat
  BY <1>1, RingFields
<1>3. /\ n \in {n0, n0 + 1} /\ us \in Seq(Item)
      /\ \A j \in 1..n0 : es[j].id = es0[j].id /\ es[j].kind = es0[j].kind
      /\ \A j \in 1..n0 : es[j] = es0[j] \/ \E k \in 1..l : us[k] = es[j]
      /\ \A j \in 1..l :
           /\ us[j].id < r.nextId
           /\ \A k \in 1..n : es[k].id = us[j].id => es[k] = us[j]
           /\ \A k \in 1..l : us[k].id = us[j].id => us[k] = us[j]
  BY DEF Brings, Longer
<1>4. (told.appended = <<>> /\ n = n0) \/ (n # 0 /\ told.appended = <<es[n]>>)
  BY DEF Brings
<1>5. /\ a.appended = Replaced(told.appended, e)
      /\ vs \in Seq(Item) /\ Len(vs) = l + 1 /\ vs[l + 1] = e
      /\ \A j \in 1..l : vs[j] = IF us[j].id = e.id THEN e ELSE us[j]
  BY <1>3, AlsoIs
<1>6. l \in Nat /\ (\A j \in 1..(l + 1) : j \in 1..l \/ j = l + 1) /\ l + 1 \in 1..(l + 1)
      /\ \A j \in 1..l : j \in 1..(l + 1)
  BY <1>3
<1>7. e.id \in Nat /\ e.id < r.nextId
  <2>1. i \in 1..n /\ es[i].id = e.id OBVIOUS
  <2>2. e.id = r.droppedEntries + i /\ i \in Nat /\ i <= n BY <1>2, <2>1
  <2> QED BY <1>2, <2>2
<1>8. (a.appended = <<>> /\ n = n0) \/ (n # 0 /\ a.appended = <<t[n]>>)
  <2>1. CASE told.appended = <<>> /\ n = n0
    BY <1>5, <2>1 DEF Replaced
  <2>2. CASE n # 0 /\ told.appended = <<es[n]>>
    <3> DEFINE x == es[n]
    <3>1. Replaced(<<x>>, e) = <<IF x.id = e.id THEN e ELSE x>>
      <4> HIDE DEF x
      <4> QED BY DEF Replaced
    <3>2. n \in 1..n BY <1>2, <2>2
    <3>3. (IF x.id = e.id THEN e ELSE x) = t[n] BY <1>1, <1>2, <3>2
    <3> QED BY <1>5, <2>2, <3>1, <3>3
  <2> QED BY <1>4, <2>1, <2>2
<1>9. es[i].id = e.id /\ es[i].kind = e.kind /\ i \in 1..n
  OBVIOUS
<1> HIDE DEF es0, es, g, t, n0, n, us, a, vs, l
<1>10. \A j \in 1..n : t[j].id = es[j].id /\ t[j].kind = es[j].kind
  BY <1>1, <1>9
<1>11. \A j \in 1..n0 : j \in 1..n
  BY <1>2, <1>3
<1>12. Longer(es0, t)
  BY <1>1, <1>2, <1>3, <1>10, <1>11 DEF Longer, n0
<1>13. ASSUME NEW j \in 1..n0 PROVE t[j] = es0[j] \/ \E k \in 1..Len(vs) : vs[k] = t[j]
  <2>1. CASE j = i BY <1>1, <1>5, <1>6, <2>1
  <2>2. CASE j # i
    <3>1. t[j] = es[j] /\ es[j].id # e.id BY <1>1, <1>2, <1>11, <2>2
    <3>2. CASE es[j] = es0[j] BY <3>1, <3>2
    <3>3. CASE \E k \in 1..l : us[k] = es[j]
      <4>1. PICK k \in 1..l : us[k] = es[j] BY <3>3
      <4>2. vs[k] = t[j] BY <1>5, <3>1, <4>1
      <4> QED BY <1>5, <1>6, <4>2
    <3> QED BY <1>3, <3>2, <3>3
  <2> QED BY <2>1, <2>2
<1>14. \A j \in 1..(l + 1) : vs[j] = e \/ (vs[j].id # e.id /\ \E k \in 1..l : vs[j] = us[k])
  BY <1>5, <1>6
<1>15. \A j \in 1..n : t[j].id = e.id => t[j] = e
  BY <1>1, <1>2, <1>10
<1>16. ASSUME NEW j \in 1..(l + 1)
       PROVE  /\ vs[j].id < g.nextId
              /\ \A k \in 1..n : t[k].id = vs[j].id => t[k] = vs[j]
              /\ \A k \in 1..(l + 1) : vs[k].id = vs[j].id => vs[k] = vs[j]
  <2>1. CASE vs[j] = e BY <1>1, <1>7, <1>14, <1>15, <2>1
  <2>2. CASE vs[j].id # e.id /\ \E k \in 1..l : vs[j] = us[k]
    <3>1. PICK k \in 1..l : vs[j] = us[k] BY <2>2
    <3>2. vs[j].id < g.nextId BY <1>1, <1>3, <3>1
    <3>3. \A m \in 1..n : t[m].id = vs[j].id => t[m] = vs[j]
      <4> TAKE m \in 1..n
      <4>1. CASE m = i BY <1>1, <2>2, <4>1
      <4>2. CASE m # i BY <1>1, <1>3, <3>1, <4>2
      <4> QED BY <4>1, <4>2
    <3>4. \A m \in 1..(l + 1) : vs[m].id = vs[j].id => vs[m] = vs[j]
      <4> TAKE m \in 1..(l + 1)
      <4>1. CASE vs[m] = e BY <2>2, <4>1
      <4>2. CASE \E d \in 1..l : vs[m] = us[d] BY <1>3, <3>1, <4>2
      <4> QED BY <1>14, <4>1, <4>2
    <3> QED BY <3>2, <3>3, <3>4
  <2> QED BY <1>14, <2>1, <2>2
<1> QED BY <1>1, <1>5, <1>8, <1>12, <1>13, <1>16 DEF Brings, g, t, es0, n0, n, a, vs

\* The last entry of a ring brings nothing new, and neither does one that it has
\* as it is.
LEMMA BringsKnown ==
  ASSUME NEW r, RingOK(r)
  PROVE  /\ \A e : r.entries # <<>> /\ e = r.entries[Len(r.entries)] =>
              Brings(r, r, [appended |-> <<e>>, updated |-> <<>>])
         /\ \A e \in Item : e.id < r.nextId /\ (\A i \in 1..Len(r.entries) :
                                r.entries[i].id = e.id => r.entries[i] = e) =>
              Brings(r, r, [appended |-> <<>>, updated |-> <<e>>])
<1>1. r.entries \in Seq(Item) /\ Len(r.entries) \in Nat
  BY RingFields
<1>2. Longer(r.entries, r.entries)
  BY <1>1 DEF Longer
<1>3. <<>> \in Seq(Item) /\ Len(<<>>) = 0 /\ \A j \in 1..0 : FALSE
  OBVIOUS
<1>4. ASSUME NEW e, r.entries # <<>>, e = r.entries[Len(r.entries)]
      PROVE  Brings(r, r, [appended |-> <<e>>, updated |-> <<>>])
  <2>1. Len(r.entries) # 0 BY <1>1, <1>4
  <2> DEFINE told == [appended |-> <<e>>, updated |-> <<>>]
  <2>2. told.appended = <<e>> /\ told.updated = <<>> OBVIOUS
  <2> HIDE DEF told
  <2>3. Brings(r, r, told) BY <1>2, <1>3, <1>4, <2>1, <2>2 DEF Brings
  <2> QED BY <2>3 DEF told
<1>5. ASSUME NEW e \in Item, e.id < r.nextId,
             \A i \in 1..Len(r.entries) : r.entries[i].id = e.id => r.entries[i] = e
      PROVE  Brings(r, r, [appended |-> <<>>, updated |-> <<e>>])
  <2> DEFINE us == <<e>>
             told == [appended |-> <<>>, updated |-> us]
  <2>1. us \in Seq(Item) /\ Len(us) = 1 /\ us[1] = e /\ \A j \in 1..1 : j = 1 OBVIOUS
  <2>2. told.appended = <<>> /\ told.updated = us OBVIOUS
  <2> HIDE DEF told, us
  <2>3. Brings(r, r, told) BY <1>2, <1>5, <2>1, <2>2 DEF Brings
  <2> QED BY <2>3 DEF told, us
<1> QED BY <1>4, <1>5

\* Eviction: either nothing has gone, or the next frame carries the whole ring.
LEMMA EvictToward ==
  ASSUME NEW r0, RingOK(r0), NEW g, RingOK(g), r0.droppedEntries <= g.droppedEntries, NEW told,
         g.droppedEntries = r0.droppedEntries => SameDrops(r0, g) /\ Brings(r0, g, told)
  PROVE  Toward(r0, Evict(g), told)
<1> DEFINE q == Evict(g)
           a == r0.droppedEntries
           b == g.droppedEntries
           c == q.droppedEntries
<1>1. RingOK(q) /\ (\E k \in Nat : c = b + k) /\ (c = b => q = g)
  BY EvictOK DEF Dropped
<1>2. a \in Nat /\ b \in Nat /\ c \in Nat
  BY <1>1, RingFields
<1>3. a <= b /\ (b = a => SameDrops(r0, g) /\ Brings(r0, g, told))
  OBVIOUS
<1> HIDE DEF q, a, b, c
<1>4. a <= c /\ (a = c => a = b /\ c = b)
  BY <1>1, <1>2, <1>3
<1> QED BY <1>1, <1>3, <1>4 DEF Toward, q, a, b, c

\* After an entry was recorded the next frame brings it, or the whole ring.
LEMMA TowardPushed ==
  ASSUME NEW r0, RingOK(r0), NEW r, RingOK(r), NEW us,
         Toward(r0, r, [appended |-> <<>>, updated |-> us]), NEW e \in Item, e.id = r.nextId
  PROVE  Toward(r0, Push(r, e), [appended |-> <<e>>, updated |-> us])
<1> DEFINE g == Grown(r, e)
<1>1. /\ RingOK(g) /\ Push(r, e) = Evict(g)
      /\ g.droppedEntries = r.droppedEntries /\ g.droppedLines = r.droppedLines
  BY GrownOK
<1>2. r0.droppedEntries <= g.droppedEntries
  BY <1>1 DEF Toward
<1>3. ASSUME g.droppedEntries = r0.droppedEntries
      PROVE  SameDrops(r0, g) /\ Brings(r0, g, [appended |-> <<e>>, updated |-> us])
  <2>1. SameDrops(r0, r) /\ Brings(r0, r, [appended |-> <<>>, updated |-> us])
    BY <1>1, <1>3 DEF Toward
  <2> QED BY <1>1, <2>1, BringsRecorded DEF SameDrops
<1> HIDE DEF g
<1> QED BY <1>1, <1>2, <1>3, EvictToward

\* Also when an entry changes the next frame brings it, or the whole ring.
LEMMA TowardUpdated ==
  ASSUME NEW r0, RingOK(r0), NEW r, RingOK(r), NEW told, Toward(r0, r, told),
         NEW i \in 1..Len(r.entries), NEW e \in Item, r.entries[i].id = e.id, r.entries[i].kind = e.kind
  PROVE  Toward(r0, Update(r, e), Also(told, e))
<1> DEFINE g == Altered(r, e)
<1>1. /\ RingOK(g) /\ Update(r, e) = Evict(g)
      /\ g.droppedEntries = r.droppedEntries /\ g.droppedLines = r.droppedLines
  BY AlteredOK
<1>2. r0.droppedEntries <= g.droppedEntries
  BY <1>1 DEF Toward
<1>3. ASSUME g.droppedEntries = r0.droppedEntries
      PROVE  SameDrops(r0, g) /\ Brings(r0, g, Also(told, e))
  <2>1. SameDrops(r0, r) /\ Brings(r0, r, told)
    BY <1>1, <1>3 DEF Toward
  <2> QED BY <1>1, <2>1, BringsAltered DEF SameDrops
<1> HIDE DEF g
<1> QED BY <1>1, <1>2, <1>3, EvictToward

\* Nothing happens to the ring.
LEMMA TowardItself ==
  ASSUME NEW r, RingOK(r)
  PROVE  /\ Toward(r, r, Nothing) /\ Toward(r, r, [appended |-> <<>>, updated |-> <<>>])
         /\ \A told : Brings(r, r, told) => Toward(r, r, told)
<1>1. \A told : Brings(r, r, told) => Toward(r, r, told)
  BY RingFields DEF Toward, SameDrops
<1> QED BY <1>1, BringsNothing DEF Nothing

\* An entry that is told after a frame that carried the whole ring is known to the
\* page, if the ring has not evicted it.
LEMMA KnownPushed ==
  ASSUME NEW r, RingOK(r), NEW e \in Item, e.id = r.nextId, e.lines <= MaxLines
  PROVE  Toward(Push(r, e), Push(r, e), [appended |-> <<e>>, updated |-> <<>>])
<1> DEFINE g == Grown(r, e)
           q == Evict(g)
           n == Len(r.entries)
<1>1. RingOK(g) /\ Push(r, e) = q /\ Len(g.entries) = n + 1 /\ g.entries[n + 1] = e
  BY GrownOK
<1>2. n \in Nat /\ g.entries \in Seq(Item)
  BY <1>1, RingFields
<1>3. RingOK(q) /\ q.entries # <<>>
  <2>1. g.entries # <<>> BY <1>1, <1>2
  <2> HIDE DEF g
  <2> QED BY <1>1, <2>1, EvictOK
<1>4. PICK k \in Nat : Dropped(g, q, k)
  BY <1>1, EvictOK
<1>5. /\ Len(q.entries) = (n + 1) - k
      /\ \A i \in 1..((n + 1) - k) : q.entries[i] = g.entries[k + i]
  BY <1>1, <1>4 DEF Dropped
<1>6. q.entries \in Seq(Item) /\ Len(q.entries) \in Nat /\ Len(q.entries) # 0
  BY <1>3, RingFields
<1> HIDE DEF g, q, n
<1>7. q.entries[Len(q.entries)] = e
  <2> DEFINE l == Len(q.entries)
  <2>1. l = (n + 1) - k /\ l \in Nat /\ l # 0 BY <1>5, <1>6
  <2> HIDE DEF l
  <2>2. l \in 1..((n + 1) - k) /\ k + l = n + 1 BY <1>2, <1>4, <2>1
  <2>3. q.entries[l] = g.entries[n + 1] BY <1>5, <2>2
  <2> QED BY <1>1, <2>3 DEF l
<1>8. Brings(q, q, [appended |-> <<e>>, updated |-> <<>>])
  BY <1>3, <1>7, BringsKnown
<1> QED BY <1>1, <1>3, <1>8, TowardItself

\* So is an entry that has changed.
LEMMA KnownUpdated ==
  ASSUME NEW r, RingOK(r), NEW i \in 1..Len(r.entries), NEW e \in Item, r.entries[i].id = e.id
  PROVE  Toward(Update(r, e), Update(r, e), [appended |-> <<>>, updated |-> <<e>>])
<1> DEFINE g == Altered(r, e)
           q == Evict(g)
           n == Len(r.entries)
<1>1. /\ RingOK(g) /\ Update(r, e) = q /\ Len(g.entries) = n /\ g.entries[i] = e
      /\ g.nextId = r.nextId
  BY AlteredOK DEF With
<1>2. /\ n \in Nat /\ r.entries[i].id = r.droppedEntries + i /\ r.droppedEntries \in Nat
      /\ r.nextId = n + r.droppedEntries + 1
  BY RingFields
<1>3. \A j \in 1..n : g.entries[j].id = e.id => g.entries[j] = e
  BY <1>1, RingFields
<1>4. RingOK(q)
  BY <1>1, EvictOK
<1>5. PICK k \in Nat : Dropped(g, q, k)
  BY <1>1, EvictOK
<1>6. /\ k \in 0..n /\ Len(q.entries) = n - k /\ q.nextId = g.nextId
      /\ \A j \in 1..(n - k) : q.entries[j] = g.entries[k + j]
  BY <1>1, <1>5 DEF Dropped
<1>7. e.id < q.nextId
  <2>1. e.id = r.droppedEntries + i /\ i \in Nat /\ i <= n BY <1>2
  <2> QED BY <1>1, <1>2, <1>6, <2>1
<1> HIDE DEF g, q, n
<1>8. \A j \in 1..Len(q.entries) : q.entries[j].id = e.id => q.entries[j] = e
  <2> TAKE j \in 1..Len(q.entries)
  <2>1. j \in 1..(n - k) /\ k + j \in 1..n BY <1>2, <1>6
  <2> QED BY <1>3, <1>6, <2>1
<1>9. Brings(q, q, [appended |-> <<>>, updated |-> <<e>>])
  BY <1>4, <1>7, <1>8, BringsKnown
<1> QED BY <1>1, <1>4, <1>9, TowardItself

-----------------------------------------------------------------------------
(* The pages follow the ring.                                              *)

\* The fields of what is due.
Shaped(d) == d = [pending |-> d.pending, first |-> d.first, idle |-> d.idle, told |-> d.told]

\* The hub's viewers are the pages whose stream is open; nothing is under way to
\* any other.
LinkInv ==
  /\ frames = [v \in Viewers |-> frames[v]] /\ stream = [v \in Viewers |-> stream[v]]
  /\ page = [v \in Viewers |-> page[v]] /\ Shaped(due)
  /\ hub.viewers = {v \in Viewers : stream[v] = "open"}
  /\ \A v \in Viewers : v \notin hub.viewers => frames[v] = <<>>

\* The ring as the viewers were last told of it is r0: with what is under way each
\* becomes a copy of r0 in the state of the hub.
ToldOf(r0) ==
  /\ RingOK(r0)
  /\ hub.viewers # {} => hub.lastDropped = r0.droppedEntries
  /\ \A v \in hub.viewers : Follows(frames[v], page[v], r0, hub.state)

\* What a read has changed and is yet to tell makes r0 the ring as it is; after a
\* first read it is told to pages that have had the whole ring already.
Change(r0, r, d) == Toward(r0, r, d.told) /\ (d.first => Toward(r, r, d.told))

CopyInv == \E r0 : ToldOf(r0) /\ IF due.pending THEN Change(r0, ring, due) ELSE r0 = ring

MirrorInv == LinkInv /\ CopyInv

\* Between reads the viewers have been told of the ring as it is.
LEMMA IdleTold ==
  ASSUME CopyInv, Idle PROVE ToldOf(ring)
BY DEF CopyInv, Idle

\* A frame that is sent to every viewer.
LEMMA Informed ==
  ASSUME LinkInv, NEW r0, ToldOf(r0), NEW r, RingOK(r), NEW told, Toward(r0, r, told),
         NEW h \in HubType, h.viewers = hub.viewers, h.lastDropped = hub.lastDropped,
         Broadcast(h, r, told), ring' = r, stream' = stream, page' = page, ~due'.pending, Shaped(due')
  PROVE  MirrorInv'
<1> DEFINE f == Delta(h, r, told)
<1>1. /\ frames' = [v \in Viewers |-> IF v \in h.viewers THEN frames[v] \o <<f>> ELSE frames[v]]
      /\ hub' = Seen(h, r)
  BY DEF Broadcast, Sends
<1>2. r.droppedEntries \in Nat /\ RingOK(r0)
  BY RingFields DEF ToldOf
<1>3. /\ hub'.viewers = hub.viewers /\ hub'.state = h.state
      /\ hub'.viewers # {} => hub'.lastDropped = r.droppedEntries
  BY <1>1, <1>2, SeenIs
<1>4. hub.viewers = {v \in Viewers : stream[v] = "open"}
  BY DEF LinkInv
<1> HIDE DEF f
<1>5. ASSUME NEW v \in hub.viewers PROVE Follows(frames'[v], page'[v], r, hub'.state)
  <2>1. v \in Viewers BY <1>4
  <2>2. frames'[v] = frames[v] \o <<f>> /\ page'[v] = page[v] BY <1>1, <2>1
  <2>3. Follows(frames[v], page[v], r0, hub.state) /\ h.lastDropped = r0.droppedEntries
    BY DEF ToldOf
  <2>4. Follows(frames[v] \o <<f>>, page[v], r, h.state) BY <1>2, <2>3, FollowsOn DEF f
  <2> QED BY <1>3, <2>2, <2>4
<1>6. LinkInv'
  <2>1. \A v \in Viewers : v \notin hub'.viewers => frames'[v] = <<>>
    BY <1>1, <1>3 DEF LinkInv
  <2>2. frames' = [v \in Viewers |-> frames'[v]] BY <1>1
  <2> QED BY <1>3, <1>4, <2>1, <2>2 DEF LinkInv
<1>7. ToldOf(r)'
  BY <1>3, <1>5 DEF ToldOf
<1>8. CopyInv'
  BY <1>7 DEF CopyInv
<1> QED BY <1>6, <1>8 DEF MirrorInv

\* A read that was answered.
LEMMA PulledKeeps ==
  ASSUME RingInv, LinkInv, ToldOf(ring), NEW idle, NEW r, NEW block, NEW told,
         Pulled(idle, r, block, told), Toward(ring, r, told),
         hub.reader = "first" => Toward(r, r, told)
  PROVE  MirrorInv'
<1>1. /\ hub'.viewers = hub.viewers /\ hub'.state = hub.state /\ hub'.lastDropped = hub.lastDropped
  <2>1. hub \in HubType BY DEF RingInv
  <2> QED BY <2>1 DEF Pulled, HubType
<1>2. ring' = r /\ frames' = frames /\ stream' = stream /\ page' = page
  BY DEF Pulled
<1>3. due'.pending /\ due'.told = told /\ (due'.first => hub.reader = "first")
      /\ Shaped(due')
  BY DEF Pulled, Shaped
<1>4. LinkInv'
  BY <1>1, <1>2, <1>3 DEF LinkInv
<1>5. \A r0 : ToldOf(r0) => /\ RingOK(r0) /\ (hub'.viewers # {} => hub'.lastDropped = r0.droppedEntries)
                            /\ \A v \in hub'.viewers : Follows(frames'[v], page'[v], r0, hub'.state)
  BY <1>1, <1>2 DEF ToldOf
<1>6. Change(ring, ring', due')
  BY <1>2, <1>3 DEF Change
<1>7. CopyInv' <=> \E r0 : /\ RingOK(r0) /\ (hub'.viewers # {} => hub'.lastDropped = r0.droppedEntries)
                           /\ \A v \in hub'.viewers : Follows(frames'[v], page'[v], r0, hub'.state)
                           /\ IF due'.pending THEN Change(r0, ring', due') ELSE r0 = ring'
  BY DEF CopyInv, ToldOf
<1>8. CopyInv'
  BY <1>3, <1>5, <1>6, <1>7
<1> QED BY <1>4, <1>8 DEF MirrorInv

\* Reads keep the pages following, if what the first one finds fits into the ring.
LEMMA MirrorPull ==
  ASSUME \A n \in Reads : n <= MaxLines, RingInv, MirrorInv, Pull
  PROVE  MirrorInv'
<1>1. /\ RingOK(ring) /\ LinkInv /\ CopyInv /\ \A n \in Reads : n \in Nat /\ n <= MaxLines
  BY MirrorSets DEF RingInv, MirrorInv
<1>2. Nothing = [appended |-> <<>>, updated |-> <<>>]
  BY DEF Nothing
<1>3. Toward(ring, ring, Nothing)
  BY <1>1, TowardItself
<1>4. ASSUME NEW idle, PullNothing(idle) PROVE MirrorInv'
  <2>1. Idle /\ Pulled(idle, ring, hub.currentBlock, Nothing) BY <1>4 DEF PullNothing, CanRead
  <2> QED BY <1>1, <1>3, <2>1, IdleTold, PulledKeeps
<1>5. ASSUME NEW n \in Reads, NEW idle, NEW block, NEW kind \in {"earlier_output", "output_block"}, Idle,
             LET e == NewEntry(kind, n) IN
             Pulled(idle, Push(ring, e), block, [Nothing EXCEPT !.appended = <<e>>])
      PROVE  MirrorInv'
  <2> DEFINE e == NewEntry(kind, n)
             told == [appended |-> <<e>>, updated |-> <<>>]
             q == Push(ring, e)
  <2>1. e \in Item /\ e.id = ring.nextId /\ e.lines = n BY <1>1, NewEntryIs
  <2>2. [Nothing EXCEPT !.appended = <<e>>] = told
    <3> HIDE DEF e
    <3> QED BY <1>2
  <2>3. Pulled(idle, q, block, told) BY <1>5, <2>2
  <2> HIDE DEF e
  <2>4. Toward(ring, q, told) BY <1>1, <1>2, <1>3, <2>1, TowardPushed
  <2>5. Toward(q, q, told) BY <1>1, <2>1, KnownPushed
  <2> HIDE DEF told, q
  <2> QED BY <1>1, <1>5, <2>3, <2>4, <2>5, IdleTold, PulledKeeps
<1>6. ASSUME NEW n \in Reads, PullEarlier(n) PROVE MirrorInv'
  BY <1>5, <1>6 DEF PullEarlier, CanRead
<1>7. ASSUME NEW n \in Reads, NEW idle, PullBlock(n, idle) PROVE MirrorInv'
  BY <1>5, <1>7 DEF PullBlock, CanRead
<1>8. ASSUME NEW n \in Reads, NEW idle, PullMore(n, idle) PROVE MirrorInv'
  <2>1. PICK b \in OpenBlock :
          LET e == [b EXCEPT !.lines = @ + n, !.state = "open"] IN
          Pulled(idle, Update(ring, e), hub.currentBlock, [Nothing EXCEPT !.updated = <<e>>])
    BY <1>8 DEF PullMore
  <2>2. Idle BY <1>8 DEF PullMore, CanRead
  <2> DEFINE e == [b EXCEPT !.lines = @ + n, !.state = "open"]
             told == [appended |-> <<>>, updated |-> <<e>>]
             q == Update(ring, e)
  <2>3. b \in Item BY OpenBlockIs
  <2>4. PICK i \in 1..Len(ring.entries) : ring.entries[i] = b BY OpenBlockIs
  <2>5. e \in Item /\ e.id = b.id /\ e.kind = b.kind BY <1>1, <2>3, EntryWith
  <2>6. [Nothing EXCEPT !.updated = <<e>>] = told
    <3> HIDE DEF e
    <3> QED BY <1>2
  <2>7. Pulled(idle, q, hub.currentBlock, told) BY <2>1, <2>6
  <2> HIDE DEF e
  <2>8. Also(Nothing, e) = told BY <1>2 DEF Also, Refreshed, Replaced
  <2>9. Toward(ring, q, told) BY <1>1, <1>3, <2>4, <2>5, <2>8, TowardUpdated
  <2>10. Toward(q, q, told) BY <1>1, <2>4, <2>5, KnownUpdated
  <2> HIDE DEF told, q
  <2> QED BY <1>1, <2>2, <2>7, <2>9, <2>10, IdleTold, PulledKeeps
<1> QED BY <1>4, <1>6, <1>7, <1>8 DEF Pull

\* Telling makes the pages follow the ring as it is.
LEMMA MirrorTells == ASSUME RingInv, RingInv', MirrorInv, Tells PROVE MirrorInv'
<1>1. /\ RingOK(ring) /\ RingOK(ring') /\ LinkInv /\ hub \in HubType /\ ring.droppedEntries \in Nat
  BY RingFields DEF RingInv, MirrorInv
<1>2. due.pending /\ due' = NotDue /\ ~NotDue.pending /\ Shaped(due')
  BY DEF Tells, TellFirst, TellPaused, Tell, NotDue, Shaped
<1>3. PICK r0 : ToldOf(r0) /\ Change(r0, ring, due)
  BY <1>2 DEF MirrorInv, CopyInv
<1>4. RingOK(r0) /\ Toward(r0, ring, due.told)
  BY <1>3 DEF ToldOf, Change
<1>5. ASSUME Tell PROVE MirrorInv'
  <2>1. ring' = ring /\ Broadcast(hub, ring, due.told) /\ stream' = stream /\ page' = page
    BY <1>5 DEF Tell
  <2> QED BY <1>1, <1>2, <1>3, <1>4, <2>1, Informed
<1>6. ASSUME TellPaused PROVE MirrorInv'
  <2>1. PICK b \in OpenBlock :
          LET e == [b EXCEPT !.state = "paused"]
              told == Refreshed(due.told, e)
              r == Update(ring, e)
          IN ring' = r /\ Broadcast(hub, r, [told EXCEPT !.updated = Append(@, e)])
    BY <1>6 DEF TellPaused
  <2> DEFINE e == [b EXCEPT !.state = "paused"]
             q == Update(ring, e)
  <2>2. b \in Item BY OpenBlockIs
  <2>3. PICK i \in 1..Len(ring.entries) : ring.entries[i] = b BY OpenBlockIs
  <2>4. e \in Item /\ e.id = b.id /\ e.kind = b.kind BY <2>2, EntryWith
  <2>5. ring' = q /\ Broadcast(hub, q, Also(due.told, e)) BY <2>1 DEF Also
  <2> HIDE DEF e
  <2>6. Toward(r0, q, Also(due.told, e)) BY <1>1, <1>4, <2>3, <2>4, TowardUpdated
  <2>7. stream' = stream /\ page' = page BY <1>6 DEF TellPaused
  <2>8. RingOK(q) BY <1>1, <2>5
  <2> HIDE DEF q
  <2> QED BY <1>1, <1>2, <1>3, <2>5, <2>6, <2>7, <2>8, Informed
<1>7. ASSUME TellFirst PROVE MirrorInv'
  <2> DEFINE live == [hub EXCEPT !.state = "live"]
             seen == Seen(live, ring)
             f == Delta(live, ring, Nothing)
             g == Delta(seen, ring, due.told)
  <2>1. /\ frames' = [v \in Viewers |-> IF v \in live.viewers THEN frames[v] \o <<f, g>> ELSE frames[v]]
        /\ hub' = seen /\ due.first /\ ring' = ring /\ stream' = stream /\ page' = page
    BY <1>7 DEF TellFirst, Sends
  <2>2. live \in HubType /\ live.viewers = hub.viewers /\ live.lastDropped = hub.lastDropped
    <3>1. "live" \in HubStates BY DEF HubStates
    <3> QED BY <1>1, <3>1, HubWith
  <2> HIDE DEF live
  <2>3. /\ seen.viewers = hub.viewers /\ seen.state = live.state
        /\ hub.viewers # {} => seen.lastDropped = ring.droppedEntries
    BY <1>1, <2>2, SeenIs
  <2>4. Toward(ring, ring, due.told) BY <1>3, <2>1 DEF Change
  <2>5. r0.droppedEntries \in Nat /\ r0.droppedEntries <= ring.droppedEntries
    BY <1>4, RingFields DEF Toward
  <2> HIDE DEF seen, f, g
  <2>6. ASSUME NEW v \in hub.viewers PROVE Follows(frames'[v], page'[v], ring, hub'.state)
    <3> DEFINE fs == frames[v]
               p == page[v]
    <3>1. Follows(fs, p, r0, hub.state) /\ live.lastDropped = r0.droppedEntries
          /\ seen.lastDropped = ring.droppedEntries
      BY <1>3, <2>2, <2>3 DEF ToldOf
    <3>2. v \in Viewers BY <1>1 DEF LinkInv
    <3>3. frames'[v] = fs \o <<f, g>> /\ page'[v] = p BY <2>1, <2>2, <3>2
    <3>4. fs \o <<f, g>> = (fs \o <<f>>) \o <<g>>
      <4>1. \E q : Leads(p, fs, q) BY <3>1 DEF Follows
      <4> HIDE DEF fs, p
      <4> QED BY <4>1, LeadsOnTwice
    <3> HIDE DEF fs, p
    <3>5. CASE r0.droppedEntries = ring.droppedEntries
      <4>1. Toward(r0, r0, Nothing) BY <1>4, TowardItself
      <4>2. f = Delta(live, r0, Nothing)
        <5>1. ~Resync(live, ring) /\ ~Resync(live, r0) BY <1>1, <2>5, <3>1, <3>5 DEF Resync
        <5>2. SameDrops(r0, ring) BY <1>4, <3>5 DEF Toward
        <5> QED BY <5>1, <5>2 DEF Delta, SameDrops, f
      <4>3. Follows(fs \o <<f>>, p, r0, live.state) BY <1>4, <3>1, <4>1, <4>2, FollowsOn
      <4>4. seen.lastDropped = r0.droppedEntries BY <3>1, <3>5
      <4>5. Follows((fs \o <<f>>) \o <<g>>, p, ring, seen.state)
        BY <1>1, <1>4, <4>3, <4>4, FollowsOn DEF g
      <4> QED BY <2>1, <3>3, <3>4, <4>5
    <3>6. CASE r0.droppedEntries < ring.droppedEntries
      <4>1. Toward(r0, ring, Nothing) BY <1>1, <2>5, <3>6 DEF Toward
      <4>2. Follows(fs \o <<f>>, p, ring, live.state) BY <1>1, <1>4, <3>1, <4>1, FollowsOn DEF f
      <4>3. Follows((fs \o <<f>>) \o <<g>>, p, ring, seen.state)
        BY <1>1, <2>4, <3>1, <4>2, FollowsOn DEF g
      <4> QED BY <2>1, <3>3, <3>4, <4>3
    <3> QED BY <1>1, <2>5, <3>5, <3>6
  <2>7. LinkInv'
    <3>1. \A v \in Viewers : v \notin hub'.viewers => frames'[v] = <<>>
      BY <1>1, <2>1, <2>2, <2>3 DEF LinkInv
    <3>2. frames' = [v \in Viewers |-> frames'[v]] BY <2>1
    <3> QED BY <1>1, <1>2, <2>1, <2>3, <3>1, <3>2 DEF LinkInv
  <2>8. ToldOf(ring)' BY <1>1, <2>1, <2>3, <2>6 DEF ToldOf
  <2>9. CopyInv' BY <1>2, <2>8 DEF CopyInv
  <2> QED BY <2>7, <2>9 DEF MirrorInv
<1> QED BY <1>5, <1>6, <1>7 DEF Tells

\* So does recording, when no read is yet to be told.
LEMMA MirrorRecord ==
  ASSUME ~Chunked, RingInv, RingInv', MirrorInv, (\E n \in Turns : RecordUserTurn(n)) \/ RecordControl
  PROVE  MirrorInv'
<1>1. /\ RingOK(ring) /\ RingOK(ring') /\ LinkInv /\ CopyInv /\ hub \in HubType /\ Shaped(due)
      /\ \A n \in Turns : n \in Nat
  BY MirrorSets DEF RingInv, MirrorInv, LinkInv
<1>2. Idle
  BY DEF RecordUserTurn, RecordControl, CanRecord
<1>3. ~due.pending /\ ToldOf(ring)
  BY <1>1, <1>2, IdleTold DEF Idle
<1>4. ASSUME NEW r, RingOK(r), NEW us, Toward(ring, r, [appended |-> <<>>, updated |-> us]),
             NEW e \in Item, e.id = r.nextId, NEW h \in HubType, h.viewers = hub.viewers,
             h.lastDropped = hub.lastDropped, Records(r, h, e, us), ~due'.pending, Shaped(due')
      PROVE  MirrorInv'
  <2> DEFINE q == Push(r, e)
             told == [appended |-> <<e>>, updated |-> us]
  <2>1. ring' = q /\ Broadcast(h, q, told) /\ stream' = stream /\ page' = page BY <1>4 DEF Records
  <2>2. Toward(ring, q, told) BY <1>1, <1>4, TowardPushed
  <2>3. RingOK(q) BY <1>1, <2>1
  <2> HIDE DEF q, told
  <2> QED BY <1>1, <1>3, <1>4, <2>1, <2>2, <2>3, Informed
<1>5. Toward(ring, ring, [appended |-> <<>>, updated |-> <<>>]) /\ Toward(ring, ring, Nothing)
  BY <1>1, TowardItself
<1>6. ASSUME NEW n \in Turns, RecordUserTurn(n) PROVE MirrorInv'
  <2> DEFINE e == NewEntry("user_turn", n)
  <2>1. e \in Item /\ e.id = ring.nextId BY <1>1, NewEntryIs
  <2>2. \/ Records(ring, hub, e, <<>>) /\ due' = due
        \/ \E b \in ClosedBlock :
             /\ Records(Update(ring, b), [hub EXCEPT !.currentBlock = 0], e, <<b>>)
             /\ due' = [due EXCEPT !.told = Refreshed(@, b)]
    BY <1>6 DEF RecordUserTurn
  <2> HIDE DEF e
  <2>3. CASE Records(ring, hub, e, <<>>) /\ due' = due
    BY <1>1, <1>3, <1>4, <1>5, <2>1, <2>3
  <2>4. ASSUME NEW b \in ClosedBlock,
               Records(Update(ring, b), [hub EXCEPT !.currentBlock = 0], e, <<b>>),
               due' = [due EXCEPT !.told = Refreshed(@, b)]
        PROVE  MirrorInv'
    <3> DEFINE h == [hub EXCEPT !.currentBlock = 0]
               r == Update(ring, b)
    <3>1. PICK o \in OpenBlock : b = [o EXCEPT !.state = "closed"] BY DEF ClosedBlock
    <3>2. o \in Item /\ o.id = hub.currentBlock /\ o.state # "closed" BY OpenBlockIs
    <3>3. PICK i \in 1..Len(ring.entries) : ring.entries[i] = o BY OpenBlockIs
    <3>4. b \in Item /\ b.id = o.id /\ b.kind = o.kind /\ b.state = "closed"
      BY <3>1, <3>2, EntryWith
    <3>5. RingOK(r) /\ r.nextId = ring.nextId
      <4>1. Blocks(ring.entries, b.id) BY <3>2, <3>4 DEF RingInv
      <4> QED BY <1>1, <3>2, <3>3, <3>4, <4>1, UpdateOK
    <3>6. h \in HubType /\ h.viewers = hub.viewers /\ h.lastDropped = hub.lastDropped BY <1>1, HubWith
    <3>7. Also(Nothing, b) = [appended |-> <<>>, updated |-> <<b>>]
      BY DEF Also, Refreshed, Replaced, Nothing
    <3>8. Toward(ring, r, [appended |-> <<>>, updated |-> <<b>>])
      BY <1>1, <1>5, <3>3, <3>4, <3>7, TowardUpdated
    <3>9. ~due'.pending /\ Shaped(due')
      <4> DEFINE t == Refreshed(due.told, b)
      <4>1. due' = [due EXCEPT !.told = t] BY <2>4
      <4> HIDE DEF t
      <4>2. due' = [pending |-> due.pending, first |-> due.first, idle |-> due.idle, told |-> t]
        BY <1>1, <4>1 DEF Shaped
      <4> QED BY <1>3, <4>2 DEF Shaped
    <3>10. Records(r, h, e, <<b>>) BY <2>4
    <3> HIDE DEF r, h
    <3> QED BY <1>4, <2>1, <3>5, <3>6, <3>8, <3>9, <3>10
  <2> QED BY <2>2, <2>3, <2>4
<1>7. ASSUME RecordControl PROVE MirrorInv'
  <2> DEFINE e == NewEntry("control", 0)
  <2>1. e \in Item /\ e.id = ring.nextId
    <3>1. 0 \in Nat OBVIOUS
    <3> QED BY <3>1, NewEntryIs
  <2>2. Records(ring, hub, e, <<>>) /\ due' = due BY <1>7 DEF RecordControl
  <2> HIDE DEF e
  <2> QED BY <1>1, <1>3, <1>4, <1>5, <2>1, <2>2
<1> QED BY <1>6, <1>7

\* So does a change of the hub's state, and the end of reading.
LEMMA MirrorStates ==
  ASSUME RingInv, MirrorInv, Polls \/ Stops \/ \E s \in Failures : Fails(s)
  PROVE  MirrorInv'
<1>1. /\ RingOK(ring) /\ LinkInv /\ CopyInv /\ hub \in HubType /\ Shaped(due)
  BY DEF RingInv, MirrorInv, LinkInv
<1>2. Idle /\ due' = due /\ ring' = ring /\ stream' = stream /\ page' = page
  BY DEF Polls, Stops, Fails
<1>3. ~due.pending /\ ToldOf(ring) /\ ~due'.pending /\ Shaped(due')
  BY <1>1, <1>2, IdleTold DEF Idle
<1>4. ASSUME NEW h \in HubType, h.viewers = hub.viewers, h.lastDropped = hub.lastDropped,
             NEW s \in HubStates, SetState(h, s)
      PROVE  MirrorInv'
  <2> DEFINE k == [h EXCEPT !.state = s]
  <2>1. k \in HubType /\ k.viewers = hub.viewers /\ k.lastDropped = hub.lastDropped BY <1>4, HubWith
  <2>2. Broadcast(k, ring, Nothing) BY <1>4 DEF SetState
  <2>3. Toward(ring, ring, Nothing) BY <1>1, TowardItself
  <2> HIDE DEF k
  <2> QED BY <1>1, <1>2, <1>3, <2>1, <2>2, <2>3, Informed
<1>5. CASE Polls
  <2>1. SetState(hub, "polling") /\ "polling" \in HubStates BY <1>5 DEF Polls, HubStates
  <2> QED BY <1>1, <1>4, <2>1
<1>6. ASSUME NEW s \in Failures, Fails(s) PROVE MirrorInv'
  <2> DEFINE h == [hub EXCEPT !.reader = "off"]
  <2>1. SetState(h, s) /\ s \in HubStates BY <1>6 DEF Fails, HubStates
  <2>2. h \in HubType /\ h.viewers = hub.viewers /\ h.lastDropped = hub.lastDropped BY <1>1, HubWith
  <2> HIDE DEF h
  <2> QED BY <1>4, <2>1, <2>2
<1>7. CASE Stops
  <2>1. /\ hub.viewers = {} /\ hub' = [hub EXCEPT !.reader = "off", !.state = "idle"]
        /\ frames' = frames
    BY <1>7 DEF Stops
  <2>2. hub'.viewers = {} BY <1>1, <2>1 DEF HubType
  <2>3. LinkInv' BY <1>1, <1>2, <2>1, <2>2 DEF LinkInv
  <2>4. ToldOf(ring)' BY <1>1, <1>2, <2>2 DEF ToldOf
  <2>5. CopyInv' BY <1>3, <2>4 DEF CopyInv
  <2> QED BY <2>3, <2>5 DEF MirrorInv
<1> QED BY <1>5, <1>6, <1>7

\* A page that follows nothing changes.
LEMMA MirrorApart ==
  ASSUME MirrorInv, NEW v \in Viewers, v \notin hub.viewers, NEW s, NEW p, s # "open",
         stream' = [stream EXCEPT ![v] = s], page' = [page EXCEPT ![v] = p],
         frames' = frames, ring' = ring, hub' = hub, due' = due
  PROVE  MirrorInv'
<1>1. LinkInv /\ CopyInv
  BY DEF MirrorInv
<1>2. /\ stream = [w \in Viewers |-> stream[w]] /\ page = [w \in Viewers |-> page[w]]
      /\ hub.viewers = {w \in Viewers : stream[w] = "open"}
  BY <1>1 DEF LinkInv
<1>3. /\ stream' = [w \in Viewers |-> IF w = v THEN s ELSE stream[w]]
      /\ page' = [w \in Viewers |-> IF w = v THEN p ELSE page[w]]
  BY <1>2
<1>4. hub'.viewers = {w \in Viewers : stream'[w] = "open"}
  <2>1. stream[v] # "open" BY <1>2
  <2>2. \A w \in Viewers : stream'[w] = "open" <=> stream[w] = "open" BY <1>3, <2>1
  <2> QED BY <1>2, <2>2
<1>5. LinkInv'
  <2>1. stream' = [w \in Viewers |-> stream'[w]] /\ page' = [w \in Viewers |-> page'[w]] BY <1>3
  <2> QED BY <1>1, <1>4, <2>1 DEF LinkInv
<1>6. \A w \in hub.viewers : page'[w] = page[w]
  BY <1>2, <1>3
<1>7. PICK r0 : ToldOf(r0) /\ IF due.pending THEN Change(r0, ring, due) ELSE r0 = ring
  BY <1>1 DEF CopyInv
<1>8. ToldOf(r0)'
  BY <1>6, <1>7 DEF ToldOf
<1>9. CopyInv'
  BY <1>7, <1>8 DEF CopyInv
<1> QED BY <1>5, <1>9 DEF MirrorInv

\* A viewer leaves: the hub is the same for the others.
LEMMA MirrorLeaves ==
  ASSUME RingInv, MirrorInv, NEW v \in Viewers, NEW s, NEW p, s # "open",
         stream' = [stream EXCEPT ![v] = s], page' = [page EXCEPT ![v] = p],
         frames' = [frames EXCEPT ![v] = <<>>], hub' = Left(hub, {v}), ring' = ring, due' = due,
         Idle
  PROVE  MirrorInv'
<1>1. LinkInv /\ CopyInv /\ ToldOf(ring) /\ hub \in HubType
  BY IdleTold DEF MirrorInv, RingInv
<1>2. /\ stream = [w \in Viewers |-> stream[w]] /\ page = [w \in Viewers |-> page[w]]
      /\ frames = [w \in Viewers |-> frames[w]]
      /\ hub.viewers = {w \in Viewers : stream[w] = "open"}
  BY <1>1 DEF LinkInv
<1>3. /\ stream' = [w \in Viewers |-> IF w = v THEN s ELSE stream[w]]
      /\ page' = [w \in Viewers |-> IF w = v THEN p ELSE page[w]]
      /\ frames' = [w \in Viewers |-> IF w = v THEN <<>> ELSE frames[w]]
  BY <1>2
<1>4. /\ hub'.viewers = hub.viewers \ {v} /\ hub'.lastDropped = hub.lastDropped
      /\ hub'.viewers # {} => hub'.state = hub.state
  BY <1>1, LeftIs
<1>5. LinkInv'
  <2>1. \A w \in Viewers : stream'[w] = "open" <=> w # v /\ stream[w] = "open" BY <1>3
  <2>2. hub'.viewers = {w \in Viewers : stream'[w] = "open"} BY <1>2, <1>4, <2>1
  <2>3. \A w \in Viewers : w \notin hub'.viewers => frames'[w] = <<>> BY <1>1, <1>3, <1>4 DEF LinkInv
  <2>4. /\ stream' = [w \in Viewers |-> stream'[w]] /\ page' = [w \in Viewers |-> page'[w]]
        /\ frames' = [w \in Viewers |-> frames'[w]]
    BY <1>3
  <2> QED BY <1>1, <2>2, <2>3, <2>4 DEF LinkInv
<1>6. \A w \in hub'.viewers : /\ w \in hub.viewers /\ page'[w] = page[w] /\ frames'[w] = frames[w]
                              /\ hub'.state = hub.state
  BY <1>2, <1>3, <1>4
<1>7. ToldOf(ring)'
  BY <1>1, <1>4, <1>6 DEF ToldOf
<1>8. CopyInv'
  BY <1>7 DEF CopyInv, Idle
<1> QED BY <1>5, <1>8 DEF MirrorInv

\* A frame that carries the whole ring makes a copy of any page.
LEMMA FollowsAnew ==
  ASSUME NEW r, RingOK(r), NEW f, f.snapshot = {Snapshot(r)}, NEW p
  PROVE  Follows(<<f>>, p, r, f.state)
<1>1. f.snapshot # {} /\ (CHOOSE x \in f.snapshot : TRUE) = Snapshot(r)
  OBVIOUS
<1>2. PICK kept : Keeps(kept, r) /\ Applied(p, f, Snapshot(r)) = Copy(r, kept, f.state)
  BY AppliedIs
<1>3. Take(p, f) = Copy(r, kept, f.state)
  BY <1>1, <1>2 DEF Take
<1>4. Leads(p, <<>>, p)
  BY LeadsNowhere
<1>5. Leads(p, <<>> \o <<f>>, Take(p, f))
  BY <1>4, LeadsOn
<1>6. <<>> \o <<f>> = <<f>>
  OBVIOUS
<1> QED BY <1>2, <1>3, <1>5, <1>6 DEF Follows

\* A viewer joins, and reading begins if nobody reads.
LEMMA MirrorConnects == ASSUME RingInv, MirrorInv, NEW v \in Viewers, Connects(v) PROVE MirrorInv'
<1> DEFINE joined == [hub EXCEPT !.viewers = @ \cup {v}, !.lastDropped = ring.droppedEntries]
           begun == [joined EXCEPT !.state = "attaching", !.reader = "first"]
           begins == hub.reader = "off"
           first == [Delta(hub, ring, Nothing) EXCEPT !.snapshot = {Snapshot(ring)}]
           f == Delta(begun, ring, Nothing)
           told == IF begins THEN <<f>> ELSE <<>>
           G(w) == CASE w = v -> <<first>> \o told
                     [] w \in hub.viewers -> frames[w] \o told
                     [] OTHER -> frames[w]
<1>1. LinkInv /\ CopyInv /\ Idle /\ hub \in HubType /\ RingOK(ring) /\ ring.droppedEntries \in Nat
  BY RingFields DEF MirrorInv, RingInv, Connects
<1>2. ToldOf(ring) /\ ~due.pending
  BY <1>1, IdleTold DEF Idle
<1>3. /\ stream[v] = "connecting" /\ stream' = [stream EXCEPT ![v] = "open"]
      /\ hub' = IF begins THEN begun ELSE joined
      /\ frames' = [w \in Viewers |-> G(w)]
      /\ ring' = ring /\ due' = due /\ page' = page
  BY DEF Connects
<1>4. /\ joined.viewers = hub.viewers \cup {v} /\ joined.lastDropped = ring.droppedEntries
      /\ joined.state = hub.state
      /\ begun.viewers = hub.viewers \cup {v} /\ begun.lastDropped = ring.droppedEntries
  BY <1>1 DEF HubType
<1>5. first.snapshot = {Snapshot(ring)} /\ first.state = hub.state
  BY DEF Delta
<1> HIDE DEF joined, begun, first, f
<1>6. hub'.viewers = hub.viewers \cup {v} /\ hub'.lastDropped = ring.droppedEntries
  BY <1>3, <1>4
<1>7. ASSUME NEW fs, NEW p, Follows(fs, p, ring, hub.state)
      PROVE  Follows(fs \o told, p, ring, hub'.state)
  <2>1. CASE begins
    <3>1. hub' = begun /\ told = <<f>> BY <1>3, <2>1
    <3>2. Toward(ring, ring, Nothing) BY <1>1, TowardItself
    <3>3. Follows(fs \o <<f>>, p, ring, begun.state) BY <1>1, <1>4, <1>7, <3>2, FollowsOn DEF f
    <3> QED BY <3>1, <3>3
  <2>2. CASE ~begins
    <3>1. hub' = joined /\ told = <<>> BY <1>3, <2>2
    <3>2. \E q : Leads(p, fs, q) BY <1>7 DEF Follows
    <3>3. fs \o <<>> = fs BY <3>2, LeadsOnTwice
    <3> QED BY <1>4, <1>7, <3>1, <3>3
  <2> QED BY <2>1, <2>2
<1>8. v \notin hub.viewers /\ hub.viewers \subseteq Viewers
  BY <1>1, <1>3 DEF LinkInv
<1> HIDE DEF told, begins
<1>9. /\ G(v) = <<first>> \o told
      /\ \A w : w # v /\ w \in hub.viewers => G(w) = frames[w] \o told
      /\ \A w : w # v /\ w \notin hub.viewers => G(w) = frames[w]
  BY <1>8
<1> HIDE DEF G
<1>10. ASSUME NEW w \in hub'.viewers PROVE Follows(frames'[w], page'[w], ring, hub'.state)
  <2>1. CASE w = v
    <3>1. frames'[v] = <<first>> \o told BY <1>3, <1>9
    <3>2. Follows(<<first>>, page[v], ring, hub.state) BY <1>1, <1>5, FollowsAnew
    <3> QED BY <1>3, <1>7, <2>1, <3>1, <3>2
  <2>2. CASE w # v
    <3>1. w \in hub.viewers BY <1>6, <2>2
    <3>2. frames'[w] = frames[w] \o told BY <1>3, <1>8, <1>9, <2>2, <3>1
    <3>3. Follows(frames[w], page[w], ring, hub.state) BY <1>2, <3>1 DEF ToldOf
    <3> QED BY <1>3, <1>7, <3>2, <3>3
  <2> QED BY <2>1, <2>2
<1>11. LinkInv'
  <2>1. stream = [w \in Viewers |-> stream[w]] /\ hub.viewers = {w \in Viewers : stream[w] = "open"}
    BY <1>1 DEF LinkInv
  <2>2. stream' = [w \in Viewers |-> IF w = v THEN "open" ELSE stream[w]] BY <1>3, <2>1
  <2>3. hub'.viewers = {w \in Viewers : stream'[w] = "open"} BY <1>6, <2>1, <2>2
  <2>4. \A w \in Viewers : w \notin hub'.viewers => frames'[w] = <<>>
    BY <1>1, <1>3, <1>6, <1>9 DEF LinkInv
  <2>5. frames' = [w \in Viewers |-> frames'[w]] /\ stream' = [w \in Viewers |-> stream'[w]]
    BY <1>3, <2>2
  <2> QED BY <1>1, <1>3, <2>3, <2>4, <2>5 DEF LinkInv
<1>12. ToldOf(ring)'
  BY <1>1, <1>3, <1>6, <1>10 DEF ToldOf
<1>13. CopyInv'
  BY <1>2, <1>3, <1>12 DEF CopyInv
<1> QED BY <1>11, <1>13 DEF MirrorInv

\* A frame arrives.
LEMMA MirrorReceives == ASSUME MirrorInv, NEW v \in Viewers, Receives(v) PROVE MirrorInv'
<1>1. LinkInv /\ CopyInv
  BY DEF MirrorInv
<1>2. /\ frames[v] # <<>> /\ frames' = [frames EXCEPT ![v] = Tail(@)]
      /\ page' = [page EXCEPT ![v] = Take(page[v], Head(frames[v]))]
      /\ ring' = ring /\ hub' = hub /\ due' = due /\ stream' = stream
  BY <1>1 DEF Receives, Take, LinkInv
<1>3. /\ frames = [w \in Viewers |-> frames[w]] /\ page = [w \in Viewers |-> page[w]]
      /\ hub.viewers = {w \in Viewers : stream[w] = "open"} /\ v \in hub.viewers
      /\ \A w \in Viewers : w \notin hub.viewers => frames[w] = <<>>
  BY <1>1, <1>2 DEF LinkInv
<1>4. /\ frames' = [w \in Viewers |-> IF w = v THEN Tail(frames[v]) ELSE frames[w]]
      /\ page' = [w \in Viewers |-> IF w = v THEN Take(page[v], Head(frames[v])) ELSE page[w]]
  BY <1>2, <1>3
<1>5. PICK r0 : ToldOf(r0) /\ IF due.pending THEN Change(r0, ring, due) ELSE r0 = ring
  BY <1>1 DEF CopyInv
<1>6. ASSUME NEW w \in hub.viewers PROVE Follows(frames'[w], page'[w], r0, hub'.state)
  <2>1. Follows(frames[w], page[w], r0, hub.state) /\ w \in Viewers BY <1>3, <1>5 DEF ToldOf
  <2>2. CASE w # v
    <3>1. frames'[w] = frames[w] /\ page'[w] = page[w] BY <1>4, <2>1, <2>2
    <3> QED BY <1>2, <2>1, <3>1
  <2>3. CASE w = v
    <3> DEFINE fs == frames[v]
               p == page[v]
    <3>1. frames'[w] = Tail(fs) /\ page'[w] = Take(p, Head(fs)) BY <1>4, <2>1, <2>3
    <3>2. fs # <<>> BY <1>2
    <3>3. PICK kept : Keeps(kept, r0) /\ Leads(p, fs, Copy(r0, kept, hub.state))
      BY <2>1, <2>3 DEF Follows
    <3> HIDE DEF fs, p
    <3>4. Leads(Take(p, Head(fs)), Tail(fs), Copy(r0, kept, hub.state)) BY <3>2, <3>3, LeadsFrom
    <3> QED BY <1>2, <3>1, <3>3, <3>4 DEF Follows
  <2> QED BY <2>2, <2>3
<1>7. LinkInv'
  <2>1. \A w \in Viewers : w \notin hub'.viewers => frames'[w] = <<>> BY <1>2, <1>3, <1>4
  <2>2. frames' = [w \in Viewers |-> frames'[w]] /\ page' = [w \in Viewers |-> page'[w]] BY <1>4
  <2> QED BY <1>1, <1>2, <2>1, <2>2 DEF LinkInv
<1>8. ToldOf(r0)'
  BY <1>2, <1>5, <1>6 DEF ToldOf
<1>9. CopyInv'
  BY <1>2, <1>5, <1>8 DEF CopyInv
<1> QED BY <1>7, <1>9 DEF MirrorInv

\* So does every other step.
LEMMA MirrorStream ==
  ASSUME RingInv, MirrorInv,
         \E v \in Viewers : \/ Select(v) \/ Deselect(v) \/ Reobserve(v)
                            \/ Connects(v) \/ TurnedAway(v) \/ Breaks(v) \/ Receives(v)
  PROVE  MirrorInv'
<1>1. hub.viewers = {v \in Viewers : stream[v] = "open"} /\ page = [w \in Viewers |-> page[w]]
  BY DEF MirrorInv, LinkInv
<1>2. ASSUME NEW v \in Viewers, Select(v) \/ TurnedAway(v) PROVE MirrorInv'
  <2>1. v \notin hub.viewers BY <1>1, <1>2 DEF Select, TurnedAway
  <2>2. /\ frames' = frames /\ ring' = ring /\ hub' = hub /\ due' = due
        /\ \E s \in {"connecting", "refused"} : \E p :
             stream' = [stream EXCEPT ![v] = s] /\ page' = [page EXCEPT ![v] = p]
    BY <1>2 DEF Select, TurnedAway
  <2> QED BY <2>1, <2>2, MirrorApart
<1>3. ASSUME NEW v \in Viewers, Deselect(v) \/ Reobserve(v) \/ Breaks(v) PROVE MirrorInv'
  <2>1. /\ Idle /\ ring' = ring /\ due' = due /\ hub' = Left(hub, {v})
        /\ frames' = [frames EXCEPT ![v] = <<>>]
    BY <1>3 DEF Deselect, Reobserve, Breaks
  <2>2. \E s \in {"connecting", "off"} : \E p :
          stream' = [stream EXCEPT ![v] = s] /\ page' = [page EXCEPT ![v] = p]
    <3>1. CASE Deselect(v) \/ Reobserve(v) BY <3>1 DEF Deselect, Reobserve
    <3>2. CASE Breaks(v)
      <4> DEFINE p == [page[v] EXCEPT !.observe = "error"]
      <4>1. page' = [page EXCEPT ![v] = p] BY <1>1, <3>2 DEF Breaks
      <4> HIDE DEF p
      <4> QED BY <3>2, <4>1 DEF Breaks
    <3> QED BY <1>3, <3>1, <3>2
  <2> QED BY <2>1, <2>2, MirrorLeaves
<1> QED BY <1>2, <1>3, MirrorConnects, MirrorReceives

\* The invariant of the pages holds in the beginning.
LEMMA MirrorStart == ASSUME Init PROVE MirrorInv
<1>1. /\ hub.viewers = {} /\ frames = [v \in Viewers |-> <<>>] /\ stream = [v \in Viewers |-> "off"]
      /\ due = NotDue
  BY DEF Init, FreshHub
<1>2. LinkInv
  BY <1>1 DEF LinkInv, Init, Shaped, NotDue
<1>3. ToldOf(ring)
  BY <1>1, RingStart DEF ToldOf, RingInv
<1>4. CopyInv
  BY <1>1, <1>3 DEF CopyInv, NotDue
<1> QED BY <1>2, <1>4 DEF MirrorInv

\* With all that is under way every page becomes the ring as it was told last.
\* The ceiling on lines (config.ts) is at least what one read may bring, or else
\* the first read is evicted before it is told; and no answer is handled together
\* with another.
THEOREM MirrorInvariant ==
  ASSUME ~Chunked, \A n \in Reads : n <= MaxLines
  PROVE  Spec => []MirrorInv
<1>1. Init => MirrorInv
  BY MirrorStart
<1>2. RingInv /\ RingInv' /\ MirrorInv /\ [Next]_vars => MirrorInv'
  <2> SUFFICES ASSUME RingInv, RingInv', MirrorInv, [Next]_vars PROVE MirrorInv' OBVIOUS
  <2>1. CASE UNCHANGED vars
    BY <2>1 DEF vars, MirrorInv, LinkInv, CopyInv, ToldOf
  <2>2. CASE Next
    <3>1. Pull \/ Tells \/ ((\E n \in Turns : RecordUserTurn(n)) \/ RecordControl)
          \/ (Polls \/ Stops \/ \E s \in Failures : Fails(s))
          \/ \E v \in Viewers : \/ Select(v) \/ Deselect(v) \/ Reobserve(v)
                                \/ Connects(v) \/ TurnedAway(v) \/ Breaks(v) \/ Receives(v)
      BY <2>2 DEF Next
    <3> QED BY <3>1, MirrorPull, MirrorTells, MirrorRecord, MirrorStates, MirrorStream
  <2> QED BY <2>1, <2>2
<1> QED BY <1>1, <1>2, RingInvariant, PTL DEF Spec

\* A page (app.js) that has had every frame keeps exactly the ring of the hub,
\* shows it as it is now, in exactly its turns and in their order, tells how much
\* was dropped, and tells the state of the hub.
THEOREM PagesAreExact ==
  ASSUME ~Chunked, \A n \in Reads : n <= MaxLines
  PROVE  Spec => []MirrorExact
<1>1. RingInv /\ MirrorInv => MirrorExact
  <2> SUFFICES ASSUME RingInv, MirrorInv, NEW v \in Viewers, UpToDate(v)
               PROVE  /\ Mirrored(page[v]) = ring.entries
                      /\ page[v].shown = Projected(ring.entries)
                      /\ page[v].articles = Articles(ring.entries)
                      /\ page[v].marker = IF ring.droppedEntries > 0 THEN {ring.droppedLines} ELSE {}
                      /\ page[v].observe = hub.state
    BY DEF MirrorExact
  <2>1. v \in hub.viewers /\ frames[v] = <<>> /\ ~due.pending
    BY DEF UpToDate, MirrorInv, LinkInv
  <2>2. Follows(<<>>, page[v], ring, hub.state)
    BY <2>1 DEF MirrorInv, CopyInv, ToldOf
  <2>3. PICK kept : Keeps(kept, ring) /\ page[v] = Copy(ring, kept, hub.state)
    BY <2>2, LeadsNowhere DEF Follows
  <2> DEFINE p == page[v]
  <2>4. /\ p.order = Ids(ring.entries) /\ p.byId = kept /\ p.articles = Articles(ring.entries)
        /\ p.shown = Projected(ring.entries) /\ p.marker = Marker(ring) /\ p.observe = hub.state
    BY <2>3, PageIs DEF Copy
  <2>5. RingOK(ring) BY DEF RingInv
  <2> HIDE DEF p
  <2>6. Mirrored(p) = ring.entries BY <2>3, <2>4, <2>5, MirroredIs
  <2> QED BY <2>4, <2>6 DEF p, Marker
<1> QED BY <1>1, RingInvariant, MirrorInvariant, PTL
=============================================================================
