---------------------------- MODULE KernelLemmas ----------------------------
(***************************************************************************)
(* Facts about the data structures that the kernel's modules share: the    *)
(* selection functions of SchedTable, for every table, and the rings of    *)
(* Ring, for every size.                                                   *)
(***************************************************************************)
EXTENDS SchedTable, Ring, SequenceTheorems, WellFoundedInduction, TLAPS


\* A nonempty set of naturals has a least member.
LEMMA LeastNatural ==
  ASSUME NEW S, S # {}, S \subseteq Nat
  PROVE  \E n \in S : \A m \in S : n <= m
<1> DEFINE R == OpToRel(<, Nat)
<1>1. IsWellFoundedOn(R, Nat)
  BY NatLessThanWellFounded, Zenon
<1>2. PICK n \in S : \A m \in S : ~(<<m, n>> \in R)
  <2> HIDE DEF R
  <2>1. QED BY <1>1, WFMin, Zenon
<1>3. \A x, y \in Nat : x < y => <<x, y>> \in R
  BY DEF OpToRel
<1>4. \A m \in S : ~(m < n)
  <2> HIDE DEF R
  <2>1. QED BY <1>2, <1>3
<1>5. QED BY <1>4

\* A nonempty set has a member with the least rank, if ranks are naturals.
LEMMA LeastExists ==
  ASSUME NEW S, S # {}, NEW f, \A x \in S : f[x] \in Nat
  PROVE  \E x \in S : \A y \in S : f[x] <= f[y]
<1> DEFINE Ranks == {f[x] : x \in S}
<1>1. Ranks # {} /\ Ranks \subseteq Nat
  OBVIOUS
<1>2. \E n \in Ranks : \A m \in Ranks : n <= m
  <2> HIDE DEF Ranks
  <2>1. QED BY <1>1, LeastNatural
<1>3. QED BY <1>2

\* The threads of the best priority exist if there is a candidate at all.
LEMMA BestOfNonempty ==
  ASSUME NEW S, S # {}, NEW prio, \A i \in S : prio[i] \in Nat
  PROVE  BestOf(prio, S) # {} /\ BestOf(prio, S) \subseteq S
BY LeastExists DEF BestOf

\* The scan meets some member of a nonempty set first.
LEMMA FirstAfterMember ==
  ASSUME NEW n \in Nat, NEW from \in 0 .. n-1,
         NEW S, S # {}, S \subseteq 0 .. n-1
  PROVE  /\ FirstAfter(S, from, n) \in S
         /\ \A j \in S : ScanRank(FirstAfter(S, from, n), from, n) <= ScanRank(j, from, n)
<1> DEFINE f == [i \in S |-> ScanRank(i, from, n)]
<1>1. \A i \in S : f[i] \in Nat /\ f[i] = ScanRank(i, from, n)
  BY DEF ScanRank
<1>2. \E i \in S : \A j \in S : f[i] <= f[j]
  <2> HIDE DEF f
  <2>1. QED BY <1>1, LeastExists
<1>3. \E i \in S : \A j \in S : ScanRank(i, from, n) <= ScanRank(j, from, n)
  BY <1>1, <1>2
<1>4. QED BY <1>3 DEF FirstAfter

\* pick_next() answers NO_THREAD exactly when the partition has no runnable
\* thread, and otherwise one of its runnable threads of the best priority: the
\* first of them in the circular order after the current thread.
THEOREM PickNextIsBest ==
  ASSUME NEW n \in Nat, NEW from \in 0 .. n-1, NEW c,
         NEW state, NEW core, NEW prio, \A i \in 0 .. n-1 : prio[i] \in Nat
  PROVE  LET S == Candidates(state, core, n, c)
             next == PickNext(state, prio, core, n, c, from)
         IN  /\ next = NoThread <=> S = {}
             /\ next # NoThread =>
                  /\ next \in BestOf(prio, S)
                  /\ \A j \in BestOf(prio, S) \ {next} : ScanRank(next, from, n) < ScanRank(j, from, n)
<1> DEFINE S == Candidates(state, core, n, c)
<1>1. S \subseteq 0 .. n-1
  BY DEF Candidates
<1>2. CASE S = {}
  BY <1>2 DEF PickNext, BestOf, NoThread
<1>3. CASE S # {}
  <2>1. BestOf(prio, S) # {} /\ BestOf(prio, S) \subseteq S
    <3> HIDE DEF S
    <3>1. QED BY <1>1, <1>3, BestOfNonempty
  <2> DEFINE first == FirstAfter(BestOf(prio, S), from, n)
  <2>2. first \in BestOf(prio, S) /\ \A j \in BestOf(prio, S) : ScanRank(first, from, n) <= ScanRank(j, from, n)
    <3> HIDE DEF S
    <3>1. QED BY <1>1, <2>1, FirstAfterMember
  <2> HIDE DEF first
  <2>3. first \in 0 .. n-1 /\ first # NoThread
    BY <1>1, <2>1, <2>2 DEF NoThread
  <2>4. PickNext(state, prio, core, n, c, from) = first
    BY <2>1 DEF PickNext, first
  <2>5. ASSUME NEW j \in BestOf(prio, S) \ {first}
        PROVE  ScanRank(first, from, n) < ScanRank(j, from, n)
    <3>1. j \in 0 .. n-1 /\ ScanRank(first, from, n) <= ScanRank(j, from, n)
      BY <1>1, <2>1, <2>2
    <3>2. ScanRank(first, from, n) # ScanRank(j, from, n)
      <4> HIDE DEF S
      <4>1. QED BY <2>3, <2>5, <3>1 DEF ScanRank
    <3>3. ScanRank(first, from, n) \in Int /\ ScanRank(j, from, n) \in Int
      BY <2>3, <3>1 DEF ScanRank
    <3>4. QED BY <3>1, <3>2, <3>3
  <2>6. QED BY <1>3, <2>2, <2>3, <2>4, <2>5
<1>4. QED BY <1>2, <1>3

\* Among the best threads pick_next() takes the one its scan meets first, and
\* whoever is the first of the best is its answer.
LEMMA PickNextIsFirst ==
  ASSUME NEW n \in Nat, NEW from \in 0 .. n-1, NEW c,
         NEW state, NEW core, NEW prio, \A i \in 0 .. n-1 : prio[i] \in Nat,
         NEW t \in BestOf(prio, Candidates(state, core, n, c))
  PROVE  LET best == BestOf(prio, Candidates(state, core, n, c))
             next == PickNext(state, prio, core, n, c, from)
         IN  /\ next \in best
             /\ ScanRank(next, from, n) <= ScanRank(t, from, n)
             /\ (\A j \in best : ScanRank(t, from, n) <= ScanRank(j, from, n)) => t = next
<1> DEFINE best == BestOf(prio, Candidates(state, core, n, c))
           next == FirstAfter(best, from, n)
<1>1. best \subseteq 0 .. n-1 /\ t \in best
  BY DEF BestOf, Candidates
<1>2. PickNext(state, prio, core, n, c, from) = next
  BY <1>1 DEF PickNext
<1> HIDE DEF best
<1>3. next \in best /\ \A j \in best : ScanRank(next, from, n) <= ScanRank(j, from, n)
  BY <1>1, FirstAfterMember
<1>4. ASSUME \A j \in best : ScanRank(t, from, n) <= ScanRank(j, from, n) PROVE t = next
  <2>1. ScanRank(t, from, n) <= ScanRank(next, from, n) /\ ScanRank(next, from, n) <= ScanRank(t, from, n)
    BY <1>1, <1>3, <1>4
  <2>2. t \in 0 .. n-1 /\ next \in 0 .. n-1
    BY <1>1, <1>3
  <2> HIDE DEF next
  <2>3. QED BY <2>1, <2>2 DEF ScanRank
<1>5. QED BY <1>1, <1>2, <1>3, <1>4 DEF best

\* sched_start() takes a READY thread of its partition, or none.
LEMMA PickFirstMember ==
  ASSUME NEW n \in Nat, NEW c,
         NEW state, NEW core, NEW prio, \A i \in 0 .. n-1 : prio[i] \in Nat,
         PickFirst(state, prio, core, n, c) # NoThread
  PROVE  LET first == PickFirst(state, prio, core, n, c)
         IN  first \in 0 .. n-1 /\ core[first] = c /\ state[first] = "READY"
<1> DEFINE S == {i \in 0 .. n-1 : core[i] = c /\ state[i] = "READY"}
           best == BestOf(prio, S)
<1>1. best \subseteq S /\ S \subseteq 0 .. n-1
  BY DEF BestOf
<1>2. best # {}
  BY DEF PickFirst
<1>3. PickFirst(state, prio, core, n, c) = CHOOSE i \in best : \A j \in best : i <= j
  BY <1>2 DEF PickFirst
<1>4. \E i \in best : \A j \in best : i <= j
  <2>1. best \subseteq Nat
    BY <1>1
  <2> HIDE DEF best
  <2>2. QED BY <1>2, <2>1, LeastNatural
<1>5. PickFirst(state, prio, core, n, c) \in best
  <2> HIDE DEF best
  <2>1. QED BY <1>3, <1>4
<1>6. QED BY <1>1, <1>5

\* It finds one if the partition has a READY thread.
LEMMA PickFirstFinds ==
  ASSUME NEW n \in Nat, NEW c,
         NEW state, NEW core, NEW prio, \A i \in 0 .. n-1 : prio[i] \in Nat,
         \E i \in 0 .. n-1 : core[i] = c /\ state[i] = "READY"
  PROVE  PickFirst(state, prio, core, n, c) # NoThread
<1> DEFINE S == {i \in 0 .. n-1 : core[i] = c /\ state[i] = "READY"}
           best == BestOf(prio, S)
<1>1. best # {} /\ best \subseteq Nat
  <2>1. S # {} /\ S \subseteq 0 .. n-1 /\ \A i \in S : prio[i] \in Nat
    OBVIOUS
  <2> HIDE DEF S
  <2>2. best # {} /\ best \subseteq S
    BY <2>1, BestOfNonempty
  <2> HIDE DEF best
  <2>3. QED BY <2>1, <2>2
<1>2. \E i \in best : \A j \in best : i <= j
  <2> HIDE DEF best
  <2>1. QED BY <1>1, LeastNatural
<1>3. PickFirst(state, prio, core, n, c) = CHOOSE i \in best : \A j \in best : i <= j
  BY <1>1 DEF PickFirst
<1>4. PickFirst(state, prio, core, n, c) \in Nat
  <2> HIDE DEF best
  <2>1. QED BY <1>1, <1>2, <1>3
<1>5. QED BY <1>4 DEF NoThread

-----------------------------------------------------------------------------
\* Arithmetic of a ring.

LEMMA Reduced ==
  ASSUME NEW n \in Nat \ {0}, NEW x \in 0 .. n-1
  PROVE  x % n = x /\ (x + n) % n = x
BY SMT

LEMMA RingMod ==
  ASSUME NEW n \in Nat \ {0}, NEW x \in 0 .. 2*n-1
  PROVE  (x < n => x % n = x) /\ (x >= n => x % n = x - n)
<1>1. CASE x < n
  BY <1>1, Reduced
<1>2. CASE x >= n
  <2>1. x - n \in 0 .. n-1 /\ (x - n) + n = x
    BY <1>2
  <2>2. ((x - n) + n) % n = x - n
    BY <2>1, Reduced
  <2>3. QED BY <1>2, <2>1, <2>2
<1>3. QED BY <1>1, <1>2

LEMMA RingNextFacts ==
  ASSUME NEW n \in Nat \ {0, 1}, NEW i \in 0 .. n-1
  PROVE  /\ RingNext(i, n) \in 0 .. n-1
         /\ i = n-1 => RingNext(i, n) = 0
         /\ i < n-1 => RingNext(i, n) = i + 1
         /\ (RingNext(i, n) + n - 1) % n = i
<1> DEFINE x == i + 1
           y == RingNext(i, n)
           z == y + n - 1
<1>1. x \in 0 .. 2*n-1
  OBVIOUS
<1>2. (x < n => x % n = x) /\ (x >= n => x % n = x - n)
  <2> HIDE DEF x
  <2>1. QED BY <1>1, RingMod
<1>3. y = x % n
  BY Zenon DEF RingNext
<1>4. y \in 0 .. n-1 /\ (i = n-1 => y = 0) /\ (i < n-1 => y = i + 1)
  <2> HIDE DEF y
  <2>1. QED BY <1>2, <1>3
<1>5. z \in 0 .. 2*n-1
  <2> HIDE DEF y
  <2>1. QED BY <1>4
<1>6. (z < n => z % n = z) /\ (z >= n => z % n = z - n)
  <2> HIDE DEF z
  <2>1. QED BY <1>5, RingMod
<1>7. z % n = i
  <2> HIDE DEF y
  <2>1. QED BY <1>4, <1>6
<1>8. QED BY <1>4, <1>7

LEMMA RingLengthFacts ==
  ASSUME NEW n \in Nat \ {0, 1}, NEW h \in 0 .. n-1, NEW t \in 0 .. n-1
  PROVE  /\ RingLength(h, t, n) \in 0 .. n-1
         /\ t <= h => RingLength(h, t, n) = h - t
         /\ t > h => RingLength(h, t, n) = h + n - t
<1> DEFINE x == h + n - t
           y == RingLength(h, t, n)
<1>1. x \in 0 .. 2*n-1
  OBVIOUS
<1>2. (x < n => x % n = x) /\ (x >= n => x % n = x - n)
  <2> HIDE DEF x
  <2>1. QED BY <1>1, RingMod
<1>3. y = x % n
  BY Zenon DEF RingLength
<1> HIDE DEF y
<1>4. QED BY <1>2, <1>3 DEF y

LEMMA RingPlaceFacts ==
  ASSUME NEW n \in Nat \ {0, 1}, NEW t \in 0 .. n-1, NEW i \in 1 .. n
  PROVE  /\ RingPlace(t, i, n) \in 0 .. n-1
         /\ t + i - 1 < n => RingPlace(t, i, n) = t + i - 1
         /\ t + i - 1 >= n => RingPlace(t, i, n) = t + i - 1 - n
<1> DEFINE x == t + i - 1
           y == RingPlace(t, i, n)
<1>1. x \in 0 .. 2*n-1
  OBVIOUS
<1>2. (x < n => x % n = x) /\ (x >= n => x % n = x - n)
  <2> HIDE DEF x
  <2>1. QED BY <1>1, RingMod
<1>3. y = x % n
  BY Zenon DEF RingPlace
<1> HIDE DEF y
<1>4. QED BY <1>2, <1>3 DEF y

\* The contents are a sequence, and the slot at the head is not among them.
LEMMA RingContentsFacts ==
  ASSUME NEW n \in Nat \ {0, 1}, NEW h \in 0 .. n-1, NEW t \in 0 .. n-1,
         NEW S, NEW b \in [0 .. n-1 -> S]
  PROVE  /\ RingContents(h, t, b, n) \in Seq(S)
         /\ Len(RingContents(h, t, b, n)) = RingLength(h, t, n)
         /\ \A i \in 1 .. RingLength(h, t, n) :
              /\ RingPlace(t, i, n) \in 0 .. n-1 /\ RingPlace(t, i, n) # h
              /\ RingContents(h, t, b, n)[i] = b[RingPlace(t, i, n)]
<1> DEFINE k == RingLength(h, t, n)
<1>1. k \in 0 .. n-1 /\ (t <= h => k = h - t) /\ (t > h => k = h + n - t)
  BY RingLengthFacts
<1>2. ASSUME NEW i \in 1 .. k
      PROVE  RingPlace(t, i, n) \in 0 .. n-1 /\ RingPlace(t, i, n) # h
  <2> HIDE DEF k
  <2>1. i \in 1 .. n
    BY <1>1
  <2>2. /\ RingPlace(t, i, n) \in 0 .. n-1
        /\ t + i - 1 < n => RingPlace(t, i, n) = t + i - 1
        /\ t + i - 1 >= n => RingPlace(t, i, n) = t + i - 1 - n
    BY <2>1, RingPlaceFacts
  <2>3. QED BY <1>1, <2>2
<1>3. RingContents(h, t, b, n) \in [1 .. k -> S]
  BY <1>2 DEF RingContents
<1>4. \A i \in 1 .. k : RingContents(h, t, b, n)[i] = b[RingPlace(t, i, n)]
  BY DEF RingContents
<1>5. QED BY <1>1, <1>2, <1>3, <1>4

\* What is written at the head does not touch the contents.
LEMMA RingWrite ==
  ASSUME NEW n \in Nat \ {0, 1}, NEW h \in 0 .. n-1, NEW t \in 0 .. n-1,
         NEW S, NEW b \in [0 .. n-1 -> S], NEW m
  PROVE  RingContents(h, t, [b EXCEPT ![h] = m], n) = RingContents(h, t, b, n)
<1>1. \A i \in 1 .. RingLength(h, t, n) :
        [b EXCEPT ![h] = m][RingPlace(t, i, n)] = b[RingPlace(t, i, n)]
  BY RingContentsFacts
<1>2. QED BY <1>1 DEF RingContents

\* Moving the head appends the message in its slot, if there is room.
LEMMA RingAppend ==
  ASSUME NEW n \in Nat \ {0, 1}, NEW h \in 0 .. n-1, NEW t \in 0 .. n-1,
         NEW S, NEW b \in [0 .. n-1 -> S], RingNext(h, n) # t
  PROVE  /\ RingContents(RingNext(h, n), t, b, n) = Append(RingContents(h, t, b, n), b[h])
         /\ Len(RingContents(h, t, b, n)) < n-1
<1> DEFINE k == RingLength(h, t, n)
           g == RingNext(h, n)
           j == RingLength(g, t, n)
           q == RingContents(h, t, b, n)
           r == RingContents(g, t, b, n)
<1>1. g \in 0 .. n-1 /\ (h = n-1 => g = 0) /\ (h < n-1 => g = h + 1)
  BY RingNextFacts
<1>2. /\ k \in 0 .. n-1 /\ (t <= h => k = h - t) /\ (t > h => k = h + n - t)
  BY RingLengthFacts
<1>3. j = k + 1 /\ k < n-1
  <2> HIDE DEF g
  <2>1. (t <= g => j = g - t) /\ (t > g => j = g + n - t)
    BY <1>1, RingLengthFacts
  <2> HIDE DEF k, j
  <2>2. QED BY <1>1, <1>2, <2>1 DEF g
<1>4. RingPlace(t, k+1, n) = h
  <2> HIDE DEF k
  <2>1. k+1 \in 1 .. n
    BY <1>2
  <2>2. /\ t + (k+1) - 1 < n => RingPlace(t, k+1, n) = t + (k+1) - 1
        /\ t + (k+1) - 1 >= n => RingPlace(t, k+1, n) = t + (k+1) - 1 - n
    BY <2>1, RingPlaceFacts
  <2>3. QED BY <1>2, <2>2
<1>5. /\ q \in Seq(S) /\ Len(q) = k
      /\ \A i \in 1 .. k : q[i] = b[RingPlace(t, i, n)]
  <2>1. q \in Seq(S) /\ Len(q) = k
    BY RingContentsFacts
  <2>2. ASSUME NEW i \in 1 .. k PROVE q[i] = b[RingPlace(t, i, n)]
    BY DEF RingContents
  <2>3. QED BY <2>1, <2>2
<1>6. /\ r \in Seq(S) /\ Len(r) = k + 1
      /\ \A i \in 1 .. k+1 : r[i] = b[RingPlace(t, i, n)]
  <2> HIDE DEF g
  <2>1. /\ r \in Seq(S) /\ Len(r) = j
        /\ \A i \in 1 .. j : r[i] = b[RingPlace(t, i, n)]
    BY <1>1, RingContentsFacts
  <2>2. QED BY <1>3, <2>1
<1> HIDE DEF k, g, j, q, r
<1>7. /\ Append(q, b[h]) \in Seq(S) /\ Len(Append(q, b[h])) = k + 1
      /\ Append(q, b[h])[k+1] = b[h]
      /\ \A i \in 1 .. k : Append(q, b[h])[i] = q[i]
  <2>1. b[h] \in S
    OBVIOUS
  <2>2. QED BY <1>2, <1>5, <2>1, AppendProperties
<1>8. ASSUME NEW i \in 1 .. k+1 PROVE r[i] = Append(q, b[h])[i]
  <2>1. CASE i = k+1
    BY <1>2, <1>4, <1>6, <1>7, <2>1
  <2>2. CASE i # k+1
    BY <1>2, <1>5, <1>6, <1>7, <2>2
  <2>3. QED BY <2>1, <2>2
<1>9. r = Append(q, b[h])
  BY <1>6, <1>7, <1>8, SeqEqual
<1>10. QED BY <1>3, <1>5, <1>9 DEF k, g, q, r

\* Moving the tail takes the oldest message away.
LEMMA RingTail ==
  ASSUME NEW n \in Nat \ {0, 1}, NEW h \in 0 .. n-1, NEW t \in 0 .. n-1,
         NEW S, NEW b \in [0 .. n-1 -> S], t # h
  PROVE  /\ RingContents(h, t, b, n) # <<>>
         /\ RingContents(h, RingNext(t, n), b, n) = Tail(RingContents(h, t, b, n))
<1> DEFINE k == RingLength(h, t, n)
           g == RingNext(t, n)
           j == RingLength(h, g, n)
           q == RingContents(h, t, b, n)
           r == RingContents(h, g, b, n)
<1>1. g \in 0 .. n-1 /\ (t = n-1 => g = 0) /\ (t < n-1 => g = t + 1)
  BY RingNextFacts
<1>2. /\ k \in 0 .. n-1 /\ (t <= h => k = h - t) /\ (t > h => k = h + n - t)
  BY RingLengthFacts
<1>3. j = k - 1 /\ k > 0
  <2> HIDE DEF g
  <2>1. (g <= h => j = h - g) /\ (g > h => j = h + n - g)
    BY <1>1, RingLengthFacts
  <2> HIDE DEF k, j
  <2>2. QED BY <1>1, <1>2, <2>1
<1>4. ASSUME NEW i \in 1 .. k-1 PROVE RingPlace(g, i, n) = RingPlace(t, i+1, n)
  <2> HIDE DEF k, g
  <2>1. i \in 1 .. n /\ i+1 \in 1 .. n
    BY <1>2
  <2>2. /\ t + (i+1) - 1 < n => RingPlace(t, i+1, n) = t + (i+1) - 1
        /\ t + (i+1) - 1 >= n => RingPlace(t, i+1, n) = t + (i+1) - 1 - n
    BY <2>1, RingPlaceFacts
  <2>3. /\ g + i - 1 < n => RingPlace(g, i, n) = g + i - 1
        /\ g + i - 1 >= n => RingPlace(g, i, n) = g + i - 1 - n
    BY <1>1, <2>1, RingPlaceFacts
  <2>4. QED BY <1>1, <1>2, <2>1, <2>2, <2>3
<1>5. /\ q \in Seq(S) /\ Len(q) = k
      /\ \A i \in 1 .. k : q[i] = b[RingPlace(t, i, n)]
  BY RingContentsFacts
<1>6. /\ r \in Seq(S) /\ Len(r) = k - 1
      /\ \A i \in 1 .. k-1 : r[i] = b[RingPlace(g, i, n)]
  <2> HIDE DEF g
  <2>1. /\ r \in Seq(S) /\ Len(r) = j
        /\ \A i \in 1 .. j : r[i] = b[RingPlace(g, i, n)]
    BY <1>1, RingContentsFacts
  <2>2. QED BY <1>3, <2>1
<1> HIDE DEF k, g, q, r
<1>7. q # <<>>
  BY <1>3, <1>5
<1>8. /\ Tail(q) \in Seq(S) /\ Len(Tail(q)) = k - 1
      /\ \A i \in 1 .. k-1 : Tail(q)[i] = q[i+1]
  BY <1>5, <1>7, HeadTailProperties
<1>9. ASSUME NEW i \in 1 .. k-1 PROVE r[i] = Tail(q)[i]
  <2>1. i+1 \in 1 .. k
    BY <1>2
  <2>2. QED BY <1>4, <1>5, <1>6, <1>8, <2>1
<1>10. r = Tail(q)
  BY <1>6, <1>8, <1>9, SeqEqual
<1>11. QED BY <1>7, <1>10 DEF g, q, r

\* A ring without room holds n-1 messages.
LEMMA RingFull ==
  ASSUME NEW n \in Nat \ {0, 1}, NEW h \in 0 .. n-1, NEW t \in 0 .. n-1,
         NEW S, NEW b \in [0 .. n-1 -> S], RingNext(h, n) = t
  PROVE  Len(RingContents(h, t, b, n)) = n-1
<1>1. (h = n-1 => t = 0) /\ (h < n-1 => t = h + 1)
  BY RingNextFacts
<1>2. (t <= h => RingLength(h, t, n) = h - t) /\ (t > h => RingLength(h, t, n) = h + n - t)
  BY RingLengthFacts
<1>3. RingLength(h, t, n) = n-1
  BY <1>1, <1>2
<1>4. QED BY <1>3, RingContentsFacts

=============================================================================
