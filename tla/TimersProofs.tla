----------------------------- MODULE TimersProofs -----------------------------
(***************************************************************************)
(* Timers for every set of timers and of threads, with any clock bound,    *)
(* intervals and operations: the types, the soundness of MainLoop's list,  *)
(* the bound on epoll_wait(), what remains of a destroyed timer, and the   *)
(* contract.                                                               *)
(*                                                                         *)
(* The inductive invariant says who may touch a timer.  Among the threads  *)
(* that operate on it that is the holder of its mControlLock, or its owner *)
(* alone once the destructor runs; between them and the loop mState        *)
(* decides: Executing and RequeuePending are the loop's, the others theirs.*)
(***************************************************************************)
EXTENDS Timers, FiniteSetTheorems, SequenceTheorems, WellFoundedInduction, TLAPS

\* Where an operation holds the mControlLock, and where a destructor is.
HoldLabels == OpLabels \ {"restart", "control"}

DestroyLabels == {"load", "flag", "check", "block", "blocked", "remove"}

\* Where the loop is while its timer is Executing and RequeuePending.
ExecutingLabels ==
  {"clear", "execute", "callback", "called", "decide", "pend"} \cup OpLabels

PendingLabels == {"pend_cast", "requeue", "recheck", "queue_store"}

Destroying(t) == call[t].op = "destroy"

\* Thread t may change what belongs to its target.
Holding(t) == pc[t] \in HoldLabels

ThreadsOK ==
  /\ pc[Loop] # "idle"
  /\ \A t \in Controllers : pc[t] \in OpLabels \cup {"idle"}

\* An operation is on a live timer; it owns the mControlLock or destroys.
CallOK(t) ==
  pc[t] \in OpLabels =>
    /\ call[t].op \in ControlOps
    /\ Target(t) \notin dead
    /\ Destroying(t) => pc[t] \in DestroyLabels
    /\ Holding(t) /\ ~Destroying(t) => control[Target(t)] = t

CallsOK == \A t \in Threads : CallOK(t)

\* The owner who destroys a timer is alone with it.
DestroysAlone ==
  \A t, u \in Threads :
    pc[t] \in OpLabels /\ Destroying(t) /\ Using(u, Target(t)) => u = t

\* What a thread knows about its target.
TargetOK(t) ==
  /\ pc[t] \in {"remove", "schedule"} => mState[Target(t)] = "Stopped"
  /\ pc[t] = "add" => mState[Target(t)] = "Queued" /\ ~Listed(Target(t))

TargetsOK == \A t \in Threads : TargetOK(t)

\* What the loop knows about its timer, and that it has one at most.
LoopOK ==
  /\ pc[Loop] \in ExecutingLabels => mState[current] = "Executing"
  /\ pc[Loop] \in PendingLabels => mState[current] = "RequeuePending"
  /\ pc[Loop] = "stop_store" => Busy(current)
  /\ pc[Loop] \in {"recheck", "queue_store"} => Listed(current)
  /\ \A i \in Timers : Busy(i) => Owns(i)

\* The list: sorted, no duplicates, ...
Sorted(s) ==
  \A k, l \in DOMAIN s : k <= l => mExpiry[s[k]] <= mExpiry[s[l]]

Distinct(s) == \A k, l \in DOMAIN s : s[k] = s[l] => k = l

\* ... and what is in it.
QueuedIsListed ==
  \A i \in Timers :
    mState[i] = "Queued" =>
      Listed(i) \/ \E t \in Threads : pc[t] = "add" /\ Target(t) = i

ListedIsQueued ==
  \A i \in Timers :
    Listed(i) =>
      \/ mState[i] = "Queued"
      \/ current = i /\ pc[Loop] \in {"recheck", "queue_store"}
      \/ \E t \in Threads : pc[t] = "remove" /\ Target(t) = i

ListOK == Sorted(mTimers) /\ Distinct(mTimers)

DeadOK == \A i \in dead : mState[i] = "Stopped"

\* The inductive invariant: who may do what, and the state of the timers.
Rights == ThreadsOK /\ CallsOK /\ DestroysAlone

States ==
  /\ TargetsOK /\ LoopOK /\ ListOK /\ QueuedIsListed /\ ListedIsQueued
  /\ DeadOK /\ NoOversleep

TimersIInv == TypeOK /\ Rights /\ States

-------------------------------------------------------------------------------
(* Operators on the list *)

\* A set of naturals with an element has a least one, which Min finds.
LEMMA MinOfNaturals ==
  ASSUME NEW S \in SUBSET Nat, S # {}
  PROVE  Min(S) \in S /\ \A n \in S : Min(S) <= n
  <1>1. PICK m \in S : \A n \in S : ~(<<n, m>> \in OpToRel(<, Nat))
    BY NatLessThanWellFounded, WFMin
  <1>2. \A n, k \in Nat : n < k => <<n, k>> \in OpToRel(<, Nat)
    BY ZenonT(20) DEF OpToRel
  <1>3. \A n \in S : ~(n < m)
    BY <1>1, <1>2, Zenon
  <1>4. \A n \in S : m <= n
    BY <1>3
  <1> QED
    BY <1>4 DEF Min

\* The elements of a sequence in which one was inserted, ...
LEMMA InsertAtElements ==
  ASSUME NEW T, NEW s \in Seq(T), NEW e \in T, NEW k \in 1 .. Len(s) + 1
  PROVE  /\ InsertAt(s, k, e) \in Seq(T)
         /\ Len(InsertAt(s, k, e)) = Len(s) + 1
         /\ \A n \in 1 .. Len(s) + 1 :
              InsertAt(s, k, e)[n] = IF n < k THEN s[n]
                                     ELSE IF n = k THEN e ELSE s[n - 1]
  <1> DEFINE a == SubSeq(s, 1, k - 1)
             b == SubSeq(s, k, Len(s))
  <1>1. Len(s) \in Nat /\ k \in Nat
    OBVIOUS
  <1>2. /\ a \in Seq(T) /\ Len(a) = k - 1
        /\ \A n \in 1 .. k - 1 : a[n] = s[n]
    BY <1>1
  <1>3. /\ b \in Seq(T) /\ Len(b) = Len(s) + 1 - k
        /\ \A n \in 1 .. Len(s) + 1 - k : b[n] = s[k + n - 1]
    BY <1>1
  <1> HIDE DEF a, b
  <1>4. /\ a \o <<e>> \in Seq(T) /\ Len(a \o <<e>>) = k
        /\ \A n \in 1 .. k : (a \o <<e>>)[n] = IF n < k THEN s[n] ELSE e
    BY <1>1, <1>2
  <1> DEFINE c == a \o <<e>>
  <1> HIDE DEF c
  <1>5. /\ c \in Seq(T) /\ Len(c) = k
        /\ \A n \in 1 .. k : c[n] = IF n < k THEN s[n] ELSE e
    BY <1>4 DEF c
  <1>6. /\ c \o b \in Seq(T) /\ Len(c \o b) = Len(s) + 1
        /\ \A n \in 1 .. Len(s) + 1 : (c \o b)[n] = IF n <= k THEN c[n] ELSE b[n - k]
    <2>1. /\ c \o b \in Seq(T) /\ Len(c \o b) = Len(c) + Len(b)
          /\ \A n \in 1 .. Len(c) + Len(b) :
               (c \o b)[n] = IF n <= Len(c) THEN c[n] ELSE b[n - Len(c)]
      BY <1>3, <1>5, ConcatProperties, Zenon
    <2>2. Len(c) + Len(b) = Len(s) + 1 /\ Len(c) = k
      BY <1>1, <1>3, <1>5
    <2> QED
      BY <2>1, <2>2, Zenon
  <1>7. InsertAt(s, k, e) = c \o b
    BY DEF InsertAt, a, b, c
  <1>8. \A n \in 1 .. Len(s) + 1 :
          n > k => n - k \in 1 .. Len(s) + 1 - k /\ k + (n - k) - 1 = n - 1
    BY <1>1
  <1>9. \A n \in 1 .. Len(s) + 1 : n > k => b[n - k] = s[n - 1]
    BY <1>1, <1>3, <1>8
  <1> QED
    BY <1>1, <1>5, <1>6, <1>7, <1>9

\* ... and of one from which one was removed.
LEMMA RemoveAtElements ==
  ASSUME NEW T, NEW s \in Seq(T), NEW k \in 1 .. Len(s)
  PROVE  /\ RemoveAt(s, k) \in Seq(T)
         /\ Len(RemoveAt(s, k)) = Len(s) - 1
         /\ \A n \in 1 .. Len(s) - 1 :
              RemoveAt(s, k)[n] = IF n < k THEN s[n] ELSE s[n + 1]
  <1> DEFINE a == SubSeq(s, 1, k - 1)
             b == SubSeq(s, k + 1, Len(s))
  <1>1. Len(s) \in Nat /\ k \in Nat
    OBVIOUS
  <1>2. /\ a \in Seq(T) /\ Len(a) = k - 1
        /\ \A n \in 1 .. k - 1 : a[n] = s[n]
    BY <1>1
  <1>3. /\ b \in Seq(T) /\ Len(b) = Len(s) - k
        /\ \A n \in 1 .. Len(s) - k : b[n] = s[k + n]
    BY <1>1
  <1> HIDE DEF a, b
  <1>6. /\ a \o b \in Seq(T) /\ Len(a \o b) = Len(s) - 1
        /\ \A n \in 1 .. Len(s) - 1 : (a \o b)[n] = IF n < k THEN a[n] ELSE b[n - (k - 1)]
    <2>1. /\ a \o b \in Seq(T) /\ Len(a \o b) = Len(a) + Len(b)
          /\ \A n \in 1 .. Len(a) + Len(b) :
               (a \o b)[n] = IF n <= Len(a) THEN a[n] ELSE b[n - Len(a)]
      BY <1>2, <1>3, ConcatProperties, Zenon
    <2>2. Len(a) + Len(b) = Len(s) - 1 /\ Len(a) = k - 1
      BY <1>1, <1>2, <1>3
    <2> QED
      BY <1>1, <2>1, <2>2
  <1>7. RemoveAt(s, k) = a \o b
    BY DEF RemoveAt, a, b
  <1>9. \A n \in 1 .. Len(s) - 1 : n >= k => b[n - (k - 1)] = s[n + 1]
    <2> SUFFICES ASSUME NEW n \in 1 .. Len(s) - 1, n >= k PROVE b[n - (k - 1)] = s[n + 1]
      OBVIOUS
    <2>1. n - (k - 1) \in 1 .. Len(s) - k /\ k + (n - (k - 1)) = n + 1
      BY <1>1
    <2> QED
      BY <1>3, <2>1
  <1> QED
    BY <1>1, <1>2, <1>6, <1>7, <1>9

\* MainLoop::insertTimerLocked() keeps the list sorted and free of duplicates
\* and adds the timer.
LEMMA InsertKeepsList ==
  ASSUME TypeOK, ListOK, NEW i \in Timers, NEW r, r = insertTimerLocked(i)
  PROVE  /\ r \in Seq(Timers) /\ Sorted(r) /\ Distinct(r)
         /\ \A j \in Timers : Contains(r, j) <=> Listed(j) \/ j = i
  <1> DEFINE s == mTimers
             later == {k \in DOMAIN s : mExpiry[i] < mExpiry[s[k]]}
             pos == IF later = {} THEN Len(s) + 1 ELSE Min(later)
  <1>1. CASE Listed(i)
    BY <1>1 DEF insertTimerLocked, Listed, TypeOK, ListOK
  <1>2. CASE ~Listed(i)
    <2>1. s \in Seq(Timers) /\ mExpiry \in [Timers -> Nat]
      BY DEF TypeOK
    <2>2. r = InsertAt(s, pos, i)
      BY <1>2 DEF insertTimerLocked, Listed
    <2>3. /\ pos \in 1 .. Len(s) + 1
          /\ \A k \in 1 .. Len(s) : k < pos => mExpiry[s[k]] <= mExpiry[i]
          /\ pos <= Len(s) => mExpiry[i] < mExpiry[s[pos]]
      <3>1. CASE later = {}
        BY <2>1, <3>1
      <3>2. CASE later # {}
        <4>1. later \in SUBSET Nat /\ DOMAIN s = 1 .. Len(s)
          BY <2>1
        <4>2. Min(later) \in later /\ \A n \in later : Min(later) <= n
          BY <3>2, <4>1, MinOfNaturals
        <4>3. pos = Min(later)
          BY <3>2
        <4>4. \A k \in 1 .. Len(s) : s[k] \in Timers
          BY <2>1
        <4> HIDE DEF pos
        <4>5. pos \in 1 .. Len(s) /\ mExpiry[i] < mExpiry[s[pos]]
          BY <4>1, <4>2, <4>3
        <4>6. ASSUME NEW k \in 1 .. Len(s), k < pos
              PROVE  ~(mExpiry[i] < mExpiry[s[k]])
          <5>1. mExpiry[i] < mExpiry[s[k]] => k \in later
            BY <4>1
          <5>2. k \in later => pos <= k
            BY <4>2, <4>3
          <5> QED
            BY <4>5, <4>6, <5>1, <5>2
        <4> QED
          BY <4>4, <4>5, <4>6, <2>1
      <3> QED
        BY <3>1, <3>2
    <2> HIDE DEF pos
    <2>4. /\ r \in Seq(Timers) /\ Len(r) = Len(s) + 1
          /\ \A n \in 1 .. Len(s) + 1 :
               r[n] = IF n < pos THEN s[n] ELSE IF n = pos THEN i ELSE s[n - 1]
      <3>1. /\ InsertAt(s, pos, i) \in Seq(Timers)
            /\ Len(InsertAt(s, pos, i)) = Len(s) + 1
            /\ \A n \in 1 .. Len(s) + 1 :
                 InsertAt(s, pos, i)[n] = IF n < pos THEN s[n]
                                          ELSE IF n = pos THEN i ELSE s[n - 1]
        <4> HIDE DEF s
        <4>1. s \in Seq(Timers) /\ pos \in 1 .. Len(s) + 1
          BY <2>1, <2>3
        <4> QED
          BY <4>1, InsertAtElements, SMTT(30)
      <3> QED
        BY <2>2, <3>1
    <2>5. \A k \in 1 .. Len(s) : s[k] \in Timers /\ s[k] # i
      BY <1>2, <2>1 DEF Listed, Contains
    <2>6. \A k, l \in 1 .. Len(s) : k <= l => mExpiry[s[k]] <= mExpiry[s[l]]
      BY <2>1 DEF ListOK, Sorted
    <2>7. \A k, l \in 1 .. Len(s) : s[k] = s[l] => k = l
      BY <2>1 DEF ListOK, Distinct
    <2>8. DOMAIN r = 1 .. Len(s) + 1 /\ Len(s) \in Nat
      BY <2>1, <2>4
    <2>9. Sorted(r)
      <3> SUFFICES ASSUME NEW k \in 1 .. Len(s) + 1, NEW l \in 1 .. Len(s) + 1, k <= l
                   PROVE  mExpiry[r[k]] <= mExpiry[r[l]]
        BY <2>8 DEF Sorted
      <3>1. ASSUME NEW n \in 1 .. Len(s), pos <= n
            PROVE  mExpiry[i] <= mExpiry[s[n]]
        <4>1. /\ pos \in 1 .. Len(s)
              /\ mExpiry[i] \in Nat /\ mExpiry[s[pos]] \in Nat /\ mExpiry[s[n]] \in Nat
          BY <2>1, <2>3, <2>5, <2>8, <3>1
        <4>2. mExpiry[i] < mExpiry[s[pos]] /\ mExpiry[s[pos]] <= mExpiry[s[n]]
          BY <2>3, <2>6, <2>8, <3>1, <4>1
        <4> QED
          BY <4>1, <4>2
      <3>2. \A n \in 1 .. Len(s) : n < pos => mExpiry[s[n]] <= mExpiry[i]
        BY <2>3
      <3>3. CASE k < pos /\ l < pos
        BY <2>3, <2>4, <2>6, <2>8, <3>3
      <3>4. CASE k < pos /\ l = pos
        BY <2>3, <2>4, <2>8, <3>2, <3>4
      <3>5. CASE k < pos /\ l > pos
        <4>1. l - 1 \in 1 .. Len(s) /\ k \in 1 .. Len(s) /\ k <= l - 1
          BY <2>3, <2>8, <3>5
        <4> QED
          BY <2>3, <2>4, <2>6, <3>5, <4>1
      <3>6. CASE k = pos /\ l = pos
        BY <2>1, <2>4, <3>6
      <3>7. CASE k = pos /\ l > pos
        <4>1. l - 1 \in 1 .. Len(s) /\ pos <= l - 1
          BY <2>3, <2>8, <3>7
        <4> QED
          BY <2>3, <2>4, <3>1, <3>7, <4>1
      <3>8. CASE k > pos
        <4>1. /\ k - 1 \in 1 .. Len(s) /\ l - 1 \in 1 .. Len(s) /\ k - 1 <= l - 1
              /\ l > pos
          BY <2>3, <2>8, <3>8
        <4>2. r[k] = s[k - 1] /\ r[l] = s[l - 1]
          BY <2>3, <2>4, <3>8, <4>1
        <4> QED
          BY <2>6, <4>1, <4>2
      <3> QED
        BY <2>3, <2>8, <3>3, <3>4, <3>5, <3>6, <3>7, <3>8
    <2>10. Distinct(r)
      <3> DEFINE old(n) == IF n < pos THEN n ELSE n - 1
      <3>1. \A n \in 1 .. Len(s) + 1 :
              n # pos => old(n) \in 1 .. Len(s) /\ r[n] = s[old(n)] /\ r[n] # i
        BY <2>3, <2>4, <2>5, <2>8
      <3>2. \A n, m \in 1 .. Len(s) + 1 :
              n # pos /\ m # pos /\ old(n) = old(m) => n = m
        BY <2>3, <2>8
      <3>3. r[pos] = i
        BY <2>3, <2>4
      <3> HIDE DEF old
      <3> QED
        BY <2>7, <2>8, <3>1, <3>2, <3>3 DEF Distinct
    <2>11. \A j \in Timers : Contains(r, j) <=> Listed(j) \/ j = i
      <3> SUFFICES ASSUME NEW j \in Timers
                   PROVE  (\E n \in 1 .. Len(s) + 1 : r[n] = j)
                            <=> (\E n \in 1 .. Len(s) : s[n] = j) \/ j = i
        BY <2>4 DEF Contains, Listed
      <3>1. ASSUME NEW n \in 1 .. Len(s), s[n] = j
            PROVE  \E m \in 1 .. Len(s) + 1 : r[m] = j
        <4>1. CASE n < pos
          BY <2>4, <2>8, <3>1, <4>1
        <4>2. CASE ~(n < pos)
          <5>1. n + 1 \in 1 .. Len(s) + 1 /\ r[n + 1] = s[n]
            BY <2>3, <2>4, <2>8, <4>2
          <5> QED
            BY <3>1, <5>1
        <4> QED
          BY <4>1, <4>2
      <3>2. j = i => r[pos] = j /\ pos \in 1 .. Len(s) + 1
        BY <2>3, <2>4, <2>8
      <3>3. ASSUME NEW n \in 1 .. Len(s) + 1, r[n] = j
            PROVE  (\E m \in 1 .. Len(s) : s[m] = j) \/ j = i
        <4>1. CASE n < pos
          BY <2>3, <2>4, <2>8, <3>3, <4>1
        <4>2. CASE n > pos
          <5>1. n - 1 \in 1 .. Len(s) /\ r[n] = s[n - 1]
            BY <2>3, <2>4, <2>8, <4>2
          <5> QED
            BY <3>3, <5>1
        <4> QED
          BY <2>3, <2>4, <3>3, <4>1, <4>2
      <3> QED
        BY <3>1, <3>2, <3>3
    <2> QED
      BY <2>4, <2>9, <2>10, <2>11
  <1> QED
    BY <1>1, <1>2

\* So does the removal of the element at any place, ...
LEMMA RemoveAtKeepsList ==
  ASSUME TypeOK, ListOK, NEW k \in 1 .. Len(mTimers), NEW r,
         r = RemoveAt(mTimers, k)
  PROVE  /\ r \in Seq(Timers) /\ Sorted(r) /\ Distinct(r)
         /\ \A j \in Timers : Contains(r, j) <=> Listed(j) /\ j # mTimers[k]
  <1> DEFINE s == mTimers
  <1>1. s \in Seq(Timers) /\ mExpiry \in [Timers -> Nat] /\ Len(s) \in Nat
    BY DEF TypeOK
  <1>2. /\ r \in Seq(Timers) /\ Len(r) = Len(s) - 1
        /\ \A n \in 1 .. Len(s) - 1 : r[n] = IF n < k THEN s[n] ELSE s[n + 1]
    BY <1>1, RemoveAtElements
  <1>3. DOMAIN r = 1 .. Len(s) - 1
    BY <1>1, <1>2
  <1>c. DOMAIN s = 1 .. Len(s)
    BY <1>1
  <1>4. \A n, m \in 1 .. Len(s) : n <= m => mExpiry[s[n]] <= mExpiry[s[m]]
    BY <1>c, Zenon DEF ListOK, Sorted
  <1>5. \A n, m \in 1 .. Len(s) : s[n] = s[m] => n = m
    BY <1>c, Zenon DEF ListOK, Distinct
  <1> DEFINE old(n) == IF n < k THEN n ELSE n + 1
  <1>a. \A n \in 1 .. Len(s) - 1 :
          old(n) \in 1 .. Len(s) /\ r[n] = s[old(n)] /\ old(n) # k
    <2> SUFFICES ASSUME NEW n \in 1 .. Len(s) - 1
                 PROVE  old(n) \in 1 .. Len(s) /\ r[n] = s[old(n)] /\ old(n) # k
      OBVIOUS
    <2>1. CASE n < k
      <3>1. old(n) = n /\ n \in 1 .. Len(s) /\ n # k
        BY <1>1, <2>1
      <3> QED
        BY <1>2, <2>1, <3>1
    <2>2. CASE ~(n < k)
      <3>1. old(n) = n + 1 /\ n + 1 \in 1 .. Len(s) /\ n + 1 # k
        BY <1>1, <2>2
      <3> QED
        BY <1>2, <2>2, <3>1
    <2> QED
      BY <2>1, <2>2
  <1>b. \A n, m \in 1 .. Len(s) - 1 :
          (n <= m => old(n) <= old(m)) /\ (old(n) = old(m) => n = m)
    <2>1. k \in Nat
      BY <1>1
    <2>2. \A n, m \in Nat :
            (n <= m => old(n) <= old(m)) /\ (old(n) = old(m) => n = m)
      BY ONLY <2>1
    <2>3. 1 .. Len(s) - 1 \subseteq Nat
      BY <1>1
    <2> QED
      BY <2>2, <2>3
  <1> HIDE DEF old
  <1>6. Sorted(r)
    <2> SUFFICES ASSUME NEW n \in 1 .. Len(s) - 1, NEW m \in 1 .. Len(s) - 1, n <= m
                 PROVE  mExpiry[r[n]] <= mExpiry[r[m]]
      BY <1>3 DEF Sorted
    <2>1. old(n) <= old(m)
      BY <1>b
    <2>2. mExpiry[s[old(n)]] <= mExpiry[s[old(m)]]
      BY <1>4, <1>a, <2>1
    <2> QED
      BY <1>a, <2>2
  <1>7. Distinct(r)
    <2> SUFFICES ASSUME NEW n \in 1 .. Len(s) - 1, NEW m \in 1 .. Len(s) - 1, r[n] = r[m]
                 PROVE  n = m
      BY <1>3 DEF Distinct
    <2>1. s[old(n)] = s[old(m)] /\ old(n) \in 1 .. Len(s) /\ old(m) \in 1 .. Len(s)
      BY <1>a
    <2>2. old(n) = old(m)
      BY <1>5, <2>1
    <2> QED
      BY <1>b, <2>2
  <1>8. \A j \in Timers : Contains(r, j) <=> Listed(j) /\ j # s[k]
    <2> SUFFICES ASSUME NEW j \in Timers
                 PROVE  (\E n \in 1 .. Len(s) - 1 : r[n] = j)
                          <=> (\E n \in 1 .. Len(s) : s[n] = j) /\ j # s[k]
      BY <1>2 DEF Contains, Listed
    <2>1. ASSUME NEW n \in 1 .. Len(s), s[n] = j, j # s[k]
          PROVE  \E m \in 1 .. Len(s) - 1 : r[m] = j
      <3>1. CASE n < k
        <4>1. n \in 1 .. Len(s) - 1 /\ r[n] = s[n]
          BY <1>1, <1>2, <3>1
        <4> QED
          BY <2>1, <4>1
      <3>2. CASE n > k
        <4>1. n - 1 \in 1 .. Len(s) - 1 /\ r[n - 1] = s[n]
          BY <1>1, <1>2, <3>2
        <4> QED
          BY <2>1, <4>1
      <3> QED
        BY <1>1, <2>1, <3>1, <3>2
    <2>2. ASSUME NEW n \in 1 .. Len(s) - 1, r[n] = j
          PROVE  (\E m \in 1 .. Len(s) : s[m] = j) /\ j # s[k]
      <3>1. old(n) \in 1 .. Len(s) /\ s[old(n)] = j /\ old(n) # k
        BY <1>a, <2>2
      <3> QED
        BY <1>5, <3>1
    <2> QED
      BY <2>1, <2>2
  <1> QED
    BY <1>2, <1>6, <1>7, <1>8

\* ... hence the erase() of MainLoop::removeTimer() ...
LEMMA RemoveFirstKeepsList ==
  ASSUME TypeOK, ListOK, NEW i \in Timers, NEW r, r = RemoveFirst(mTimers, i)
  PROVE  /\ r \in Seq(Timers) /\ Sorted(r) /\ Distinct(r)
         /\ \A j \in Timers : Contains(r, j) <=> Listed(j) /\ j # i
  <1> DEFINE I == {k \in 1 .. Len(mTimers) : mTimers[k] = i}
  <1>1. CASE I = {}
    <2>1. r = mTimers /\ ~Listed(i)
      BY <1>1 DEF RemoveFirst, Listed, Contains
    <2> QED
      BY <2>1 DEF TypeOK, ListOK, Listed
  <1>2. CASE I # {}
    <2>1. r = RemoveAt(mTimers, Min(I))
      BY <1>2 DEF RemoveFirst, SelectInSeq
    <2>2. Len(mTimers) \in Nat
      BY DEF TypeOK
    <2>3. Min(I) \in I
      <3>1. I \in SUBSET Nat
        BY <2>2
      <3> QED
        BY <1>2, <3>1, MinOfNaturals
    <2>4. Min(I) \in 1 .. Len(mTimers) /\ mTimers[Min(I)] = i
      BY <2>3
    <2> HIDE DEF I
    <2> QED
      BY <2>1, <2>4, RemoveAtKeepsList
  <1> QED
    BY <1>1, <1>2

\* ... and the pop_front() of takeExpiredTimerLocked().
LEMMA TailKeepsList ==
  ASSUME TypeOK, ListOK, mTimers # <<>>, NEW r, r = Tail(mTimers)
  PROVE  /\ r \in Seq(Timers) /\ Sorted(r) /\ Distinct(r)
         /\ Head(mTimers) \in Timers /\ Listed(Head(mTimers))
         /\ \A j \in Timers : Contains(r, j) <=> Listed(j) /\ j # Head(mTimers)
  <1>1. mTimers \in Seq(Timers) /\ Len(mTimers) \in Nat \ {0}
    BY DEF TypeOK
  <1>2. 1 \in 1 .. Len(mTimers) /\ Head(mTimers) = mTimers[1] /\ mTimers[1] \in Timers
    BY <1>1
  <1>3. r = RemoveAt(mTimers, 1)
    <2>1. r \in Seq(Timers) /\ Len(r) = Len(mTimers) - 1
          /\ \A n \in 1 .. Len(mTimers) - 1 : r[n] = mTimers[n + 1]
      BY <1>1
    <2>2. RemoveAt(mTimers, 1) \in Seq(Timers)
          /\ Len(RemoveAt(mTimers, 1)) = Len(mTimers) - 1
          /\ \A n \in 1 .. Len(mTimers) - 1 : RemoveAt(mTimers, 1)[n] = mTimers[n + 1]
      BY <1>1, <1>2, RemoveAtElements
    <2> QED
      BY <2>1, <2>2, SeqEqual
  <1>4. Listed(Head(mTimers))
    BY <1>2 DEF Listed, Contains
  <1> QED
    BY <1>2, <1>3, <1>4, RemoveAtKeepsList

-------------------------------------------------------------------------------
(* Rights *)

\* The constants, and the call of a thread that is in none.
LEMMA Constants ==
  /\ Loop \in Threads /\ Controllers \subseteq Threads
  /\ SomeTimer \in Timers /\ NoCall.timer \in Timers /\ NoCall.op = "stop"
  /\ NoCall \in [op : Ops, timer : Timers, interval : Intervals \cup {Infinite},
                  repeat : BOOLEAN]
  /\ \A t \in Threads : t # Nobody
  <1>1. SomeTimer \in Timers
    BY TimersAssumption DEF SomeTimer
  <1> QED
    BY <1>1, TimersAssumption DEF Threads, NoCall, Ops, ControlOps

\* Two threads that hold the same timer are one.
LEMMA OneHolder ==
  ASSUME TypeOK, Rights, NEW t \in Threads, NEW u \in Threads,
         Holding(t), Holding(u), Target(t) = Target(u)
  PROVE  t = u
  BY DEF Rights, CallsOK, CallOK, DestroysAlone, Using, Holding, HoldLabels, Destroying,
         Target, OpLabels, TypeOK

\* The steps inside an operation that return nothing.
LEMMA MovesKeepRights ==
  ASSUME TypeOK, Rights, NEW t \in Threads,
         \/ Restart(t) \/ ControlLock(t) \/ LoadBusy(t) \/ CancelQueued(t)
         \/ Check(t) \/ Block(t) \/ SpuriousWakeup(t) \/ Schedule(t) \/ AddTimer(t)
  PROVE  Rights'
  <1> USE Constants DEF TypeOK, Goto
  <1>1. PICK l \in OpLabels : pc' = [pc EXCEPT ![t] = l]
    BY DEF Restart, ControlLock, LoadBusy, CancelQueued, Check, Block, SpuriousWakeup,
           Schedule, AddTimer, OpLabels
  <1>2. /\ pc[t] \in OpLabels /\ UNCHANGED dead
        /\ \A u \in Threads : call'[u].op = call[u].op /\ Target(u)' = Target(u)
    BY DEF Restart, ControlLock, LoadBusy, CancelQueued, Check, Block, SpuriousWakeup,
           Schedule, AddTimer, OpLabels, Target, ghosts
  <1>3. ThreadsOK'
    BY <1>1, <1>2, TimersAssumption DEF Rights, ThreadsOK, OpLabels
  <1>4. DestroysAlone'
    BY <1>1, <1>2 DEF Rights, DestroysAlone, Using, Destroying
  <1>5. CallsOK'
    <2>1. CallOK(t)'
      BY <1>1, <1>2
      DEF Rights, CallsOK, CallOK, Holding, HoldLabels, OpLabels, Destroying,
          DestroyLabels,
         Restart, ControlLock, LoadBusy, CancelQueued, Check, Block, SpuriousWakeup,
           Schedule, AddTimer, Target
    <2>2. ASSUME NEW u \in Threads, u # t PROVE CallOK(u)'
      <3>1. pc'[u] = pc[u]
        BY <1>1, <2>2
      <3>2. Holding(u) /\ ~Destroying(u) => control'[Target(u)] = control[Target(u)]
        BY <1>2, <2>2
        DEF Rights, CallsOK, CallOK, Holding, HoldLabels, OpLabels, Destroying, 
         Restart, ControlLock, LoadBusy, CancelQueued, Check, Block, SpuriousWakeup,
           Schedule, AddTimer, Target
      <3> QED
        BY <1>2, <3>1, <3>2 DEF Rights, CallsOK, CallOK, Holding, Destroying
    <2> QED
      BY <2>1, <2>2 DEF CallsOK
  <1> QED
    BY <1>3, <1>4, <1>5 DEF Rights

\* An operation ends, and with it the hold on its timer.
LEMMA ReturnsKeepRights ==
  ASSUME TypeOK, Rights, NEW t \in Threads, Holding(t), ~Destroying(t),
         ReleaseAndReturn(t), UNCHANGED dead
  PROVE  Rights'
  <1> USE Constants DEF TypeOK, Goto
  <1>1. /\ pc' = [pc EXCEPT ![t] = Home(t)] /\ Home(t) \notin OpLabels
        /\ pc[t] \in OpLabels
        /\ \A u \in Threads \ {t} : call'[u] = call[u] /\ Target(u)' = Target(u)
    BY DEF ReleaseAndReturn, Return, Home, OpLabels, Holding, HoldLabels, Target
  <1>2. ThreadsOK'
    BY <1>1, TimersAssumption DEF Rights, ThreadsOK, Home
  <1>3. DestroysAlone'
    BY <1>1 DEF Rights, DestroysAlone, Using, Destroying
  <1>4. ASSUME NEW u \in Threads, u # t, pc[u] \in OpLabels PROVE CallOK(u)'
    <2>1. Holding(u) => control'[Target(u)] = control[Target(u)]
      BY <1>4, OneHolder DEF ReleaseAndReturn, Target
    <2> QED
      BY <1>1, <1>4, <2>1 DEF Rights, CallsOK, CallOK, Holding, Destroying
  <1>5. CallsOK'
    BY <1>1, <1>4 DEF CallsOK, CallOK
  <1> QED
    BY <1>2, <1>3, <1>5 DEF Rights

\* The destructor ends.
LEMMA DestroyedKeepsRights ==
  ASSUME TypeOK, Rights, NEW t \in Threads, pc[t] \in OpLabels, Destroying(t),
         Return(t), UNCHANGED control, dead' = dead \cup {Target(t)}
  PROVE  Rights'
  <1> USE Constants DEF TypeOK, Goto
  <1>1. /\ pc' = [pc EXCEPT ![t] = Home(t)] /\ Home(t) \notin OpLabels
        /\ \A u \in Threads \ {t} : call'[u] = call[u] /\ Target(u)' = Target(u)
    BY DEF Return, Home, OpLabels, Target
  <1>2. ThreadsOK'
    BY <1>1, TimersAssumption DEF Rights, ThreadsOK, Home
  <1>3. DestroysAlone'
    BY <1>1 DEF Rights, DestroysAlone, Using, Destroying
  <1>4. ASSUME NEW u \in Threads, u # t, pc[u] \in OpLabels PROVE CallOK(u)'
    <2>1. Target(u) # Target(t)
      BY <1>4 DEF Rights, DestroysAlone, Using
    <2> QED
      BY <1>1, <1>4, <2>1 DEF Rights, CallsOK, CallOK, Holding, Destroying
  <1>5. CallsOK'
    BY <1>1, <1>4 DEF CallsOK, CallOK
  <1> QED
    BY <1>2, <1>3, <1>5 DEF Rights

\* Both ends of stop(), and the one that start() goes on from.
LEMMA HaltedKeepsRights ==
  ASSUME TypeOK, Rights, NEW t \in Threads, pc[t] \in {"load", "remove"}, Halted(t)
  PROVE  Rights'
  <1>1. Holding(t) /\ pc[t] \in OpLabels
    BY DEF Holding, HoldLabels, OpLabels
  <1>2. CASE call[t].op = "stop"
    BY <1>1, <1>2, ReturnsKeepRights DEF Halted, Destroying
  <1>3. CASE call[t].op = "destroy"
    BY <1>1, <1>3, DestroyedKeepsRights DEF Halted, Destroying
  <1>4. CASE call[t].op \notin {"stop", "destroy"}
    <2> USE Constants DEF TypeOK
    <2>1. pc' = [pc EXCEPT ![t] = "schedule"] /\ UNCHANGED <<call, control, dead>>
      BY <1>4 DEF Halted, Goto, ghosts
    <2>2. ThreadsOK'
      BY <2>1, TimersAssumption DEF Rights, ThreadsOK, OpLabels
    <2>3. DestroysAlone'
      BY <1>1, <2>1 DEF Rights, DestroysAlone, Using, Destroying, Target
    <2>4. CallsOK'
      BY <1>1, <1>4, <2>1
      DEF Rights, CallsOK, CallOK, Holding, HoldLabels, OpLabels, Destroying, Target
    <2> QED
      BY <2>2, <2>3, <2>4 DEF Rights
  <1> QED
    BY <1>2, <1>3, <1>4

\* A call begins on a timer that nobody destroys; a destructor, on one that
\* nobody uses.
LEMMA InvokeKeepsRights ==
  ASSUME TypeOK, Rights, NEW t \in Threads, NEW i \in Timers, NEW o, NEW n, NEW r,
         Invoke(t, o, i, n, r)
  PROVE  Rights'
  <1> USE Constants DEF TypeOK, Goto
  <1>1. /\ pc[t] \notin OpLabels /\ o \in ControlOps
        /\ UNCHANGED <<control, dead>>
        /\ \A u \in Threads \ {t} :
             call'[u] = call[u] /\ Target(u)' = Target(u) /\ pc'[u] = pc[u]
        /\ call'[t].op = o /\ Target(t)' = i
        /\ i \notin dead
        /\ \A u \in Threads : ~(Using(u, i) /\ call[u].op = "destroy")
        /\ o = "destroy" => \A u \in Threads : ~Using(u, i)
    BY DEF Invoke, MayCall, OpLabels, Target, Alive, ghosts
  <1>2. /\ pc'[t] \in {"load", "restart", "control"}
        /\ o = "destroy" <=> pc'[t] = "load"
    BY DEF Invoke
  <1>3. ThreadsOK'
    BY <1>1, <1>2, TimersAssumption DEF Rights, ThreadsOK, OpLabels
  <1>4. DestroysAlone'
    <2> SUFFICES ASSUME NEW u \in Threads, NEW v \in Threads,
                        pc'[u] \in OpLabels, Destroying(u)', Using(v, Target(u))', v # u
                 PROVE  FALSE
      BY DEF DestroysAlone, Using
    <2>1. CASE u = t
      BY <1>1, <2>1 DEF Using, Destroying
    <2>2. CASE v = t
      BY <1>1, <2>2 DEF Using, Destroying
    <2>3. CASE u # t /\ v # t
      BY <1>1, <2>3 DEF Rights, DestroysAlone, Using, Destroying
    <2> QED
      BY <2>1, <2>2, <2>3
  <1>5. CallsOK'
    BY <1>1, <1>2
    DEF Rights, CallsOK, CallOK, Holding, HoldLabels, OpLabels, Destroying,
        DestroyLabels
  <1> QED
    BY <1>3, <1>4, <1>5 DEF Rights

\* setHandler(), setInterval() and setRepeat() take no lock.
LEMMA ConfigureKeepsRights ==
  ASSUME TypeOK, Rights, NEW t \in Threads, NEW i \in Timers, NEW o, Configure(t, o, i)
  PROVE  Rights'
  <1> USE Constants DEF TypeOK, Goto
  <1>1. /\ pc[t] \notin OpLabels /\ Home(t) \notin OpLabels
        /\ pc' = [pc EXCEPT ![t] = Home(t)] /\ UNCHANGED <<control, dead, call>>
    BY DEF Configure, MayCall, OpLabels, Home, ghosts
  <1>2. ThreadsOK'
    BY <1>1, TimersAssumption DEF Rights, ThreadsOK, Home
  <1>3. DestroysAlone'
    BY <1>1 DEF Rights, DestroysAlone, Using, Destroying, Target
  <1>4. CallsOK'
    BY <1>1 DEF Rights, CallsOK, CallOK, Holding, Destroying, Target
  <1> QED
    BY <1>2, <1>3, <1>4 DEF Rights

\* stop() returns, and start() and the destructor wait.
LEMMA RequestStopKeepsRights ==
  ASSUME TypeOK, Rights, NEW t \in Threads, RequestStop(t)
  PROVE  Rights'
  <1>1. Holding(t) /\ pc[t] \in OpLabels
    BY DEF Holding, HoldLabels, OpLabels, RequestStop
  <1>2. CASE call[t].op = "stop"
    BY <1>1, <1>2, ReturnsKeepRights DEF RequestStop, Destroying
  <1>3. CASE call[t].op # "stop"
    <2> USE Constants DEF TypeOK
    <2>1. pc' = [pc EXCEPT ![t] = "check"] /\ UNCHANGED <<call, control, dead>>
      BY <1>3 DEF RequestStop, Goto
    <2>2. ThreadsOK'
      BY <2>1, TimersAssumption DEF Rights, ThreadsOK, OpLabels
    <2>3. DestroysAlone'
      BY <1>1, <2>1 DEF Rights, DestroysAlone, Using, Destroying, Target
    <2>4. CallsOK'
      BY <1>1, <2>1
      DEF Rights, CallsOK, CallOK, Holding, HoldLabels, OpLabels, Destroying,
                        DestroyLabels, Target
    <2> QED
      BY <2>2, <2>3, <2>4 DEF Rights
  <1> QED
    BY <1>2, <1>3

\* Every step of an operation.
LEMMA CallStepsKeepRights ==
  ASSUME TypeOK, Rights, NEW t \in Threads, CallStep(t) \/ SpuriousWakeup(t)
  PROVE  Rights'
  <1>1. CASE LoadStopped(t) \/ RemoveTimer(t)
    BY <1>1, HaltedKeepsRights DEF LoadStopped, RemoveTimer
  <1>2. CASE ScheduleIgnored(t) \/ Wakeup(t)
    <2>1. /\ pc[t] \in {"schedule", "wakeup"} /\ ReleaseAndReturn(t)
          /\ UNCHANGED dead
      BY <1>2 DEF ScheduleIgnored, Wakeup, ghosts
    <2>2. Holding(t) /\ ~Destroying(t)
      BY <2>1 DEF Rights, CallsOK, CallOK, Holding, HoldLabels, OpLabels, DestroyLabels
    <2> QED
      BY <2>1, <2>2, ReturnsKeepRights
  <1>3. CASE RequestStop(t)
    BY <1>3, RequestStopKeepsRights
  <1> QED
    BY <1>1, <1>2, <1>3, MovesKeepRights DEF CallStep

\* What a step of the loop leaves alone: it wakes threads up at most.
LEMMA LoopStepsLeaveCalls ==
  ASSUME TypeOK, LoopStep \/ Disturbed
  PROVE  /\ UNCHANGED <<call, control, dead>>
         /\ pc[Loop] \notin OpLabels /\ pc'[Loop] \notin OpLabels \cup {"idle"}
         /\ \A u \in Threads \ {Loop} :
              pc'[u] = pc[u] \/ (pc[u] = "blocked" /\ pc'[u] = "check")
  <1>a. pc \in [Threads -> Labels] /\ Loop \in Threads
    BY Constants DEF TypeOK
  <1> USE <1>a DEF Goto, At, OpLabels, ghosts
  <1>1. CASE CastStopped \/ CastPending \/ CastQueued
    BY <1>1 DEF CastStopped, CastPending, CastQueued, LoopBroadcasts, Broadcast
  <1>2. CASE StoreStopped \/ StorePending \/ StoreQueued
    BY <1>2 DEF StoreStopped, StorePending, StoreQueued, LoopStores
  <1>3. CASE TakeNothing \/ TakeExpired \/ TakeCancelled \/ Cleared \/ Execute
    BY <1>3 DEF TakeNothing, TakeExpired, TakeCancelled, Cleared, Execute
  <1>4. CASE HandlerReturns \/ DecideKeep \/ DecideStop
    BY <1>4 DEF HandlerReturns, DecideKeep, DecideStop
  <1>5. CASE Requeue \/ RequeueRefused \/ RecheckKeep \/ RecheckWithdraw
    BY <1>5 DEF Requeue, RequeueRefused, RecheckKeep, RecheckWithdraw
  <1>6. CASE NextTimeout \/ Poll \/ Disturbed
    BY <1>6 DEF NextTimeout, Poll, Disturbed
  <1> QED
    BY <1>1, <1>2, <1>3, <1>4, <1>5, <1>6 DEF LoopStep

\* The loop has no rights of an operation to lose.
LEMMA LoopStepsKeepRights ==
  ASSUME TypeOK, Rights, LoopStep \/ Disturbed
  PROVE  Rights'
  <1>1. /\ UNCHANGED <<call, control, dead>>
        /\ pc[Loop] \notin OpLabels /\ pc'[Loop] \notin OpLabels \cup {"idle"}
        /\ \A u \in Threads \ {Loop} :
             pc'[u] = pc[u] \/ (pc[u] = "blocked" /\ pc'[u] = "check")
    BY LoopStepsLeaveCalls
  <1>2. ThreadsOK'
    BY <1>1, TimersAssumption DEF Rights, ThreadsOK, OpLabels, Threads
  <1>3. DestroysAlone'
    BY <1>1 DEF Rights, DestroysAlone, Using, Destroying, Target, OpLabels
  <1>4. CallsOK'
    BY <1>1
    DEF Rights, CallsOK, CallOK, Holding, HoldLabels, Destroying, Target, OpLabels,
                DestroyLabels
  <1> QED
    BY <1>2, <1>3, <1>4 DEF Rights

\* No step disturbs who may do what.
LEMMA NextKeepsRights ==
  ASSUME TypeOK, Rights, [Next]_vars
  PROVE  Rights'
  <1>1. CASE Tick \/ UNCHANGED vars
    BY <1>1 DEF Tick, vars, ghosts, Rights, ThreadsOK, CallsOK, CallOK, DestroysAlone,
                Using, Holding, Destroying, Target
  <1> QED
    BY <1>1, CallStepsKeepRights, InvokeKeepsRights, ConfigureKeepsRights,
       LoopStepsKeepRights DEF Next

-------------------------------------------------------------------------------
(* Types *)

\* A return leaves a caller that has none.
LEMMA ReturnTypes ==
  ASSUME TypeOK, NEW t \in Threads, Return(t)
  PROVE  /\ pc' \in [Threads -> Labels]
         /\ call' \in [Threads -> [op : Ops, timer : Timers,
                                  interval : Intervals \cup {Infinite},
                                  repeat : BOOLEAN]]
  BY Constants DEF TypeOK, Return, Goto, Home, Labels

\* The end of stop() or stopAndWait() leaves what it sets well typed.
LEMMA HaltedTypes ==
  ASSUME TypeOK, NEW t \in Threads, Halted(t)
  PROVE  /\ pc' \in [Threads -> Labels]
         /\ call' \in [Threads -> [op : Ops, timer : Timers,
                                  interval : Intervals \cup {Infinite},
                                  repeat : BOOLEAN]]
         /\ control' \in [Timers -> Threads \cup {Nobody}]
         /\ dead' \subseteq Timers /\ halted' \subseteq Timers
  <1>1. Target(t) \in Timers
    BY DEF TypeOK, Target
  <1>2. CASE call[t].op = "stop"
    BY <1>1, <1>2, ReturnTypes DEF Halted, ReleaseAndReturn, TypeOK
  <1>3. CASE call[t].op = "destroy"
    BY <1>1, <1>3, ReturnTypes DEF Halted, TypeOK
  <1>4. CASE call[t].op \notin {"stop", "destroy"}
    BY <1>4 DEF Halted, TypeOK, Goto, Labels, OpLabels, ghosts
  <1> QED
    BY <1>2, <1>3, <1>4

\* The steps of the operations keep the types, ...
LEMMA CallStepsKeepTypes ==
  ASSUME TypeOK, ListOK, NEW t \in Threads, CallStep(t) \/ SpuriousWakeup(t)
  PROVE  TypeOK'
  <1> USE DEF atomics, config, list, loopLocals, ghosts
  <1>1. Target(t) \in Timers /\ call[t].interval \in Intervals \cup {Infinite}
    BY DEF TypeOK, Target
  <1>2. CASE Restart(t)
    <2>1. mInterval[Target(t)] \in Intervals \cup {Infinite} /\ mRepeat[Target(t)] \in BOOLEAN
      BY <1>1 DEF TypeOK
    <2>2. call' \in [Threads -> [op : Ops, timer : Timers,
                                interval : Intervals \cup {Infinite}, repeat : BOOLEAN]]
      <3> DEFINE c == [call[t] EXCEPT !.interval = mInterval[Target(t)],
                                      !.repeat = mRepeat[Target(t)]]
      <3>1. c \in [op : Ops, timer : Timers, interval : Intervals \cup {Infinite},
                   repeat : BOOLEAN]
        BY <2>1 DEF TypeOK
      <3>2. call' = [call EXCEPT ![t] = c]
        BY <1>2 DEF Restart, TypeOK
      <3> HIDE DEF c
      <3> QED
        BY <3>1, <3>2 DEF TypeOK
    <2> QED
      BY <1>2, <2>2 DEF Restart, Goto, TypeOK, Labels, OpLabels
  <1>3. CASE ControlLock(t)
    BY <1>1, <1>3 DEF ControlLock, Goto, TypeOK, Labels, OpLabels
  <1>4. CASE LoadBusy(t) \/ Check(t) \/ Block(t) \/ SpuriousWakeup(t)
    BY <1>4 DEF LoadBusy, Check, Block, SpuriousWakeup, Goto, TypeOK, Labels, OpLabels
  <1>5. CASE LoadStopped(t)
    BY <1>5, HaltedTypes DEF LoadStopped, TypeOK
  <1>6. CASE CancelQueued(t)
    BY <1>1, <1>6
    DEF CancelQueued, SetState, Goto, TypeOK, Labels, OpLabels, TimerStates
  <1>7. CASE RemoveTimer(t)
    <2>1. mTimers' \in Seq(Timers)
      BY <1>1, <1>7, RemoveFirstKeepsList DEF RemoveTimer
    <2> QED
      BY <1>7, <2>1, HaltedTypes DEF RemoveTimer, TypeOK
  <1>8. CASE RequestStop(t)
    <2>1. CASE call[t].op = "stop"
      BY <1>1, <1>8, <2>1, ReturnTypes DEF RequestStop, ReleaseAndReturn, TypeOK
    <2>2. CASE call[t].op # "stop"
      BY <1>1, <1>8, <2>2 DEF RequestStop, Goto, TypeOK, Labels, OpLabels
    <2> QED
      BY <2>1, <2>2
  <1>9. CASE Schedule(t)
    <2>1. makeExpiry(call[t].interval) \in Nat
      <3>1. call[t].interval \in Nat
        BY <1>1, <1>9, TimersAssumption, Zenon DEF Schedule
      <3> QED
        BY <3>1 DEF makeExpiry, TypeOK
    <2>2. call[t].repeat \in BOOLEAN
      BY DEF TypeOK
    <2> QED
      BY <1>1, <1>9, <2>1, <2>2
      DEF Schedule, SetState, Goto, TypeOK, Labels, OpLabels, TimerStates
  <1>10. CASE ScheduleIgnored(t) \/ Wakeup(t)
    BY <1>1, <1>10, ReturnTypes DEF ScheduleIgnored, Wakeup, ReleaseAndReturn, TypeOK
  <1>11. CASE AddTimer(t)
    <2>1. mTimers' \in Seq(Timers)
      BY <1>1, <1>11, InsertKeepsList DEF AddTimer
    <2> QED
      BY <1>11, <2>1 DEF AddTimer, Goto, TypeOK, Labels, OpLabels
  <1> QED
    BY <1>2, <1>3, <1>4, <1>5, <1>6, <1>7, <1>8, <1>9, <1>10, <1>11 DEF CallStep

\* ... so do the calls ...
LEMMA CallsKeepTypes ==
  ASSUME TypeOK, NEW t \in Threads, NEW i \in Timers, NEW o \in Ops,
         NEW n \in Intervals \cup {Infinite}, NEW r \in BOOLEAN,
         Invoke(t, o, i, n, r) \/ Configure(t, o, i)
  PROVE  TypeOK'
  <1> USE DEF atomics, config, list, loopLocals, ghosts
  <1>1. CASE Invoke(t, o, i, n, r)
    <2>1. pc' \in [Threads -> Labels]
      BY <1>1 DEF Invoke, Goto, TypeOK, Labels, OpLabels
    <2>2. [op |-> o, timer |-> i, interval |-> n, repeat |-> r]
            \in [op : Ops, timer : Timers, interval : Intervals \cup {Infinite},
                repeat : BOOLEAN]
      OBVIOUS
    <2> QED
      BY <1>1, <2>1, <2>2 DEF Invoke, TypeOK
  <1>2. CASE Configure(t, o, i)
    <2>1. pc' \in [Threads -> Labels]
      BY <1>2 DEF Configure, Goto, Home, TypeOK, Labels
    <2>2. /\ mHandler' \in [Timers -> BOOLEAN]
          /\ mInterval' \in [Timers -> Intervals \cup {Infinite}]
          /\ mRepeat' \in [Timers -> BOOLEAN]
      <3> USE DEF TypeOK
      <3>1. CASE o = "setHandler"
        BY <1>2, <3>1 DEF Configure
      <3>2. CASE o = "setInterval"
        <4>1. PICK m \in Intervals : mInterval' = [mInterval EXCEPT ![i] = m]
          BY <1>2, <3>2 DEF Configure
        <4>2. mHandler' = mHandler /\ mRepeat' = mRepeat
          BY <1>2, <3>2 DEF Configure
        <4> QED
          BY <4>1, <4>2
      <3>3. CASE o = "setRepeat"
        BY <1>2, <3>3, TimersAssumption DEF Configure
      <3> QED
        BY <1>2, <3>1, <3>2, <3>3 DEF Configure
    <2> QED
      BY <1>2, <2>1, <2>2 DEF Configure, TypeOK
  <1> QED
    BY <1>1, <1>2

\* getNextTimerTimeout() is bounded by WaitTimeMs and by the first expiry.
LEMMA TimeoutBound ==
  ASSUME TypeOK, NextTimeout
  PROVE  /\ deadline' \in 0 .. now + WaitTime
         /\ pc'[Loop] = "wait" /\ mTimers # <<>> => deadline' <= mExpiry[Head(mTimers)]
  <1> DEFINE due == IF mTimers = <<>> THEN now + WaitTime ELSE mExpiry[Head(mTimers)]
  <1>1. /\ due \in Nat /\ now + WaitTime \in Nat
        /\ mTimers # <<>> => due = mExpiry[Head(mTimers)]
    <2>1. mTimers # <<>> => Head(mTimers) \in Timers
      BY DEF TypeOK
    <2> QED
      BY <2>1, TimersAssumption DEF TypeOK
  <1> DEFINE S == {due, now + WaitTime}
  <1>2. Min(S) \in S /\ \A n \in S : Min(S) <= n
    <2>1. S \in SUBSET Nat /\ S # {}
      BY <1>1
    <2> HIDE DEF S
    <2> QED
      BY <2>1, MinOfNaturals
  <1>3. CASE due <= now
    <2>1. deadline' = deadline /\ pc'[Loop] = "take"
      BY <1>3, Constants DEF NextTimeout, Goto, TypeOK
    <2> QED
      BY <2>1 DEF TypeOK
  <1>4. CASE ~(due <= now)
    <2>1. deadline' = Min(S)
      BY <1>4 DEF NextTimeout
    <2> HIDE DEF due
    <2>2. Min(S) \in Nat /\ Min(S) <= due /\ Min(S) <= now + WaitTime
      BY <1>1, <1>2
    <2> QED
      BY <1>1, <2>1, <2>2
  <1> QED
    BY <1>3, <1>4

\* ... and the steps of the loop and of the clock.
LEMMA LoopStepsKeepTypes ==
  ASSUME TypeOK, ListOK, LoopStep \/ Disturbed \/ Tick
  PROVE  TypeOK'
  <1> USE Constants DEF atomics, config, list, loopLocals, ghosts, Goto, At, SetState
  <1>1. CASE CastStopped \/ CastPending \/ CastQueued
    <2>1. pc' \in [Threads -> Labels]
      BY <1>1
      DEF CastStopped, CastPending, CastQueued, LoopBroadcasts, Broadcast, TypeOK,
                  Labels, OpLabels
    <2> QED
      BY <1>1, <2>1 DEF CastStopped, CastPending, CastQueued, LoopBroadcasts, TypeOK
  <1>2. CASE StoreStopped \/ StorePending \/ StoreQueued
    BY <1>2 DEF StoreStopped, StorePending, StoreQueued, LoopStores, TypeOK, Labels,
                TimerStates
  <1>3. CASE TakeExpired \/ TakeCancelled
    <2>1. mTimers' \in Seq(Timers) /\ Head(mTimers) \in Timers
      BY <1>3, TailKeepsList DEF TakeExpired, TakeCancelled
    <2> QED
      BY <1>3, <2>1 DEF TakeExpired, TakeCancelled, TypeOK, Labels, TimerStates
  <1>4. CASE TakeNothing \/ Cleared \/ Execute \/ HandlerReturns \/ DecideStop
    BY <1>4
    DEF TakeNothing, Cleared, Execute, HandlerReturns, DecideStop, TypeOK, Labels
  <1>5. CASE DecideKeep
    <2>1. makeExpiry(mInterval[current]) \in Nat
      <3>1. mInterval[current] \in Intervals \cup {Infinite}
        BY DEF TypeOK
      <3>2. mInterval[current] \in Nat
        BY <1>5, <3>1, TimersAssumption, Zenon DEF DecideKeep, Keeps
      <3> QED
        BY <3>2 DEF makeExpiry, TypeOK
    <2> QED
      BY <1>5, <2>1 DEF DecideKeep, TypeOK, Labels
  <1>6. CASE Requeue \/ RecheckWithdraw
    <2>1. mTimers' \in Seq(Timers)
      BY <1>6, InsertKeepsList, RemoveFirstKeepsList
      DEF Requeue, RecheckWithdraw, TypeOK
    <2> QED
      BY <1>6, <2>1 DEF Requeue, RecheckWithdraw, TypeOK, Labels
  <1>7. CASE RequeueRefused \/ RecheckKeep
    BY <1>7 DEF RequeueRefused, RecheckKeep, TypeOK, Labels
  <1>8. CASE NextTimeout
    <2>1. deadline' \in 0 .. now + WaitTime
      BY <1>8, TimeoutBound DEF TypeOK
    <2> QED
      BY <1>8, <2>1 DEF NextTimeout, TypeOK, Labels
  <1>9. CASE Poll \/ Disturbed
    <2>1. 0 \in 0 .. now + WaitTime
      BY TimersAssumption DEF TypeOK
    <2> QED
      BY <1>9, <2>1 DEF Poll, Disturbed, TypeOK, Labels
  <1>10. CASE Tick
    BY <1>10, TimersAssumption DEF Tick, TypeOK
  <1> QED
    BY <1>1, <1>2, <1>3, <1>4, <1>5, <1>6, <1>7, <1>8, <1>9, <1>10 DEF LoopStep

\* No step breaks a type.
LEMMA NextKeepsTypes ==
  ASSUME TypeOK, ListOK, [Next]_vars
  PROVE  TypeOK'
  <1>1. CASE UNCHANGED vars
    BY <1>1 DEF vars, atomics, config, list, loopLocals, ghosts, TypeOK
  <1> QED
    BY <1>1, CallStepsKeepTypes, CallsKeepTypes, LoopStepsKeepTypes DEF Next, Ops

-------------------------------------------------------------------------------
(* States: the steps of the calls *)

\* A step of a caller that touches neither the timers nor the list.
LEMMA MovesKeepStates ==
  ASSUME TypeOK, Rights, States, NEW t \in Threads, NEW l,
         pc' = [pc EXCEPT ![t] = l],
         pc[t] \notin {"add", "remove", "wakeup"},
         t = Loop => pc[t] \in ExecutingLabels /\ l \in ExecutingLabels,
         UNCHANGED <<mState, mExpiry, list, current, deadline>>,
         \A u \in Threads \ {t} : Target(u)' = Target(u),
         TargetOK(t)', DeadOK'
  PROVE  States'
  <1> USE Constants DEF TypeOK, list, Listed
  <1>1. \A u \in Threads \ {t} : pc'[u] = pc[u]
    OBVIOUS
  <1>2. TargetsOK'
    BY <1>1 DEF States, TargetsOK, TargetOK
  <1>3. LoopOK'
    BY <1>1 DEF States, LoopOK, Busy, Owns, ExecutingLabels, PendingLabels, OpLabels
  <1>4. ListOK'
    BY DEF States, ListOK, Sorted, Distinct
  <1>5. QueuedIsListed'
    <2> SUFFICES ASSUME NEW j \in Timers, mState'[j] = "Queued", ~Listed(j)'
                 PROVE  \E u \in Threads : pc'[u] = "add" /\ Target(u)' = j
      BY DEF QueuedIsListed
    <2>1. PICK u \in Threads : pc[u] = "add" /\ Target(u) = j
      BY <1>1 DEF States, QueuedIsListed, Listed
    <2> QED
      BY <1>1, <2>1
  <1>6. ListedIsQueued'
    <2> SUFFICES ASSUME NEW j \in Timers, Listed(j)', mState'[j] # "Queued",
                        ~(current' = j /\ pc'[Loop] \in {"recheck", "queue_store"})
                 PROVE  \E u \in Threads : pc'[u] = "remove" /\ Target(u)' = j
      BY DEF ListedIsQueued
    <2>1. PICK u \in Threads : pc[u] = "remove" /\ Target(u) = j
      BY <1>1 DEF States, ListedIsQueued, Listed, ExecutingLabels, OpLabels
    <2> QED
      BY <1>1, <2>1
  <1>7. NoOversleep'
    BY <1>1 DEF States, NoOversleep, At, ExecutingLabels, OpLabels
  <1> QED
    BY <1>2, <1>3, <1>4, <1>5, <1>6, <1>7 DEF States

\* A stop() takes a queued timer back: it stays in the list until the same
\* thread removes it.
LEMMA CancelKeepsStates ==
  ASSUME TypeOK, Rights, States, NEW t \in Threads, CancelQueued(t)
  PROVE  States'
  <1> USE Constants DEF TypeOK, list, Listed
  <1> DEFINE i == Target(t)
  <1>1. /\ pc[t] = "load" /\ pc' = [pc EXCEPT ![t] = "remove"]
        /\ mState[i] = "Queued" /\ mState' = [mState EXCEPT ![i] = "Stopped"]
        /\ UNCHANGED <<mExpiry, mTimers, wake, current, deadline, dead, call>>
        /\ i \in Timers
    BY DEF CancelQueued, Goto, SetState, loopLocals, ghosts, Target
  <1>2. \A u \in Threads \ {t} : pc'[u] = pc[u]
    BY <1>1
  <1>3. TargetsOK'
    <2>1. ASSUME NEW u \in Threads, u # t, pc[u] \in {"remove", "schedule", "add"}
          PROVE  Target(u) # i
      BY <1>1, <2>1, OneHolder DEF Holding, HoldLabels, OpLabels
    <2> QED
      BY <1>1, <1>2, <2>1 DEF States, TargetsOK, TargetOK, Target
  <1>4. LoopOK'
    BY <1>1, <1>2
    DEF States, LoopOK, Busy, Owns, ExecutingLabels, PendingLabels, OpLabels
  <1>5. ListOK'
    BY <1>1 DEF States, ListOK, Sorted, Distinct
  <1>6. QueuedIsListed'
    BY <1>1, <1>2 DEF States, QueuedIsListed, Target
  <1>7. ListedIsQueued'
    BY <1>1, <1>2 DEF States, ListedIsQueued, Target
  <1>8. DeadOK' /\ NoOversleep'
    BY <1>1, <1>2 DEF States, DeadOK, NoOversleep, At
  <1> QED
    BY <1>3, <1>4, <1>5, <1>6, <1>7, <1>8 DEF States

\* What Halted() does, whichever of the three operations it ends.
LEMMA HaltedMoves ==
  ASSUME TypeOK, Rights, NEW t \in Threads, Halted(t), pc[t] \in {"load", "remove"}
  PROVE  /\ \E l \in {Home(t), "schedule"} : pc' = [pc EXCEPT ![t] = l]
         /\ \A u \in Threads \ {t} : Target(u)' = Target(u)
         /\ pc'[t] = "schedule" => Target(t)' = Target(t)
         /\ dead' \subseteq dead \cup {Target(t)}
  BY Constants DEF TypeOK, Halted, ReleaseAndReturn, Return, Goto, Home, Target, ghosts

\* An operation finds the timer stopped.
LEMMA LoadStoppedKeepsStates ==
  ASSUME TypeOK, Rights, States, NEW t \in Threads, LoadStopped(t)
  PROVE  States'
  <1>1. /\ pc[t] = "load" /\ mState[Target(t)] = "Stopped" /\ Halted(t)
        /\ UNCHANGED <<mState, mExpiry, list, current, deadline>>
    BY DEF LoadStopped, atomics, loopLocals
  <1>2. PICK l \in {Home(t), "schedule"} : pc' = [pc EXCEPT ![t] = l]
    BY <1>1, HaltedMoves
  <1>3. /\ \A u \in Threads \ {t} : Target(u)' = Target(u)
        /\ pc'[t] = "schedule" => Target(t)' = Target(t)
        /\ dead' \subseteq dead \cup {Target(t)}
    BY <1>1, HaltedMoves
  <1>4. pc'[t] = l
    BY <1>2 DEF TypeOK
  <1>5. TargetOK(t)'
    BY <1>1, <1>3, <1>4 DEF TargetOK, Home
  <1>6. DeadOK'
    BY <1>1, <1>3 DEF DeadOK, States
  <1>7. t = Loop => pc[t] \in ExecutingLabels /\ l \in ExecutingLabels
    BY <1>1 DEF ExecutingLabels, OpLabels, Home
  <1> QED
    BY <1>1, <1>2, <1>3, <1>5, <1>6, <1>7, MovesKeepStates

\* MainLoop::removeTimer() after a cancellation.
LEMMA RemoveKeepsStates ==
  ASSUME TypeOK, Rights, States, NEW t \in Threads, RemoveTimer(t)
  PROVE  States'
  <1> USE Constants DEF TypeOK
  <1> DEFINE i == Target(t)
  <1>1. /\ pc[t] = "remove" /\ Halted(t) /\ i \in Timers
        /\ mTimers' = RemoveFirst(mTimers, i) /\ wake' = TRUE
        /\ UNCHANGED <<mState, mExpiry, current, deadline>>
    BY DEF RemoveTimer, atomics, loopLocals, Target
  <1>2. PICK l \in {Home(t), "schedule"} : pc' = [pc EXCEPT ![t] = l]
    BY <1>1, HaltedMoves
  <1>3. /\ \A u \in Threads \ {t} : Target(u)' = Target(u)
        /\ pc'[t] = "schedule" => Target(t)' = i
        /\ dead' \subseteq dead \cup {i}
    BY <1>1, HaltedMoves
  <1>4. pc'[t] = l /\ \A u \in Threads \ {t} : pc'[u] = pc[u]
    BY <1>2
  <1>5. mState[i] = "Stopped"
    BY <1>1 DEF States, TargetsOK, TargetOK
  <1>6. /\ Sorted(mTimers') /\ Distinct(mTimers')
        /\ \A j \in Timers : Listed(j)' <=> Listed(j) /\ j # i
    BY <1>1, RemoveFirstKeepsList DEF States, Listed
  <1>7. TargetsOK'
    <2>1. TargetOK(t)'
      <3>1. l # "schedule" => l \notin {"remove", "add"}
        BY DEF Home
      <3>2. l = "schedule" => mState'[Target(t)'] = "Stopped"
        BY <1>1, <1>3, <1>4, <1>5
      <3> QED
        BY <1>4, <3>1, <3>2 DEF TargetOK
    <2>2. ASSUME NEW u \in Threads \ {t}
          PROVE  TargetOK(u)'
      <3>1. TargetOK(u)
        BY DEF States, TargetsOK
      <3>2. Target(u) \in Timers
        BY DEF TypeOK, Target
      <3> QED
        BY <1>1, <1>3, <1>4, <1>6, <3>1, <3>2 DEF TargetOK
    <2> QED
      BY <2>1, <2>2 DEF TargetsOK
  <1>8. LoopOK'
    BY <1>1, <1>4, <1>5, <1>6
    DEF States, LoopOK, Busy, Owns, ExecutingLabels, PendingLabels, OpLabels, Home
  <1>9. ListOK'
    BY <1>1, <1>6 DEF ListOK, Sorted, Distinct
  <1>10. QueuedIsListed'
    <2> SUFFICES ASSUME NEW j \in Timers, mState'[j] = "Queued", ~Listed(j)'
                 PROVE  \E u \in Threads : pc'[u] = "add" /\ Target(u)' = j
      BY DEF QueuedIsListed
    <2>1. PICK u \in Threads : pc[u] = "add" /\ Target(u) = j
      BY <1>1, <1>5, <1>6 DEF States, QueuedIsListed
    <2> QED
      BY <1>1, <1>3, <1>4, <2>1
  <1>11. ListedIsQueued'
    <2> SUFFICES ASSUME NEW j \in Timers, Listed(j)', mState'[j] # "Queued",
                        ~(current' = j /\ pc'[Loop] \in {"recheck", "queue_store"})
                 PROVE  \E u \in Threads : pc'[u] = "remove" /\ Target(u)' = j
      BY DEF ListedIsQueued
    <2>1. PICK u \in Threads : pc[u] = "remove" /\ Target(u) = j
      BY <1>1, <1>2, <1>4, <1>6 DEF States, ListedIsQueued, OpLabels, Home
    <2> QED
      BY <1>1, <1>3, <1>4, <1>6, <2>1
  <1>12. DeadOK' /\ NoOversleep'
    BY <1>1, <1>3, <1>5 DEF States, DeadOK, NoOversleep
  <1> QED
    BY <1>7, <1>8, <1>9, <1>10, <1>11, <1>12 DEF States

\* start() sets the timer up: the timer is not in the list, ...
LEMMA ScheduleKeepsStates ==
  ASSUME TypeOK, Rights, States, NEW t \in Threads, Schedule(t)
  PROVE  States'
  <1> USE Constants DEF TypeOK
  <1> DEFINE i == Target(t)
  <1>1. /\ pc[t] = "schedule" /\ pc' = [pc EXCEPT ![t] = "add"] /\ i \in Timers
        /\ mState' = [mState EXCEPT ![i] = "Queued"]
        /\ mExpiry' = [mExpiry EXCEPT ![i] = makeExpiry(call[t].interval)]
        /\ UNCHANGED <<mTimers, wake, current, deadline, dead, call>>
    BY DEF Schedule, Goto, SetState, list, loopLocals, Target
  <1>2. \A u \in Threads \ {t} : pc'[u] = pc[u]
    BY <1>1
  <1>3. mState[i] = "Stopped"
    BY <1>1 DEF States, TargetsOK, TargetOK
  <1>4. ASSUME NEW u \in Threads, u # t, pc[u] \in {"remove", "schedule", "add"}
        PROVE  Target(u) # i
    BY <1>1, <1>4, OneHolder DEF Holding, HoldLabels, OpLabels
  <1>5. ~Listed(i) /\ (Listed(i)' <=> Listed(i))
    <2>1. ~(current = i /\ pc[Loop] \in {"recheck", "queue_store"})
      BY <1>3 DEF States, LoopOK, PendingLabels
    <2> QED
      <3>1. ASSUME NEW u \in Threads, pc[u] = "remove" PROVE Target(u) # i
        BY <1>1, <1>4, <3>1
      <3>2. ~Listed(i)
        BY <1>1, <1>3, <2>1, <3>1 DEF States, ListedIsQueued
      <3> QED
        BY <1>1, <3>2 DEF Listed, Target
  <1>6. TargetsOK'
    BY <1>1, <1>2, <1>4, <1>5 DEF States, TargetsOK, TargetOK, Target, Listed
  <1>7. LoopOK'
    BY <1>1, <1>2, <1>3
    DEF States, LoopOK, Busy, Owns, ExecutingLabels, PendingLabels, OpLabels, Listed
  <1>8. \A k \in DOMAIN mTimers :
          mTimers[k] \in Timers /\ mExpiry'[mTimers[k]] = mExpiry[mTimers[k]]
    BY <1>1, <1>5 DEF Listed, Contains
  <1>9. ListOK'
    BY <1>1, <1>8 DEF States, ListOK, Sorted, Distinct
  <1>10. QueuedIsListed' /\ ListedIsQueued'
    BY <1>1, <1>2 DEF States, QueuedIsListed, ListedIsQueued, Listed, Target
  <1>11. DeadOK'
    BY <1>1 DEF States, DeadOK, Rights, CallsOK, CallOK, OpLabels
  <1>12. NoOversleep'
    <2>1. mTimers # <<>> => 1 \in DOMAIN mTimers /\ Head(mTimers) = mTimers[1]
      OBVIOUS
    <2> QED
      BY <1>1, <1>2, <1>8, <2>1 DEF States, NoOversleep, At
  <1> QED
    BY <1>6, <1>7, <1>9, <1>10, <1>11, <1>12 DEF States

\* ... where MainLoop::addTimer() puts it.
LEMMA AddKeepsStates ==
  ASSUME TypeOK, Rights, States, NEW t \in Threads, AddTimer(t)
  PROVE  States'
  <1> USE Constants DEF TypeOK
  <1> DEFINE i == Target(t)
  <1>1. /\ pc[t] = "add" /\ pc' = [pc EXCEPT ![t] = "wakeup"] /\ i \in Timers
        /\ mTimers' = insertTimerLocked(i)
        /\ UNCHANGED <<mState, mExpiry, wake, current, deadline, dead, call>>
    BY DEF AddTimer, Goto, atomics, loopLocals, ghosts, Target
  <1>2. pc'[t] = "wakeup" /\ \A u \in Threads \ {t} : pc'[u] = pc[u]
    BY <1>1
  <1>3. mState[i] = "Queued"
    BY <1>1 DEF States, TargetsOK, TargetOK
  <1>4. ASSUME NEW u \in Threads, u # t, pc[u] = "add"
        PROVE  Target(u) # i
    BY <1>1, <1>4, OneHolder DEF Holding, HoldLabels, OpLabels
  <1>5. /\ Sorted(mTimers') /\ Distinct(mTimers')
        /\ \A j \in Timers : Listed(j)' <=> Listed(j) \/ j = i
    BY <1>1, InsertKeepsList DEF States, Listed
  <1>6. TargetsOK'
    BY <1>1, <1>2, <1>4, <1>5 DEF States, TargetsOK, TargetOK, Target
  <1>7. LoopOK'
    BY <1>1, <1>2, <1>5
    DEF States, LoopOK, Busy, Owns, ExecutingLabels, PendingLabels, OpLabels
  <1>8. ListOK'
    BY <1>1, <1>5 DEF ListOK, Sorted, Distinct
  <1>9. QueuedIsListed'
    BY <1>1, <1>2, <1>5 DEF States, QueuedIsListed, Target
  <1>10. ListedIsQueued'
    BY <1>1, <1>2, <1>3, <1>5 DEF States, ListedIsQueued, Target
  <1>11. DeadOK' /\ NoOversleep'
    BY <1>1, <1>2 DEF States, DeadOK, NoOversleep
  <1> QED
    BY <1>6, <1>7, <1>8, <1>9, <1>10, <1>11 DEF States

\* The wakeup() of MainLoop::addTimer().
LEMMA WakeupKeepsStates ==
  ASSUME TypeOK, Rights, States, NEW t \in Threads, Wakeup(t)
  PROVE  States'
  <1> USE Constants DEF TypeOK
  <1>1. /\ pc[t] = "wakeup" /\ pc' = [pc EXCEPT ![t] = Home(t)]
        /\ wake' = TRUE
        /\ UNCHANGED <<mState, mExpiry, mTimers, current, deadline, dead>>
        /\ \A u \in Threads \ {t} : Target(u)' = Target(u)
    BY DEF Wakeup, ReleaseAndReturn, Return, Goto, atomics, loopLocals, ghosts, Target
  <1>2. pc'[t] = Home(t) /\ \A u \in Threads \ {t} : pc'[u] = pc[u]
    BY <1>1
  <1>3. TargetsOK'
    BY <1>1, <1>2 DEF States, TargetsOK, TargetOK, Home, Listed
  <1>4. LoopOK'
    BY <1>1, <1>2
   
    DEF States, LoopOK, Busy, Owns, ExecutingLabels, PendingLabels, OpLabels, Home,
        Listed
  <1>5. ListOK' /\ DeadOK' /\ NoOversleep'
    BY <1>1 DEF States, ListOK, Sorted, Distinct, DeadOK, NoOversleep
  <1>6. QueuedIsListed'
    <2> SUFFICES ASSUME NEW j \in Timers, mState'[j] = "Queued", ~Listed(j)'
                 PROVE  \E u \in Threads : pc'[u] = "add" /\ Target(u)' = j
      BY DEF QueuedIsListed
    <2>1. PICK u \in Threads : pc[u] = "add" /\ Target(u) = j
      BY <1>1 DEF States, QueuedIsListed, Listed
    <2> QED
      BY <1>1, <1>2, <2>1
  <1>7. ListedIsQueued'
    <2> SUFFICES ASSUME NEW j \in Timers, Listed(j)', mState'[j] # "Queued",
                        ~(current' = j /\ pc'[Loop] \in {"recheck", "queue_store"})
                 PROVE  \E u \in Threads : pc'[u] = "remove" /\ Target(u)' = j
      BY DEF ListedIsQueued
    <2>1. PICK u \in Threads : pc[u] = "remove" /\ Target(u) = j
      BY <1>1, <1>2 DEF States, ListedIsQueued, Listed, OpLabels, Home
    <2> QED
      BY <1>1, <1>2, <2>1
  <1> QED
    BY <1>3, <1>4, <1>5, <1>6, <1>7 DEF States

-------------------------------------------------------------------------------
(* States: the steps of the loop *)

\* The two clauses about what is in the list are kept when nobody comes to need
\* one: the threads about to add or to remove a timer stay there.
LEMMA QueuedKept ==
  ASSUME QueuedIsListed, UNCHANGED call,
         \A u \in Threads : pc[u] = "add" => pc'[u] = "add",
         \A j \in Timers :
           mState'[j] = "Queued" /\ ~Listed(j)' => mState[j] = "Queued" /\ ~Listed(j)
  PROVE  QueuedIsListed'
  <1> SUFFICES ASSUME NEW j \in Timers, mState'[j] = "Queued", ~Listed(j)'
               PROVE  \E u \in Threads : pc'[u] = "add" /\ Target(u)' = j
    BY DEF QueuedIsListed
  <1>1. PICK u \in Threads : pc[u] = "add" /\ Target(u) = j
    BY DEF QueuedIsListed
  <1> QED
    BY <1>1 DEF Target

\* The loop has put timer i into the list and not made it Queued yet.
Requeued(i) == current = i /\ pc[Loop] \in {"recheck", "queue_store"}

\* What keeps the other clause.
LEMMA ListedKept ==
  ASSUME ListedIsQueued, UNCHANGED call,
         \A u \in Threads : pc[u] = "remove" => pc'[u] = "remove",
         \A j \in Timers :
           Listed(j)' /\ mState'[j] # "Queued" /\ ~Requeued(j)'
             => Listed(j) /\ mState[j] # "Queued" /\ ~Requeued(j)
  PROVE  ListedIsQueued'
  <1> SUFFICES ASSUME NEW j \in Timers, Listed(j)', mState'[j] # "Queued", ~Requeued(j)'
               PROVE  \E u \in Threads : pc'[u] = "remove" /\ Target(u)' = j
    BY DEF ListedIsQueued, Requeued
  <1>1. PICK u \in Threads : pc[u] = "remove" /\ Target(u) = j
    BY DEF ListedIsQueued, Requeued
  <1> QED
    BY <1>1 DEF Target

\* A step of the loop that changes neither a timer nor the list.
LEMMA LoopMovesKeepStates ==
  ASSUME TypeOK, States, LoopStep \/ Disturbed,
         UNCHANGED <<mState, mExpiry, mTimers>>,
         current' = current \/ pc'[Loop] \notin {"recheck", "queue_store"},
         pc[Loop] \in {"recheck", "queue_store"} =>
           pc'[Loop] \in {"recheck", "queue_store"} /\ current' = current,
         LoopOK', NoOversleep'
  PROVE  States'
  <1> USE Constants DEF Listed
  <1>1. /\ UNCHANGED <<call, dead>>
        /\ pc[Loop] \notin OpLabels /\ pc'[Loop] \notin OpLabels
        /\ \A u \in Threads \ {Loop} :
             pc'[u] = pc[u] \/ (pc[u] = "blocked" /\ pc'[u] = "check")
    BY LoopStepsLeaveCalls
  <1>2. TargetsOK'
    BY <1>1 DEF States, TargetsOK, TargetOK, Target, OpLabels
  <1>3. ListOK' /\ DeadOK'
    BY <1>1 DEF States, ListOK, Sorted, Distinct, DeadOK
  <1>4. QueuedIsListed'
    BY <1>1, QueuedKept DEF States, Listed, OpLabels
  <1>5. ListedIsQueued'
    BY <1>1, ListedKept DEF States, Listed, Requeued, OpLabels
  <1> QED
    BY <1>2, <1>3, <1>4, <1>5 DEF States

\* takeExpiredTimerLocked(): the timer leaves the list, and is executed unless
\* a stop() was faster.
LEMMA TakeKeepsStates ==
  ASSUME TypeOK, States, TakeExpired \/ TakeCancelled
  PROVE  States'
  <1> USE Constants DEF TypeOK
  <1> DEFINE i == Head(mTimers)
  <1>1. /\ mTimers # <<>> /\ mTimers' = Tail(mTimers) /\ pc[Loop] = "take"
        /\ UNCHANGED <<mExpiry, call, dead>>
        /\ \A u \in Threads \ {Loop} : pc'[u] = pc[u]
    BY DEF TakeExpired, TakeCancelled, Goto, At, atomics, ghosts
  <1>2. /\ Sorted(mTimers') /\ Distinct(mTimers')
        /\ i \in Timers /\ Listed(i)
        /\ \A j \in Timers : Listed(j)' <=> Listed(j) /\ j # i
    BY <1>1, TailKeepsList DEF States, Listed
  <1>3. \A j \in Timers : ~Busy(j)
    BY <1>1 DEF States, LoopOK, Owns, OpLabels
  <1>4. ListOK'
    BY <1>1, <1>2 DEF ListOK, Sorted, Distinct
  <1>5. CASE TakeExpired
    <2>1. /\ mState[i] = "Queued" /\ mState' = [mState EXCEPT ![i] = "Executing"]
          /\ current' = i /\ pc'[Loop] = "clear"
      BY <1>5 DEF TakeExpired, SetState, Goto
    <2>2. TargetsOK'
      BY <1>1, <1>2, <2>1 DEF States, TargetsOK, TargetOK, Target
    <2>3. LoopOK'
      BY <1>2, <1>3, <2>1
      DEF LoopOK, Busy, Owns, ExecutingLabels, PendingLabels, OpLabels
    <2>4. QueuedIsListed'
      BY <1>2, <2>1, <1>1, QueuedKept DEF States, Listed, OpLabels
    <2>5. ListedIsQueued'
      BY <1>1, <1>2, <2>1, ListedKept DEF States, Listed, Requeued, OpLabels
    <2>6. DeadOK' /\ NoOversleep'
      BY <1>1, <1>2, <2>1 DEF States, DeadOK, NoOversleep, At
    <2> QED
      BY <1>4, <2>2, <2>3, <2>4, <2>5, <2>6 DEF States
  <1>6. CASE TakeCancelled
    <2>1. /\ mState[i] # "Queued" /\ UNCHANGED <<mState, current>>
          /\ pc'[Loop] = "timeout"
      BY <1>6 DEF TakeCancelled, Goto, atomics, loopLocals
    <2>2. TargetsOK'
      BY <1>1, <1>2, <2>1 DEF States, TargetsOK, TargetOK, Target
    <2>3. LoopOK'
      BY <1>2, <1>3, <2>1
      DEF LoopOK, Busy, Owns, ExecutingLabels, PendingLabels, OpLabels
    <2>4. QueuedIsListed'
      BY <1>2, <2>1, <1>1, QueuedKept DEF States, Listed, OpLabels
    <2>5. ListedIsQueued'
      BY <1>1, <1>2, <2>1, ListedKept DEF States, Listed, Requeued, OpLabels
    <2>6. DeadOK' /\ NoOversleep'
      BY <1>1, <1>2, <2>1 DEF States, DeadOK, NoOversleep, At
    <2> QED
      BY <1>4, <2>2, <2>3, <2>4, <2>5, <2>6 DEF States
  <1> QED
    BY <1>5, <1>6

\* executeFromLoop() sets the next expiry while the timer is not in the list.
LEMMA DecideKeepKeepsStates ==
  ASSUME TypeOK, States, DecideKeep
  PROVE  States'
  <1> USE Constants DEF TypeOK
  <1>1. /\ pc[Loop] = "decide" /\ pc'[Loop] = "pend"
        /\ mExpiry' = [mExpiry EXCEPT ![current] = makeExpiry(mInterval[current])]
        /\ UNCHANGED <<mState, mTimers, current, call, dead>>
        /\ \A u \in Threads \ {Loop} : pc'[u] = pc[u]
    BY DEF DecideKeep, Goto, At, list, loopLocals, ghosts
  <1>2. mState[current] = "Executing"
    BY <1>1 DEF States, LoopOK, ExecutingLabels
  <1>3. ~Listed(current)
    <2>1. ASSUME NEW u \in Threads, pc[u] = "remove" PROVE Target(u) # current
      BY <1>2, <2>1 DEF States, TargetsOK, TargetOK
    <2> QED
      BY <1>1, <1>2, <2>1 DEF States, ListedIsQueued
  <1>4. \A k \in DOMAIN mTimers :
          mTimers[k] \in Timers /\ mExpiry'[mTimers[k]] = mExpiry[mTimers[k]]
    BY <1>1, <1>3 DEF Listed, Contains
  <1>5. TargetsOK'
    BY <1>1 DEF States, TargetsOK, TargetOK, Target, Listed
  <1>6. LoopOK'
    BY <1>1 DEF States, LoopOK, Busy, Owns, ExecutingLabels, PendingLabels, OpLabels
  <1>7. ListOK'
    BY <1>1, <1>4 DEF States, ListOK, Sorted, Distinct
  <1>8. QueuedIsListed'
    BY <1>1, QueuedKept DEF States, Listed, OpLabels
  <1>9. ListedIsQueued'
    BY <1>1, ListedKept DEF States, Listed, Requeued, OpLabels
  <1>10. DeadOK' /\ NoOversleep'
    BY <1>1 DEF States, DeadOK, NoOversleep, At
  <1> QED
    BY <1>5, <1>6, <1>7, <1>8, <1>9, <1>10 DEF States

\* The stores of mState by the loop.
LEMMA StoresKeepStates ==
  ASSUME TypeOK, States, StoreStopped \/ StorePending \/ StoreQueued
  PROVE  States'
  <1> USE Constants DEF TypeOK
  <1>1. /\ UNCHANGED <<mExpiry, mTimers, current, call, dead>>
        /\ \A u \in Threads \ {Loop} : pc'[u] = pc[u]
        /\ \/ /\ pc[Loop] = "stop_store" /\ pc'[Loop] = "stop_cast"
              /\ mState' = [mState EXCEPT ![current] = "Stopped"]
           \/ /\ pc[Loop] = "pend" /\ pc'[Loop] = "pend_cast"
              /\ mState' = [mState EXCEPT ![current] = "RequeuePending"]
           \/ /\ pc[Loop] = "queue_store" /\ pc'[Loop] = "queue_cast"
              /\ mState' = [mState EXCEPT ![current] = "Queued"]
    BY
    DEF StoreStopped, StorePending, StoreQueued, LoopStores, SetState, Goto, At, list,
           loopLocals, ghosts
  <1>2. Busy(current) /\ (pc[Loop] = "queue_store" => Listed(current))
    BY <1>1 DEF States, LoopOK, Busy, ExecutingLabels, PendingLabels
  <1>3. \A u \in Threads : pc[u] \in {"remove", "schedule", "add"} => Target(u) # current
    BY <1>2 DEF States, TargetsOK, TargetOK, Busy
  <1>4. pc[Loop] # "queue_store" => ~Listed(current)
    BY <1>1, <1>2, <1>3 DEF States, ListedIsQueued, Busy
  <1>5. TargetsOK'
    <2> SUFFICES ASSUME NEW u \in Threads PROVE TargetOK(u)'
      BY DEF TargetsOK
    <2>1. CASE u = Loop
      BY <1>1, <2>1 DEF TargetOK
    <2>2. CASE u # Loop /\ Target(u) = current
      BY <1>1, <1>3, <2>2 DEF TargetOK
    <2>3. CASE u # Loop /\ Target(u) # current
      BY <1>1, <2>3 DEF States, TargetsOK, TargetOK, Target, Listed
    <2> QED
      BY <2>1, <2>2, <2>3
  <1>6. LoopOK'
    BY <1>1, <1>2
    DEF States, LoopOK, Busy, Owns, ExecutingLabels, PendingLabels, OpLabels
  <1>7. ListOK'
    BY <1>1 DEF States, ListOK, Sorted, Distinct
  <1>8. QueuedIsListed'
    BY <1>1, <1>2, QueuedKept DEF States, Listed, OpLabels
  <1>9. ListedIsQueued'
    BY <1>1, <1>4, ListedKept DEF States, Listed, Requeued, OpLabels
  <1>10. DeadOK' /\ NoOversleep'
    BY <1>1, <1>2 DEF States, DeadOK, NoOversleep, At, Busy
  <1> QED
    BY <1>5, <1>6, <1>7, <1>8, <1>9, <1>10 DEF States

\* requeueFromLoop() puts the timer back, ...
LEMMA RequeueKeepsStates ==
  ASSUME TypeOK, States, Requeue
  PROVE  States'
  <1> USE Constants DEF TypeOK
  <1>1. /\ UNCHANGED <<mState, mExpiry, current, call, dead>>
        /\ \A u \in Threads \ {Loop} : pc'[u] = pc[u]
        /\ pc[Loop] = "requeue" /\ pc'[Loop] = "recheck"
        /\ mTimers' = insertTimerLocked(current)
    BY DEF Requeue, Goto, At, atomics, loopLocals, ghosts
  <1>2. mState[current] = "RequeuePending"
    BY <1>1 DEF States, LoopOK, PendingLabels
  <1>3. /\ Sorted(mTimers') /\ Distinct(mTimers')
        /\ \A j \in Timers : Listed(j)' <=> Listed(j) \/ j = current
    BY <1>1, InsertKeepsList DEF States, Listed
  <1>4. TargetsOK'
    BY <1>1, <1>2, <1>3 DEF States, TargetsOK, TargetOK, Target
  <1>5. LoopOK'
    BY <1>1, <1>2, <1>3
    DEF States, LoopOK, Busy, Owns, ExecutingLabels, PendingLabels, OpLabels
  <1>6. ListOK'
    BY <1>1, <1>3 DEF ListOK, Sorted, Distinct
  <1>7. QueuedIsListed'
    BY <1>1, <1>3, QueuedKept DEF States, Listed, OpLabels
  <1>8. ListedIsQueued'
    BY <1>1, <1>3, ListedKept DEF States, Listed, Requeued, OpLabels
  <1>9. DeadOK' /\ NoOversleep'
    BY <1>1 DEF States, DeadOK, NoOversleep, At
  <1> QED
    BY <1>4, <1>5, <1>6, <1>7, <1>8, <1>9 DEF States

\* ... and takes it out again when it was stopped in the meantime.
LEMMA WithdrawKeepsStates ==
  ASSUME TypeOK, States, RecheckWithdraw
  PROVE  States'
  <1> USE Constants DEF TypeOK
  <1>1. /\ UNCHANGED <<mState, mExpiry, current, call, dead>>
        /\ \A u \in Threads \ {Loop} : pc'[u] = pc[u]
        /\ pc[Loop] = "recheck" /\ pc'[Loop] = "stop_store"
        /\ mTimers' = RemoveFirst(mTimers, current)
    BY DEF RecheckWithdraw, Goto, At, atomics, loopLocals, ghosts
  <1>2. mState[current] = "RequeuePending"
    BY <1>1 DEF States, LoopOK, PendingLabels
  <1>3. /\ Sorted(mTimers') /\ Distinct(mTimers')
        /\ \A j \in Timers : Listed(j)' <=> Listed(j) /\ j # current
    BY <1>1, RemoveFirstKeepsList DEF States, Listed
  <1>4. TargetsOK'
    BY <1>1, <1>2, <1>3 DEF States, TargetsOK, TargetOK, Target
  <1>5. LoopOK'
    BY <1>1, <1>2, <1>3
    DEF States, LoopOK, Busy, Owns, ExecutingLabels, PendingLabels, OpLabels
  <1>6. ListOK'
    BY <1>1, <1>3 DEF ListOK, Sorted, Distinct
  <1>7. QueuedIsListed'
    BY <1>1, <1>2, <1>3, QueuedKept DEF States, Listed, OpLabels
  <1>8. ListedIsQueued'
    BY <1>1, <1>3, ListedKept DEF States, Listed, Requeued, OpLabels
  <1>9. DeadOK' /\ NoOversleep'
    BY <1>1 DEF States, DeadOK, NoOversleep, At
  <1> QED
    BY <1>4, <1>5, <1>6, <1>7, <1>8, <1>9 DEF States

\* getNextTimerTimeout() and the start of epoll_wait().
LEMMA NextTimeoutKeepsStates ==
  ASSUME TypeOK, States, NextTimeout
  PROVE  States'
  <1> USE Constants DEF TypeOK
  <1>1. /\ UNCHANGED <<mState, mExpiry, mTimers>>
        /\ pc[Loop] = "timeout" /\ pc'[Loop] \in {"take", "wait"}
    BY DEF NextTimeout, Goto, At, atomics, list
  <1>2. LoopOK'
    BY <1>1 DEF States, LoopOK, Busy, Owns, ExecutingLabels, PendingLabels, OpLabels
  <1>3. NoOversleep'
    BY <1>1, TimeoutBound DEF NoOversleep, At
  <1> QED
    BY <1>1, <1>2, <1>3, LoopMovesKeepStates DEF LoopStep

\* The steps of the loop that change no timer, from where to where they go.
QuietMoves ==
  {<<"take", "timeout">>, <<"clear", "execute">>, <<"execute", "callback">>,
   <<"execute", "decide">>, <<"callback", "decide">>, <<"called", "decide">>,
   <<"decide", "stop_store">>, <<"stop_cast", "timeout">>, <<"pend_cast", "requeue">>,
   <<"queue_cast", "timeout">>, <<"requeue", "stop_store">>,
   <<"recheck", "queue_store">>, <<"wait", "take">>}

QuietStep ==
  \/ TakeNothing \/ Cleared \/ Execute \/ HandlerReturns \/ DecideStop
  \/ CastStopped \/ CastPending \/ CastQueued \/ RequeueRefused \/ RecheckKeep
  \/ Poll \/ Disturbed

\* They are the moves above.
LEMMA QuietStepsMove ==
  ASSUME TypeOK, QuietStep
  PROVE  /\ UNCHANGED <<mState, mExpiry, mTimers, now, current>>
         /\ <<pc[Loop], pc'[Loop]>> \in QuietMoves
  <1>a. pc \in [Threads -> Labels] /\ Loop \in Threads
    BY Constants DEF TypeOK
  <1> USE <1>a DEF Goto, At, atomics, list, loopLocals, QuietMoves
  <1>1. CASE CastStopped \/ CastPending \/ CastQueued
    BY <1>1 DEF CastStopped, CastPending, CastQueued, LoopBroadcasts, Broadcast
  <1>2. CASE TakeNothing \/ Cleared \/ Execute \/ HandlerReturns \/ DecideStop
    BY <1>2 DEF TakeNothing, Cleared, Execute, HandlerReturns, DecideStop
  <1>3. CASE RequeueRefused \/ RecheckKeep \/ Poll \/ Disturbed
    BY <1>3 DEF RequeueRefused, RecheckKeep, Poll, Disturbed
  <1> QED
    BY <1>1, <1>2, <1>3 DEF QuietStep

\* They keep what is known of the timers.
LEMMA QuietStepsKeepStates ==
  ASSUME TypeOK, States, QuietStep
  PROVE  States'
  <1>1. /\ UNCHANGED <<mState, mExpiry, mTimers, now, current>>
        /\ <<pc[Loop], pc'[Loop]>> \in QuietMoves
    BY QuietStepsMove
  <1>2. LoopOK'
    BY <1>1
    DEF States, LoopOK, Busy, Owns, ExecutingLabels, PendingLabels, OpLabels, Listed,
                QuietMoves
  <1>3. NoOversleep'
    BY <1>1 DEF NoOversleep, At, QuietMoves
  <1>4. pc[Loop] \in {"recheck", "queue_store"} => pc'[Loop] \in {"recheck", "queue_store"}
    BY <1>1 DEF QuietMoves
  <1> QED
    BY <1>1, <1>2, <1>3, <1>4, LoopMovesKeepStates DEF LoopStep, QuietStep

-------------------------------------------------------------------------------
(* The invariant *)

\* The steps of the operations keep what is known of the timers, ...
LEMMA CallStepsKeepStates ==
  ASSUME TypeOK, Rights, States, NEW t \in Threads, CallStep(t) \/ SpuriousWakeup(t)
  PROVE  States'
  <1> USE Constants DEF atomics, loopLocals, ghosts
  <1>1. CASE Restart(t) \/ ControlLock(t) \/ LoadBusy(t) \/ Check(t) \/ Block(t)
             \/ SpuriousWakeup(t)
    <2>1. PICK l \in OpLabels \ {"add", "remove", "schedule"} : pc' = [pc EXCEPT ![t] = l]
      BY <1>1
      DEF Restart, ControlLock, LoadBusy, Check, Block, SpuriousWakeup, Goto, OpLabels
    <2>2. /\ pc[t] \in OpLabels \ {"add", "remove", "wakeup"}
          /\ UNCHANGED <<mState, mExpiry, list, current, deadline, dead>>
      BY <1>1 DEF Restart, ControlLock, LoadBusy, Check, Block, SpuriousWakeup, OpLabels
    <2>3. \A u \in Threads \ {t} : Target(u)' = Target(u)
      BY <1>1
      DEF Restart, ControlLock, LoadBusy, Check, Block, SpuriousWakeup, Target, TypeOK
    <2>4. TargetOK(t)' /\ DeadOK'
      BY <2>1, <2>2 DEF TargetOK, States, DeadOK, TypeOK
    <2> QED
      BY <2>1, <2>2, <2>3, <2>4, MovesKeepStates DEF ExecutingLabels
  <1>2. CASE RequestStop(t) \/ ScheduleIgnored(t)
    <2>1. PICK l \in {Home(t), "check"} : pc' = [pc EXCEPT ![t] = l]
      BY <1>2 DEF RequestStop, ScheduleIgnored, ReleaseAndReturn, Return, Goto
    <2>2. /\ pc[t] \in {"flag", "schedule"}
          /\ UNCHANGED <<mState, mExpiry, list, current, deadline, dead>>
      BY <1>2 DEF RequestStop, ScheduleIgnored
    <2>3. \A u \in Threads \ {t} : Target(u)' = Target(u)
      BY <1>2 DEF RequestStop, ScheduleIgnored, ReleaseAndReturn, Return, Target, TypeOK
    <2>4. TargetOK(t)' /\ DeadOK'
      BY <2>1, <2>2 DEF TargetOK, States, DeadOK, TypeOK, Home
    <2>5. t = Loop => pc[t] \in ExecutingLabels /\ l \in ExecutingLabels
      BY <2>1, <2>2 DEF ExecutingLabels, OpLabels, Home
    <2> QED
      BY <2>1, <2>2, <2>3, <2>4, <2>5, MovesKeepStates
  <1> QED
    BY <1>1, <1>2, LoadStoppedKeepsStates, CancelKeepsStates, RemoveKeepsStates,
       ScheduleKeepsStates, AddKeepsStates, WakeupKeepsStates DEF CallStep

\* ... so do the calls ...
LEMMA CallsKeepStates ==
  ASSUME TypeOK, Rights, States, NEW t \in Threads, NEW i \in Timers, NEW o, NEW n, NEW r,
         Invoke(t, o, i, n, r) \/ Configure(t, o, i)
  PROVE  States'
  <1> USE DEF atomics, loopLocals, ghosts
  <1>1. PICK l \in {"load", "restart", "control", Home(t)} : pc' = [pc EXCEPT ![t] = l]
    BY DEF Invoke, Configure, Goto
  <1>2. /\ pc[t] \in {"idle", "callback"} /\ (t = Loop => pc[t] = "callback")
        /\ UNCHANGED <<mState, mExpiry, list, current, deadline, dead>>
    BY DEF Invoke, Configure, MayCall
  <1>3. \A u \in Threads \ {t} : Target(u)' = Target(u)
    BY DEF Invoke, Configure, Target, TypeOK
  <1>4. TargetOK(t)' /\ DeadOK'
    BY <1>1, <1>2 DEF TargetOK, States, DeadOK, TypeOK, Home
  <1>5. t = Loop => pc[t] \in ExecutingLabels /\ l \in ExecutingLabels
    BY <1>1, <1>2 DEF ExecutingLabels, OpLabels, Home
  <1> QED
    BY <1>1, <1>2, <1>3, <1>4, <1>5, MovesKeepStates

\* ... and every other step.
LEMMA NextKeepsStates ==
  ASSUME TypeOK, Rights, States, [Next]_vars
  PROVE  States'
  <1>1. CASE Tick \/ UNCHANGED vars
    <2>1. UNCHANGED <<atomics, list, pc, call, loopLocals, ghosts>>
      BY <1>1 DEF Tick, vars
    <2> QED
      BY <2>1
      DEF atomics, list, loopLocals, ghosts, States, TargetsOK, TargetOK, LoopOK,
                  ListOK, Sorted, Distinct, QueuedIsListed, ListedIsQueued, DeadOK,
                  NoOversleep, Target, Listed, Busy, Owns, At
  <1>2. CASE LoopStep \/ Disturbed
    BY <1>2, TakeKeepsStates, DecideKeepKeepsStates, StoresKeepStates, RequeueKeepsStates,
       WithdrawKeepsStates, NextTimeoutKeepsStates, QuietStepsKeepStates
    DEF LoopStep, QuietStep
  <1> QED
    BY <1>1, <1>2, CallStepsKeepStates, CallsKeepStates DEF Next

\* Init establishes the invariant: no timer is started, no thread in a call.
LEMMA TimersInitial ==
  ASSUME Init
  PROVE  TimersIInv
  <1> USE Constants, TimersAssumption DEF Init
  <1>1. TypeOK
    <2>1. /\ mTimers \in Seq(Timers) /\ now \in Nat /\ deadline \in 0 .. now + WaitTime
          /\ mExpiry \in [Timers -> Nat]
      OBVIOUS
    <2>2. pc \in [Threads -> Labels]
      BY DEF Labels
    <2>3. /\ mState \in [Timers -> TimerStates]
          /\ mInterval \in [Timers -> Intervals \cup {Infinite}]
          /\ control \in [Timers -> Threads \cup {Nobody}]
      BY DEF TimerStates
    <2> QED
      BY <2>1, <2>2, <2>3 DEF TypeOK
  <1>2. Rights
    BY DEF Rights, ThreadsOK, CallsOK, CallOK, DestroysAlone, OpLabels, Threads
  <1>3. States
    BY
    DEF States, TargetsOK, TargetOK, LoopOK, ListOK, Sorted, Distinct, QueuedIsListed,
           ListedIsQueued, DeadOK, NoOversleep, Listed, Contains, Busy, Owns, At,
           ExecutingLabels, PendingLabels, OpLabels
  <1> QED
    BY <1>1, <1>2, <1>3 DEF TimersIInv

\* The invariant holds in every reachable state.
THEOREM TimersInductive == Spec => []TimersIInv
  <1>1. TimersIInv /\ [Next]_vars => TimersIInv'
    <2> SUFFICES ASSUME TimersIInv, [Next]_vars PROVE TimersIInv'
      OBVIOUS
    <2> QED
      BY NextKeepsTypes, NextKeepsRights, NextKeepsStates DEF TimersIInv, States
  <1> QED
    BY <1>1, TimersInitial, PTL DEF Spec

\* The types hold.
THEOREM TypesHold == Spec => []TypeOK
  BY TimersInductive, PTL DEF TimersIInv

\* MainLoop's list is sorted by expiry without duplicates, and what is queued is in
\* it, whatever the threads and the loop do to it.
THEOREM ListStaysSound == Spec => []ListIsSound
  <1>1. TimersIInv => ListIsSound
    <2> SUFFICES ASSUME TimersIInv PROVE ListIsSound
      OBVIOUS
    <2>1. \A k \in 1 .. Len(mTimers) - 1 : k \in DOMAIN mTimers /\ k + 1 \in DOMAIN mTimers
      BY DEF TimersIInv, TypeOK
    <2>2. \A k \in 1 .. Len(mTimers) - 1 : mExpiry[mTimers[k]] <= mExpiry[mTimers[k + 1]]
      BY <2>1 DEF TimersIInv, States, ListOK, Sorted
    <2> QED
      BY <2>2
      DEF TimersIInv, States, ListOK, Distinct, QueuedIsListed, ListedIsQueued,
          ListIsSound
  <1> QED
    BY <1>1, TimersInductive, PTL

\* The loop never blocks in epoll_wait() beyond the first expiry unless a wakeup()
\* is on its way.
THEOREM NeverOversleeps == Spec => []NoOversleep
  BY TimersInductive, PTL DEF TimersIInv, States

\* Once ~Timer() has returned neither the list, nor a thread, nor the loop has the
\* timer (the last broadcast apart).
THEOREM DestroyedStaysGone == Spec => []DestroyedIsGone
  <1>1. TimersIInv => DestroyedIsGone
    <2> SUFFICES ASSUME TimersIInv, NEW i \in dead
                 PROVE  /\ ~Listed(i) /\ ~Owns(i) /\ mState[i] = "Stopped"
                        /\ \A t \in Threads : ~Using(t, i)
      BY DEF DestroyedIsGone
    <2> USE DEF TimersIInv
    <2>1. i \in Timers /\ mState[i] = "Stopped"
      BY DEF TypeOK, States, DeadOK
    <2>2. \A t \in Threads : ~Using(t, i)
      BY DEF Rights, CallsOK, CallOK, Using
    <2>3. ~Owns(i)
      BY <2>1 DEF States, LoopOK, Owns, Busy, ExecutingLabels, PendingLabels
    <2>4. ~Listed(i)
      <3>1. \A t \in Threads : ~(pc[t] = "remove" /\ Target(t) = i)
        BY <2>2 DEF Using, OpLabels
      <3>2. ~(current = i /\ pc[Loop] \in {"recheck", "queue_store"})
        BY <2>3 DEF Owns
      <3> QED
        BY <2>1, <3>1, <3>2 DEF States, ListedIsQueued
    <2> QED
      BY <2>1, <2>2, <2>3, <2>4
  <1> QED
    BY <1>1, TimersInductive, PTL

\* A handler, in the loop's thread, is not inside an operation on its own timer.
HandlerElsewhere == pc[Loop] \in OpLabels => Target(Loop) # current

\* An operation keeps its timer, and the loop enters one from a handler only.
LEMMA CallStepsStayElsewhere ==
  ASSUME TypeOK, HandlerElsewhere, NEW t \in Threads, CallStep(t) \/ SpuriousWakeup(t)
  PROVE  HandlerElsewhere'
  <1> USE Constants DEF TypeOK, Goto, Target
  <1>1. UNCHANGED current /\ pc[t] \in OpLabels
    BY DEF CallStep, Restart, ControlLock, LoadStopped, CancelQueued, LoadBusy, RemoveTimer,
           RequestStop, Check, Block, Schedule, ScheduleIgnored, AddTimer, Wakeup,
           SpuriousWakeup, loopLocals, OpLabels
  <1>2. \A u \in Threads \ {t} : pc'[u] = pc[u] /\ call'[u] = call[u]
    <2>1. CASE LoadStopped(t) \/ RemoveTimer(t) \/ RequestStop(t)
      BY <2>1 DEF LoadStopped, RemoveTimer, RequestStop, Halted, ReleaseAndReturn, Return
    <2>2. CASE ScheduleIgnored(t) \/ Wakeup(t)
      BY <2>2 DEF ScheduleIgnored, Wakeup, ReleaseAndReturn, Return
    <2>3. CASE Restart(t) \/ ControlLock(t) \/ CancelQueued(t) \/ LoadBusy(t)
      BY <2>3 DEF Restart, ControlLock, CancelQueued, LoadBusy
    <2>4. CASE Check(t) \/ Block(t) \/ Schedule(t) \/ AddTimer(t) \/ SpuriousWakeup(t)
      BY <2>4 DEF Check, Block, Schedule, AddTimer, SpuriousWakeup
    <2> QED
      BY <2>1, <2>2, <2>3, <2>4 DEF CallStep
  <1>3. pc'[t] \in OpLabels => call'[t].timer = call[t].timer
    <2>1. CASE LoadStopped(t) \/ RemoveTimer(t) \/ RequestStop(t)
      BY <2>1 DEF LoadStopped, RemoveTimer, RequestStop, Halted, ReleaseAndReturn, Return,
                  Home, OpLabels
    <2>2. CASE ScheduleIgnored(t) \/ Wakeup(t)
      BY <2>2 DEF ScheduleIgnored, Wakeup, ReleaseAndReturn, Return, Home, OpLabels
    <2>3. CASE Restart(t)
      BY <2>3 DEF Restart
    <2>4. CASE ControlLock(t) \/ CancelQueued(t) \/ LoadBusy(t)
      BY <2>4 DEF ControlLock, CancelQueued, LoadBusy
    <2>5. CASE Check(t) \/ Block(t) \/ Schedule(t) \/ AddTimer(t) \/ SpuriousWakeup(t)
      BY <2>5 DEF Check, Block, Schedule, AddTimer, SpuriousWakeup
    <2> QED
      BY <2>1, <2>2, <2>3, <2>4, <2>5 DEF CallStep
  <1> QED
    BY <1>1, <1>2, <1>3 DEF HandlerElsewhere

\* Whoever waits until the loop has given a timer up, the loop does not wait for
\* him: neither is it the loop itself, nor is the loop after the lock he holds.
THEOREM NobodyWaitsInCircles == Spec => []NoCircularWait
  <1>1. Init => HandlerElsewhere
    BY Constants DEF Init, HandlerElsewhere, OpLabels
  <1>2. TypeOK /\ HandlerElsewhere /\ [Next]_vars => HandlerElsewhere'
    <2> SUFFICES ASSUME TypeOK, HandlerElsewhere, [Next]_vars PROVE HandlerElsewhere'
      OBVIOUS
    <2>1. ASSUME NEW t \in Threads, CallStep(t) \/ SpuriousWakeup(t)
          PROVE  HandlerElsewhere'
      BY <2>1, CallStepsStayElsewhere
    <2>2. ASSUME NEW t \in Threads, NEW i \in Timers, NEW o, NEW n, NEW r,
                 Invoke(t, o, i, n, r)
          PROVE  HandlerElsewhere'
      BY <2>2, Constants DEF Invoke, Goto, TypeOK, HandlerElsewhere, Target, loopLocals
    <2>3. ASSUME NEW t \in Threads, NEW i \in Timers, NEW o, Configure(t, o, i)
          PROVE  HandlerElsewhere'
      BY <2>3, Constants
      DEF Configure, Goto, Home, TypeOK, HandlerElsewhere, Target, OpLabels, loopLocals
    <2>4. CASE LoopStep \/ Disturbed
      BY <2>4, LoopStepsLeaveCalls DEF HandlerElsewhere
    <2>5. CASE Tick \/ UNCHANGED vars
      BY <2>5 DEF Tick, vars, loopLocals, HandlerElsewhere, Target
    <2> QED
      BY <2>1, <2>2, <2>3, <2>4, <2>5 DEF Next
  <1>3. TimersIInv /\ HandlerElsewhere => NoCircularWait
    <2> SUFFICES ASSUME TimersIInv, HandlerElsewhere, NEW t \in Threads,
                        pc[t] \in {"check", "block", "blocked"}, Busy(Target(t))
                 PROVE  t # Loop /\ ~Using(Loop, Target(t))
      BY DEF NoCircularWait
    <2>1. Target(t) \in Timers /\ current = Target(t)
      BY DEF TimersIInv, TypeOK, Target, States, LoopOK, Owns
    <2>2. pc[t] \in OpLabels
      BY DEF OpLabels
    <2> QED
      BY <2>1, <2>2 DEF HandlerElsewhere, Using
  <1> QED
    BY TimersInductive, <1>1, <1>2, <1>3, PTL DEF Spec, TimersIInv

-------------------------------------------------------------------------------
(* The contract *)

\* What the contract sees of timer i's expiry.
Due(i) == IF mState[i] \in {"Queued", "RequeuePending"} THEN mExpiry[i] ELSE 0

\* The loop is where it was, as far as Phase() can tell.
SamePlace ==
  /\ pc[Loop] \in {"clear", "execute"} <=> pc'[Loop] \in {"clear", "execute"}
  /\ pc[Loop] \in {"callback", "called"} \cup OpLabels
       <=> pc'[Loop] \in {"callback", "called"} \cup OpLabels

\* The phase of a timer changes with its mState, and while it executes with the
\* place of the loop.
LEMMA PhaseKept ==
  ASSUME TypeOK, NEW j \in Timers, mState'[j] = mState[j],
         mState[j] # "Executing" \/ SamePlace
  PROVE  Phase(j)' = Phase(j)
  <1>1. CASE mState[j] = "Executing"
    BY <1>1 DEF Phase, SamePlace
  <1>2. CASE mState[j] # "Executing"
    <2>1. CASE mState[j] = "Stopped"
      BY <2>1 DEF Phase
    <2>2. CASE mState[j] = "Queued"
      BY <2>2 DEF Phase
    <2>3. CASE mState[j] = "RequeuePending"
      BY <2>3 DEF Phase
    <2> QED
      BY <1>2, <2>1, <2>2, <2>3 DEF TypeOK, TimerStates
  <1> QED
    BY <1>1, <1>2

\* A step that changes the phase of timer i only.
LEMMA PhaseMoves ==
  ASSUME NEW i \in Timers, NEW from, NEW to, Phase(i) = from, Phase(i)' = to,
         \A j \in Timers \ {i} : Phase(j)' = Phase(j)
  PROVE  Contract!Move(i, from, to)
  BY DEF Contract!Move

\* A step that changes the expiry of timer i only.
LEMMA DueChanges ==
  ASSUME NEW i \in Timers, mExpiry' \in [Timers -> Nat],
         \A j \in Timers \ {i} : Due(j)' = Due(j)
  PROVE  Contract!NewDue(i)
  BY DEF Contract!NewDue, Due

\* A step that the contract does not see, ...
LEMMA ContractStutters ==
  ASSUME UNCHANGED now, \A j \in Timers : Phase(j)' = Phase(j) /\ Due(j)' = Due(j)
  PROVE  UNCHANGED Contract!vars
  BY DEF Contract!vars, Due

\* ... or sees in the phases only.
LEMMA DueKept ==
  ASSUME \A j \in Timers : Due(j)' = Due(j)
  PROVE  UNCHANGED [i \in Timers |->
            IF mState[i] \in {"Queued", "RequeuePending"} THEN mExpiry[i] ELSE 0]
  BY DEF Due

\* A step of a caller leaves the loop's place alone.
LEMMA CallersKeepPlace ==
  ASSUME TypeOK, Rights, NEW t \in Threads, NEW l \in OpLabels \cup {Home(t)},
         pc[t] \in OpLabels \cup {"idle", "callback"},
         t = Loop => pc[t] # "idle",
         pc' = [pc EXCEPT ![t] = l]
  PROVE  SamePlace
  BY DEF TypeOK, SamePlace, Home, OpLabels

\* Of the operations, start() arms a timer and stop() cancels one.
LEMMA CallStepsRefine ==
  ASSUME TimersIInv, TimersIInv', NEW t \in Threads, CallStep(t) \/ SpuriousWakeup(t)
  PROVE  [Contract!Next]_(Contract!vars)
  <1> USE Constants DEF atomics, list, loopLocals, ghosts
  <1>1. Target(t) \in Timers /\ TypeOK /\ Rights /\ States /\ mExpiry' \in [Timers -> Nat]
    BY DEF TimersIInv, TypeOK, Target
  <1>2. pc[t] \in OpLabels /\ UNCHANGED now
    BY
    DEF CallStep, Restart, ControlLock, LoadStopped, CancelQueued, LoadBusy,
        RemoveTimer,
           RequestStop, Check, Block, SpuriousWakeup, Schedule, ScheduleIgnored, AddTimer,
           Wakeup, OpLabels
  <1>3. \E l \in OpLabels \cup {Home(t)} : pc' = [pc EXCEPT ![t] = l]
    <2>1. CASE LoadStopped(t) \/ RemoveTimer(t)
      BY <1>1, <2>1, HaltedMoves DEF LoadStopped, RemoveTimer, OpLabels
    <2> QED
      BY <2>1
      DEF CallStep, Restart, ControlLock, CancelQueued, LoadBusy, RequestStop, Check,
                  Block, SpuriousWakeup, Schedule, ScheduleIgnored, AddTimer, Wakeup, Goto,
                  ReleaseAndReturn, Return, OpLabels
  <1>4. SamePlace
    BY <1>1, <1>2, <1>3, CallersKeepPlace DEF OpLabels
  <1> PICK i \in Timers : i = Target(t)
    BY <1>1
  <1>5. CASE CancelQueued(t)
    <2>1. /\ mState[i] = "Queued" /\ mState' = [mState EXCEPT ![i] = "Stopped"]
          /\ mExpiry' = mExpiry
      BY <1>5 DEF CancelQueued, SetState
    <2>2. \A j \in Timers \ {i} : Phase(j)' = Phase(j) /\ Due(j)' = Due(j)
      BY <1>1, <1>4, <2>1, PhaseKept DEF Due, TypeOK
    <2>3. Phase(i) = "armed" /\ Phase(i)' = "off"
      BY <1>1, <2>1 DEF Phase, TypeOK
    <2>4. Contract!Cancel(i)
      BY <1>1, <1>2, <2>2, <2>3, PhaseMoves, DueChanges DEF Contract!Cancel
    <2> QED
      BY <2>4 DEF Contract!Next
  <1>6. CASE Schedule(t)
    <2>1. mState' = [mState EXCEPT ![i] = "Queued"] /\ mState[i] = "Stopped"
          /\ \A j \in Timers \ {i} : mExpiry'[j] = mExpiry[j]
      BY <1>1, <1>6 DEF Schedule, SetState, States, TargetsOK, TargetOK, TypeOK
    <2>2. \A j \in Timers \ {i} : Phase(j)' = Phase(j) /\ Due(j)' = Due(j)
      BY <1>1, <1>4, <2>1, PhaseKept DEF Due, TypeOK
    <2>3. Phase(i) = "off" /\ Phase(i)' = "armed"
      BY <1>1, <2>1 DEF Phase, TypeOK
    <2>4. Contract!Start(i)
      BY <1>1, <1>2, <2>2, <2>3, PhaseMoves, DueChanges DEF Contract!Start
    <2> QED
      BY <2>4 DEF Contract!Next
  <1>7. CASE ~CancelQueued(t) /\ ~Schedule(t)
    <2>1. UNCHANGED <<mState, mExpiry>>
      BY <1>7 DEF CallStep, Restart, ControlLock, LoadStopped, LoadBusy, RemoveTimer,
           RequestStop, Check, Block, SpuriousWakeup, ScheduleIgnored, AddTimer, Wakeup
    <2>2. \A j \in Timers : Phase(j)' = Phase(j) /\ Due(j)' = Due(j)
      BY <1>1, <1>4, <2>1, PhaseKept DEF Due
    <2> QED
      BY <1>2, <2>2, ContractStutters
  <1> QED
    BY <1>5, <1>6, <1>7

\* The begin of a call, and the setters, are not seen.
LEMMA CallsRefine ==
  ASSUME TimersIInv, NEW t \in Threads, NEW i \in Timers, NEW o, NEW n, NEW r,
         Invoke(t, o, i, n, r) \/ Configure(t, o, i)
  PROVE  UNCHANGED Contract!vars
  <1> USE DEF atomics
  <1>1. PICK l \in OpLabels \cup {Home(t)} : pc' = [pc EXCEPT ![t] = l]
    BY DEF Invoke, Configure, Goto, OpLabels
  <1>2. /\ pc[t] \in {"idle", "callback"} /\ (t = Loop => pc[t] = "callback")
        /\ UNCHANGED <<mState, mExpiry, now>>
    BY DEF Invoke, Configure, MayCall
  <1>3. SamePlace
    BY <1>1, <1>2, CallersKeepPlace DEF TimersIInv
  <1> QED
    BY <1>2, <1>3, PhaseKept, ContractStutters DEF TimersIInv, Due

\* When the loop changes one timer's mState, the others' phases stay.
LEMMA StoreMoves ==
  ASSUME TimersIInv, TimersIInv', NEW i \in Timers, NEW v,
         mState' = [mState EXCEPT ![i] = v], mExpiry' = mExpiry,
         \A j \in Timers \ {i} : mState[j] # "Executing"
  PROVE  /\ \A j \in Timers \ {i} : Phase(j)' = Phase(j) /\ Due(j)' = Due(j)
         /\ Contract!NewDue(i)
  <1>1. \A j \in Timers \ {i} : Phase(j)' = Phase(j) /\ Due(j)' = Due(j)
    BY PhaseKept DEF TimersIInv, TypeOK, Due
  <1> QED
    BY <1>1, DueChanges DEF TimersIInv, TypeOK

\* The loop executes one timer at a time.
LEMMA OneExecuting ==
  ASSUME TimersIInv, NEW j \in Timers, Busy(j)
  PROVE  j = current /\ pc[Loop] \in ExecutingLabels \cup PendingLabels \cup {"stop_store"}
  BY DEF TimersIInv, States, LoopOK, Owns, ExecutingLabels, PendingLabels

\* tryBeginExecuteFromLoop() fires a timer that is armed and due, alone.
LEMMA TakeRefines ==
  ASSUME TimersIInv, TimersIInv', TakeExpired
  PROVE  Contract!Next
  <1> PICK i \in Timers : i = Head(mTimers)
    BY DEF TakeExpired, TimersIInv, TypeOK
  <1>1. /\ pc[Loop] = "take" /\ pc'[Loop] = "clear" /\ mExpiry[i] <= now
        /\ mState[i] = "Queued" /\ mState' = [mState EXCEPT ![i] = "Executing"]
        /\ UNCHANGED <<mExpiry, now>>
    BY Constants DEF TakeExpired, SetState, Goto, At, Expired, TimersIInv, TypeOK
  <1>2. \A j \in Timers : ~Busy(j)
    BY <1>1, OneExecuting DEF ExecutingLabels, PendingLabels, OpLabels
  <1>3. /\ \A j \in Timers \ {i} : Phase(j)' = Phase(j) /\ Due(j)' = Due(j)
        /\ Contract!NewDue(i)
    BY <1>1, <1>2, StoreMoves DEF Busy
  <1>4. Phase(i) = "armed" /\ Phase(i)' = "fired"
    BY <1>1 DEF Phase, TimersIInv, TypeOK, OpLabels
  <1>5. \A j \in Timers : Phase(j) \notin Contract!Taken
    BY <1>2 DEF Phase, Busy, Contract!Taken, TimersIInv, TypeOK, TimerStates
  <1>6. Contract!Fire(i)
    BY <1>1, <1>3, <1>4, <1>5, PhaseMoves DEF Contract!Fire
  <1> QED
    BY <1>6 DEF Contract!Next

\* The stores of mState end the work on a timer or arm it again.
LEMMA StoresRefine ==
  ASSUME TimersIInv, TimersIInv', StoreStopped \/ StorePending \/ StoreQueued
  PROVE  Contract!Next
  <1> PICK i \in Timers : i = current
    BY DEF TimersIInv, TypeOK
  <1>1. UNCHANGED <<mExpiry, now>>
    BY DEF StoreStopped, StorePending, StoreQueued, LoopStores
  <1>2. \A j \in Timers \ {i} : mState[j] # "Executing"
    BY OneExecuting DEF Busy
  <1> USE Constants DEF LoopStores, SetState, Goto, At
  <1>3. CASE StoreStopped
    <2>1. /\ pc[Loop] = "stop_store" /\ mState' = [mState EXCEPT ![i] = "Stopped"] /\ Busy(i)
      BY <1>3 DEF StoreStopped, TimersIInv, States, LoopOK
    <2>2. /\ \A j \in Timers \ {i} : Phase(j)' = Phase(j) /\ Due(j)' = Due(j)
          /\ Contract!NewDue(i)
      BY <1>1, <1>2, <2>1, StoreMoves
    <2>3. Phase(i)' = "off"
      BY <2>1 DEF Phase, TimersIInv, TypeOK
    <2>4. CASE mState[i] = "RequeuePending"
      <3>1. Phase(i) = "rearming"
        BY <2>4 DEF Phase
      <3>2. Contract!GiveUp(i)
        BY <1>1, <2>2, <2>3, <3>1, PhaseMoves DEF Contract!GiveUp
      <3> QED
        BY <3>2 DEF Contract!Next
    <2>5. CASE mState[i] = "Executing"
      <3>1. Phase(i) = "called"
        BY <2>1, <2>5 DEF Phase, OpLabels
      <3>2. \A j \in Timers : Due(j)' = Due(j)
        BY <2>1, <2>2, <2>5 DEF Due, TimersIInv, TypeOK
      <3>3. Contract!Finish(i)
        BY <1>1, <2>2, <2>3, <3>1, <3>2, PhaseMoves, DueKept DEF Contract!Finish
      <3> QED
        BY <3>3 DEF Contract!Next
    <2> QED
      BY <2>1, <2>4, <2>5 DEF Busy
  <1>4. CASE StorePending
    <2>1. /\ pc[Loop] = "pend" /\ mState' = [mState EXCEPT ![i] = "RequeuePending"]
          /\ mState[i] = "Executing"
      BY <1>4 DEF StorePending, TimersIInv, States, LoopOK, ExecutingLabels
    <2>2. /\ \A j \in Timers \ {i} : Phase(j)' = Phase(j) /\ Due(j)' = Due(j)
          /\ Contract!NewDue(i)
      BY <1>1, <1>2, <2>1, StoreMoves
    <2>3. Phase(i) = "called" /\ Phase(i)' = "rearming"
      BY <2>1 DEF Phase, TimersIInv, TypeOK, OpLabels
    <2>4. Contract!Keep(i)
      BY <1>1, <2>2, <2>3, PhaseMoves DEF Contract!Keep
    <2> QED
      BY <2>4 DEF Contract!Next
  <1>5. CASE StoreQueued
    <2>1. /\ pc[Loop] = "queue_store" /\ mState' = [mState EXCEPT ![i] = "Queued"]
          /\ mState[i] = "RequeuePending"
      BY <1>5 DEF StoreQueued, TimersIInv, States, LoopOK, PendingLabels
    <2>2. /\ \A j \in Timers \ {i} : Phase(j)' = Phase(j) /\ Due(j)' = Due(j)
      BY <1>1, <1>2, <2>1, StoreMoves
    <2>3. Phase(i) = "rearming" /\ Phase(i)' = "armed"
      BY <2>1 DEF Phase, TimersIInv, TypeOK
    <2>4. \A j \in Timers : Due(j)' = Due(j)
      BY <1>1, <2>1, <2>2 DEF Due, TimersIInv, TypeOK
    <2>5. Contract!Rearm(i)
      BY <1>1, <2>2, <2>3, <2>4, PhaseMoves, DueKept DEF Contract!Rearm
    <2> QED
      BY <2>5 DEF Contract!Next
  <1> QED
    BY <1>3, <1>4, <1>5

\* The other steps of the loop: the call of the handler and its return, and
\* steps that the contract does not see.
LEMMA QuietStepsRefine ==
  ASSUME TimersIInv, TimersIInv', QuietStep
  PROVE  [Contract!Next]_(Contract!vars)
  <1>1. /\ UNCHANGED <<mState, mExpiry, mTimers, now, current>>
        /\ <<pc[Loop], pc'[Loop]>> \in QuietMoves
    BY QuietStepsMove DEF TimersIInv
  <1>2. \A j \in Timers : Due(j)' = Due(j)
    BY <1>1 DEF Due
  <1>3. CASE pc[Loop] \in {"execute", "callback", "called"}
    <2> PICK i \in Timers : i = current
      BY DEF TimersIInv, TypeOK
    <2>1. mState[i] = "Executing" /\ pc'[Loop] \in {"callback", "decide"}
          /\ (pc[Loop] # "execute" => pc'[Loop] = "decide")
      BY <1>1, <1>3 DEF TimersIInv, States, LoopOK, ExecutingLabels, QuietMoves
    <2>2. \A j \in Timers \ {i} : Phase(j)' = Phase(j)
      BY <1>1, PhaseKept, OneExecuting DEF TimersIInv, Busy
    <2>3. Phase(i) = IF pc[Loop] = "execute" THEN "fired" ELSE "calling"
      BY <1>3, <2>1 DEF Phase, OpLabels
    <2>4. Phase(i)' = IF pc'[Loop] = "callback" THEN "calling" ELSE "called"
      BY <1>1, <2>1 DEF Phase, OpLabels
    <2>5. Contract!CallHandler(i) \/ Contract!NoHandler(i) \/ Contract!HandlerReturns(i)
      BY <1>1, <1>2, <1>3, <2>1, <2>2, <2>3, <2>4, PhaseMoves, DueKept
      DEF Contract!CallHandler, Contract!NoHandler, Contract!HandlerReturns
    <2> QED
      BY <2>5 DEF Contract!Next
  <1>4. CASE pc[Loop] \notin {"execute", "callback", "called"}
    <2>1. SamePlace
      BY <1>1, <1>4 DEF SamePlace, QuietMoves, OpLabels
    <2> QED
      BY <1>1, <1>2, <2>1, PhaseKept, ContractStutters DEF TimersIInv
  <1> QED
    BY <1>3, <1>4

\* What the loop does to its list, and its choice of the timeout, are not seen.
LEMMA ListStepsRefine ==
  ASSUME TimersIInv,
         TakeCancelled \/ DecideKeep \/ Requeue \/ RecheckWithdraw \/ NextTimeout
  PROVE  UNCHANGED Contract!vars
  <1> USE Constants DEF atomics, Goto, At
  <1>1. UNCHANGED <<mState, now>>
    BY DEF TakeCancelled, DecideKeep, Requeue, RecheckWithdraw, NextTimeout
  <1>2. SamePlace
    <2>1. /\ pc[Loop] \in {"take", "decide", "requeue", "recheck", "timeout"}
          /\ pc'[Loop] \in {"timeout", "pend", "recheck", "stop_store", "take", "wait"}
      BY
      DEF TakeCancelled, DecideKeep, Requeue, RecheckWithdraw, NextTimeout,
          TimersIInv, TypeOK
    <2> QED
      BY <2>1 DEF SamePlace, OpLabels
  <1>3. \A j \in Timers : Due(j)' = Due(j)
    <2>1. CASE DecideKeep
      <3>1. mState[current] = "Executing"
        BY <2>1 DEF DecideKeep, TimersIInv, States, LoopOK, ExecutingLabels
      <3>2. \A j \in Timers : j # current => mExpiry'[j] = mExpiry[j]
        BY <2>1 DEF DecideKeep, TimersIInv, TypeOK
      <3> QED
        BY <1>1, <3>1, <3>2 DEF Due
    <2>2. CASE ~DecideKeep
      BY <1>1, <2>2 DEF Due, TakeCancelled, Requeue, RecheckWithdraw, NextTimeout
    <2> QED
      BY <2>1, <2>2
  <1> QED
    BY <1>1, <1>2, <1>3, PhaseKept, ContractStutters DEF TimersIInv

\* Every step is a step of the contract or none.
LEMMA NextRefines ==
  ASSUME TimersIInv, TimersIInv', [Next]_vars
  PROVE  [Contract!Next]_(Contract!vars)
  <1>1. CASE Tick
    <2>1. now' = now + 1 /\ UNCHANGED <<atomics, pc>>
      BY <1>1 DEF Tick
    <2>2. \A j \in Timers : Phase(j)' = Phase(j) /\ Due(j)' = Due(j)
      BY <2>1 DEF Phase, Due, atomics
    <2>3. Contract!Advance
      BY <2>1, <2>2, DueKept DEF Contract!Advance
    <2> QED
      BY <2>3 DEF Contract!Next
  <1>2. CASE UNCHANGED vars
    <2>1. \A j \in Timers : Phase(j)' = Phase(j) /\ Due(j)' = Due(j)
      BY <1>2 DEF Phase, Due, vars, atomics
    <2> QED
      BY <1>2, <2>1, ContractStutters DEF vars
  <1>3. CASE LoopStep \/ Disturbed
    BY <1>3, TakeRefines, StoresRefine, QuietStepsRefine, ListStepsRefine
    DEF LoopStep, QuietStep
  <1> QED
    BY <1>1, <1>2, <1>3, CallStepsRefine, CallsRefine DEF Next

\* Whatever the threads do, the timers keep the contract.
THEOREM ContractKept == Spec => ContractSpec
  <1>1. Init => Contract!Init
    BY DEF Init, Contract!Init, Phase
  <1> QED
    BY <1>1, NextRefines, TimersInductive, PTL DEF Spec, ContractSpec, Contract!Spec
===============================================================================
