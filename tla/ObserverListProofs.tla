-------------------------- MODULE ObserverListProofs --------------------------
(***************************************************************************)
(* The table of a RawObserverList is sound, whoever waits for a removal is *)
(* told, and the list keeps the promises of ObserverContract.              *)
(***************************************************************************)
EXTENDS ObserverList, FiniteSetTheorems, TLAPS

-------------------------------------------------------------------------------
(* The inductive invariant *)

\* An observer is in one slot only, only an entry that has been removed is
\* waited for, and no entry is younger than the list.
EntrySound(i) ==
  /\ mEntries[i].waitingRemoval => mEntries[i].removed
  /\ mEntries[i].generation <= mGeneration
  /\ i \in mOccupied => mEntries[i].observer \in Observers
  /\ \A j \in mOccupied :
       i \in mOccupied /\ mEntries[i].observer = mEntries[j].observer => i = j

\* A notification is not younger than the list, and a thread that is in none
\* has no snapshot.
ThreadSound(t) ==
  /\ startGeneration[t] <= mGeneration
  /\ pc[t] \notin {"next", "calling", "cast"} => todo[t] = {}

EntriesAccounted == \A i \in Slots : EntryAccounted(i)

EntriesSound == \A i \in Slots : EntrySound(i)

ThreadsSound == \A t \in Threads : ThreadSound(t)

ListIInv ==
  TypeOK /\ EntriesAccounted /\ EntriesSound /\ ThreadsSound /\ WaiterNoticed

-------------------------------------------------------------------------------
(* Entries *)

\* What the assumptions on the constants say of the first slot, the first
\* generation and a free entry.
LEMMA Constants ==
  /\ 0 \in Slots
  /\ Slots \subseteq Nat
  /\ 0 \in Generations
  /\ Generations \subseteq Nat
  /\ Empty \in Entries
<1>1. 0 \in Slots /\ Slots \subseteq Nat
  BY MaxObserversAssumption, SMT DEF Slots
<1>2. 0 \in Generations /\ Generations \subseteq Nat
  BY GenerationAssumption, SMT DEF Generations
<1>3. Empty \in Entries
  BY <1>2, SMT DEF Empty, Entries
<1> QED
  BY <1>1, <1>2, <1>3

\* The four ways in which an entry changes, besides being freed.
Counted(e, n) == [e EXCEPT !.activeCalls = n]

Marked(e) == [e EXCEPT !.removed = TRUE]

Claimed(e) == [e EXCEPT !.removed = TRUE, !.waitingRemoval = TRUE]

Fresh(x, n) == [Empty EXCEPT !.observer = x, !.generation = n]

\* Nothing but the field in question changes.
LEMMA CountedFields ==
  ASSUME NEW e \in Entries, NEW n \in Nat
  PROVE  /\ Counted(e, n) \in Entries
         /\ Counted(e, n).observer = e.observer
         /\ Counted(e, n).activeCalls = n
         /\ Counted(e, n).generation = e.generation
         /\ Counted(e, n).removed = e.removed
         /\ Counted(e, n).waitingRemoval = e.waitingRemoval
  BY SMT DEF Entries, Counted

\* The flag that remove() sets.
LEMMA RemovedField ==
  ASSUME NEW e \in Entries, NEW b \in BOOLEAN
  PROVE  LET r == [e EXCEPT !.removed = b] IN
         /\ r \in Entries
         /\ r.observer = e.observer
         /\ r.activeCalls = e.activeCalls
         /\ r.generation = e.generation
         /\ r.removed = b
         /\ r.waitingRemoval = e.waitingRemoval
  BY SMT DEF Entries

\* The flag of the thread that waits.
LEMMA WaitingField ==
  ASSUME NEW e \in Entries, NEW b \in BOOLEAN
  PROVE  LET r == [e EXCEPT !.waitingRemoval = b] IN
         /\ r \in Entries
         /\ r.observer = e.observer
         /\ r.activeCalls = e.activeCalls
         /\ r.generation = e.generation
         /\ r.removed = e.removed
         /\ r.waitingRemoval = b
  BY SMT DEF Entries

\* remove() of an observer that somebody is at.
LEMMA MarkedFields ==
  ASSUME NEW e \in Entries
  PROVE  /\ Marked(e) \in Entries
         /\ Marked(e).observer = e.observer
         /\ Marked(e).activeCalls = e.activeCalls
         /\ Marked(e).generation = e.generation
         /\ Marked(e).removed
         /\ Marked(e).waitingRemoval = e.waitingRemoval
  BY RemovedField DEF Marked

\* removeAndWait() of an observer that is being called.
LEMMA ClaimedFields ==
  ASSUME NEW e \in Entries
  PROVE  /\ Claimed(e) \in Entries
         /\ Claimed(e).observer = e.observer
         /\ Claimed(e).activeCalls = e.activeCalls
         /\ Claimed(e).generation = e.generation
         /\ Claimed(e).removed
         /\ Claimed(e).waitingRemoval
<1> DEFINE m == Marked(e)
           c == [m EXCEPT !.waitingRemoval = TRUE]
<1>1. Claimed(e) = c
  BY Zenon DEF Claimed, Marked
<1>2. /\ m \in Entries
      /\ m.observer = e.observer
      /\ m.activeCalls = e.activeCalls
      /\ m.generation = e.generation
      /\ m.removed
  BY MarkedFields
<1> HIDE DEF m
<1>3. /\ c \in Entries
      /\ c.observer = m.observer
      /\ c.activeCalls = m.activeCalls
      /\ c.generation = m.generation
      /\ c.removed = m.removed
      /\ c.waitingRemoval
  BY <1>2, WaitingField
<1> QED
  BY <1>1, <1>2, <1>3

\* The observer that add() fills in.
LEMMA ObserverField ==
  ASSUME NEW e \in Entries, NEW x \in Observers
  PROVE  LET r == [e EXCEPT !.observer = x] IN
         /\ r \in Entries
         /\ r.observer = x
         /\ r.activeCalls = e.activeCalls
         /\ r.removed = e.removed
         /\ r.waitingRemoval = e.waitingRemoval
  BY SMT DEF Entries

\* The age of the entry.
LEMMA GenerationField ==
  ASSUME NEW e \in Entries, NEW n \in Generations
  PROVE  LET r == [e EXCEPT !.generation = n] IN
         /\ r \in Entries
         /\ r.observer = e.observer
         /\ r.activeCalls = e.activeCalls
         /\ r.generation = n
         /\ r.removed = e.removed
         /\ r.waitingRemoval = e.waitingRemoval
  BY SMT DEF Entries

\* What add() leaves in the slot.
LEMMA FreshFields ==
  ASSUME NEW x \in Observers, NEW n \in Generations
  PROVE  /\ Fresh(x, n) \in Entries
         /\ Fresh(x, n).observer = x
         /\ Fresh(x, n).activeCalls = 0
         /\ Fresh(x, n).generation = n
         /\ ~Fresh(x, n).removed
         /\ ~Fresh(x, n).waitingRemoval
<1> DEFINE o == [Empty EXCEPT !.observer = x]
           f == [o EXCEPT !.generation = n]
<1>1. Fresh(x, n) = f
  BY Zenon DEF Fresh
<1>2. Empty.activeCalls = 0 /\ ~Empty.removed /\ ~Empty.waitingRemoval
  BY Zenon DEF Empty
<1>3. /\ o \in Entries
      /\ o.observer = x
      /\ o.activeCalls = 0
      /\ ~o.removed
      /\ ~o.waitingRemoval
  BY <1>2, Constants, ObserverField
<1> HIDE DEF o
<1>4. /\ f \in Entries
      /\ f.observer = o.observer
      /\ f.activeCalls = o.activeCalls
      /\ f.generation = n
      /\ f.removed = o.removed
      /\ f.waitingRemoval = o.waitingRemoval
  BY <1>3, GenerationField
<1> QED
  BY <1>1, <1>3, <1>4

-------------------------------------------------------------------------------
(* Who is at an entry *)

\* Where the threads are when one of them has moved.
LEMMA ThreadMoves ==
  ASSUME NEW t \in Threads, NEW j \in Slots,
         \A u \in Threads \ {t} : pc'[u] = pc[u] /\ slot'[u] = slot[u]
  PROVE  /\ Calling(j)' = IF pc'[t] = "calling" /\ slot'[t] = j
                            THEN Calling(j) \cup {t} ELSE Calling(j) \ {t}
         /\ Waiting(j)' = IF pc'[t] \in {"wait", "relock"} /\ slot'[t] = j
                            THEN Waiting(j) \cup {t} ELSE Waiting(j) \ {t}
<1>1. Calling(j)' = IF pc'[t] = "calling" /\ slot'[t] = j
                      THEN Calling(j) \cup {t} ELSE Calling(j) \ {t}
  BY SMT DEF Calling
<1>2. Waiting(j)' = IF pc'[t] \in {"wait", "relock"} /\ slot'[t] = j
                      THEN Waiting(j) \cup {t} ELSE Waiting(j) \ {t}
  BY SMT DEF Waiting
<1> QED
  BY <1>1, <1>2

\* Whoever is not there leaves nothing behind.
LEMMA WithoutOutsider ==
  ASSUME NEW S, NEW t, t \notin S
  PROVE  S \ {t} = S
  OBVIOUS

\* What the counts say: nobody, the only one, or somebody.
LEMMA Counts ==
  ASSUME TypeOK, EntriesAccounted, NEW i \in Slots
  PROVE  /\ mEntries[i] \in Entries
         /\ IsFiniteSet(Calling(i)) /\ IsFiniteSet(Waiting(i))
         /\ mEntries[i].activeCalls \in Nat /\ mEntries[i].generation \in Nat
         /\ mEntries[i].activeCalls = 0 <=> Calling(i) = {}
         /\ mEntries[i].waitingRemoval <=> Waiting(i) # {}
         /\ \A t \in Calling(i) :
              mEntries[i].activeCalls = 1 => Calling(i) = {t}
         /\ \A t \in Waiting(i) : Waiting(i) = {t}
         /\ Calling(i) \cup Waiting(i) # {} => i \in mOccupied
<1>1. EntryAccounted(i) /\ mEntries[i] \in Entries
  BY SMT DEF EntriesAccounted, TypeOK
<1>2. IsFiniteSet(Calling(i)) /\ IsFiniteSet(Waiting(i))
  BY ThreadsAssumption, FS_Subset, Zenon DEF Calling, Waiting
<1>3. /\ mEntries[i].activeCalls \in Nat /\ mEntries[i].generation \in Nat
      /\ mEntries[i].waitingRemoval \in BOOLEAN
  <2>1. /\ mEntries[i].activeCalls \in Nat /\ mEntries[i].generation \in Generations
        /\ mEntries[i].waitingRemoval \in BOOLEAN
    BY <1>1, SMT DEF Entries
  <2> QED
    BY <2>1, Constants, Zenon
<1>4. mEntries[i].activeCalls = 0 <=> Calling(i) = {}
  BY <1>1, <1>2, FS_EmptySet, Zenon DEF EntryAccounted
<1>5. mEntries[i].waitingRemoval <=> Waiting(i) # {}
  <2>1. Cardinality(Waiting(i)) = 0 <=> Waiting(i) = {}
    BY <1>2, FS_EmptySet, Zenon
  <2> QED
    BY <1>1, <2>1, SMT DEF EntryAccounted
<1>6. ASSUME NEW t \in Calling(i), mEntries[i].activeCalls = 1
      PROVE  Calling(i) = {t}
  <2>1. Cardinality(Calling(i)) = 1
    BY <1>1, <1>6 DEF EntryAccounted
  <2>2. PICK x : Calling(i) = {x}
    BY <1>2, <2>1, FS_Singleton, Zenon
  <2> QED
    BY <2>2
<1>7. ASSUME NEW t \in Waiting(i) PROVE Waiting(i) = {t}
  <2>1. Cardinality(Waiting(i)) = 1
    BY <1>1, <1>5 DEF EntryAccounted
  <2>2. PICK x : Waiting(i) = {x}
    BY <1>2, <2>1, FS_Singleton, Zenon
  <2> QED
    BY <2>2
<1>8. ASSUME i \notin mOccupied PROVE Calling(i) = {} /\ Waiting(i) = {}
  <2>1. Empty.activeCalls = 0 /\ ~Empty.waitingRemoval
    BY Zenon DEF Empty
  <2> QED
    BY <1>1, <1>4, <1>5, <1>8, <2>1 DEF EntryAccounted
<1> QED
  BY <1>1, <1>2, <1>3, <1>4, <1>5, <1>6, <1>7, <1>8

\* An entry whose fields and threads stay stays accounted for.
LEMMA EntryKept ==
  ASSUME EntriesAccounted, NEW j \in Slots,
         mEntries'[j] = mEntries[j], j \in mOccupied' <=> j \in mOccupied,
         Calling(j)' = Calling(j), Waiting(j)' = Waiting(j)
  PROVE  EntryAccounted(j)'
  BY Zenon DEF EntriesAccounted, EntryAccounted

-------------------------------------------------------------------------------
(* What the steps do to the table *)

\* An entry is replaced by one of the same observer and age.
LEMMA SetKeepsSound ==
  ASSUME TypeOK, EntriesSound, NEW i \in Slots, NEW e \in Entries,
         mEntries' = [mEntries EXCEPT ![i] = e], UNCHANGED <<mOccupied, mGeneration>>,
         e.observer = mEntries[i].observer, e.generation = mEntries[i].generation,
         e.waitingRemoval => e.removed
  PROVE  /\ mEntries' \in [Slots -> Entries]
         /\ mEntries'[i] = e
         /\ \A j \in Slots \ {i} : mEntries'[j] = mEntries[j]
         /\ EntriesSound'
<1>1. /\ mEntries' \in [Slots -> Entries]
      /\ mEntries'[i] = e
      /\ \A j \in Slots \ {i} : mEntries'[j] = mEntries[j]
  BY SMT DEF TypeOK
<1>2. \A j \in Slots : /\ mEntries'[j].observer = mEntries[j].observer
                       /\ mEntries'[j].generation = mEntries[j].generation
                       /\ mEntries'[j].waitingRemoval => mEntries'[j].removed
  BY <1>1, Zenon DEF EntriesSound, EntrySound
<1>3. mOccupied' = mOccupied /\ mOccupied \subseteq Slots /\ mGeneration' = mGeneration
  BY DEF TypeOK
<1>4. ASSUME NEW j \in Slots PROVE EntrySound(j)'
  <2>1. \A k \in mOccupied : mEntries'[k].observer = mEntries[k].observer
    BY <1>2, <1>3
  <2>2. EntrySound(j)
    BY DEF EntriesSound
  <2> QED
    BY <1>2, <1>3, <2>1, <2>2 DEF EntrySound
<1> QED
  BY <1>1, <1>4 DEF EntriesSound

\* An entry is freed.
LEMMA ResetKeepsSound ==
  ASSUME TypeOK, EntriesSound, NEW i \in Slots, Reset({i}),
         UNCHANGED mGeneration
  PROVE  /\ mEntries' \in [Slots -> Entries]
         /\ mEntries'[i] = Empty /\ i \notin mOccupied'
         /\ \A j \in Slots \ {i} :
              mEntries'[j] = mEntries[j] /\ (j \in mOccupied' <=> j \in mOccupied)
         /\ EntriesSound'
<1>1. /\ mEntries' \in [Slots -> Entries]
      /\ mEntries'[i] = Empty /\ mOccupied' = mOccupied \ {i}
      /\ \A j \in Slots \ {i} : mEntries'[j] = mEntries[j]
  BY Constants, SMT DEF TypeOK, Reset
<1>2. Empty.generation = 0 /\ ~Empty.waitingRemoval /\ 0 <= mGeneration
  <2>1. Empty.generation = 0 /\ ~Empty.waitingRemoval
    BY Zenon DEF Empty
  <2>2. 0 <= mGeneration
    BY Constants, SMT DEF TypeOK
  <2> QED
    BY <2>1, <2>2
<1>3. ASSUME NEW j \in Slots PROVE EntrySound(j)'
  <2>1. CASE j = i
    BY <1>1, <1>2, <2>1 DEF EntrySound
  <2>2. CASE j # i
    <3>1. mEntries'[j] = mEntries[j] /\ (j \in mOccupied' <=> j \in mOccupied)
      BY <1>1, <2>2
    <3>2. \A k \in mOccupied' : k \in mOccupied /\ mEntries'[k] = mEntries[k]
      BY <1>1 DEF TypeOK
    <3> QED
      BY <3>1, <3>2, Zenon DEF EntriesSound, EntrySound
  <2> QED
    BY <2>1, <2>2
<1> QED
  BY <1>1, <1>3 DEF EntriesSound

\* A free entry is in nobody's hands.
LEMMA FreedIsAccounted ==
  ASSUME NEW i \in Slots, mEntries'[i] = Empty, i \notin mOccupied',
         Calling(i)' = {}, Waiting(i)' = {}
  PROVE  EntryAccounted(i)'
<1>1. Empty.activeCalls = 0 /\ ~Empty.waitingRemoval /\ ~Empty.removed
  BY Zenon DEF Empty
<1>2. Cardinality(Calling(i)') = 0 /\ Cardinality(Waiting(i)') = 0
  BY FS_EmptySet, Zenon
<1> QED
  BY <1>1, <1>2, Zenon DEF EntryAccounted

\* While the threads stay where they are, so do their counts.
LEMMA TableStepsLeaveThreads ==
  ASSUME UNCHANGED <<mChanged, locals>>, NEW j \in Slots
  PROVE  /\ UNCHANGED <<mChanged, pc, slot, todo, startGeneration>>
         /\ Calling(j)' = Calling(j)
         /\ Waiting(j)' = Waiting(j)
  BY Zenon DEF locals, Calling, Waiting

-------------------------------------------------------------------------------
(* add(), remove() *)

\* add() takes a slot that nobody is at, for an observer that is in no other.
LEMMA AddKeeps ==
  ASSUME ListIInv, NEW x \in Observers, Add(x)
  PROVE  ListIInv'
<1> USE DEF ListIInv
<1> DEFINE g == mGeneration + 1
           e == Fresh(x, g)
<1>1. PICK i \in Slots : /\ i \notin mOccupied
                         /\ mEntries' = [mEntries EXCEPT ![i] = e]
                         /\ mOccupied' = mOccupied \cup {i}
  BY Zenon DEF Add, IsFirst, Fresh
<1>2. /\ g \in Generations /\ mGeneration' = g
      /\ mGeneration \in Nat /\ g > mGeneration
  BY Constants, GenerationAssumption, SMT DEF Add, TypeOK, Generations
<1>3. /\ e \in Entries /\ e.observer = x /\ e.activeCalls = 0
      /\ e.generation = g /\ ~e.removed /\ ~e.waitingRemoval
  BY <1>2, FreshFields
<1> HIDE DEF e
<1>4. /\ mEntries' \in [Slots -> Entries]
      /\ mEntries'[i] = e
      /\ \A j \in Slots \ {i} : mEntries'[j] = mEntries[j]
  BY <1>1, <1>3, SMT DEF TypeOK
<1>5. /\ UNCHANGED <<mChanged, pc, slot, todo, startGeneration>>
      /\ \A j \in Slots : Calling(j)' = Calling(j) /\ Waiting(j)' = Waiting(j)
  BY TableStepsLeaveThreads DEF Add
<1>6. Calling(i) = {} /\ Waiting(i) = {}
  BY <1>1, Counts
<1>7. TypeOK'
  BY <1>1, <1>2, <1>4, <1>5 DEF TypeOK
<1>8. ASSUME NEW j \in Slots PROVE EntryAccounted(j)'
  <2>1. CASE j = i
    <3>1. Cardinality(Calling(j)') = 0 /\ Cardinality(Waiting(j)') = 0
      BY <1>5, <1>6, <2>1, FS_EmptySet, Zenon
    <3> QED
      BY <1>1, <1>3, <1>4, <2>1, <3>1, Zenon DEF EntryAccounted
  <2>2. CASE j # i
    BY <1>1, <1>4, <1>5, <2>2, EntryKept
  <2> QED
    BY <2>1, <2>2
<1>9. ASSUME NEW j \in Slots PROVE EntrySound(j)'
  <2>1. \A k \in Slots : k # i => mEntries'[k] = mEntries[k] /\ EntrySound(k)
    BY <1>4 DEF EntriesSound
  <2>2. \A k \in mOccupied : k \in Slots /\ k # i /\ mEntries[k].observer # x
    BY <1>1 DEF Add, TypeOK
  <2>3. CASE j = i
    BY <1>1, <1>2, <1>3, <1>4, <2>1, <2>2, <2>3 DEF EntrySound
  <2>4. CASE j # i
    <3>1. mEntries[j].generation <= g
      <4>1. mEntries[j].generation \in Nat /\ mEntries[j].generation <= mGeneration
        BY <2>1, <2>4, Counts DEF EntrySound
      <4> QED
        BY <1>2, <4>1, SMT
    <3> QED
      BY <1>1, <1>2, <1>3, <1>4, <2>1, <2>2, <2>4, <3>1 DEF EntrySound
  <2> QED
    BY <2>3, <2>4
<1>10. ASSUME NEW t \in Threads PROVE ThreadSound(t)'
  <2>1. ThreadSound(t) /\ startGeneration[t] \in Nat
    BY Constants DEF ThreadsSound, TypeOK
  <2>2. startGeneration[t] <= mGeneration'
    BY <1>2, <2>1, SMT DEF ThreadSound
  <2> QED
    BY <1>5, <2>1, <2>2 DEF ThreadSound
<1>11. WaiterNoticed'
  <2> SUFFICES ASSUME NEW t \in Threads, pc[t] = "wait",
                      mEntries'[slot[t]].activeCalls = 0
               PROVE  \E u \in Threads : pc[u] = "cast"
    BY <1>5 DEF WaiterNoticed
  <2>1. slot[t] \in Slots /\ t \in Waiting(slot[t])
    BY DEF TypeOK, Waiting
  <2>2. slot[t] # i
    BY <1>6, <2>1
  <2> QED
    BY <1>4, <2>1, <2>2 DEF WaiterNoticed
<1> QED
  BY <1>7, <1>8, <1>9, <1>10, <1>11 DEF EntriesAccounted, EntriesSound, ThreadsSound

\* Nobody is at an entry that is freed.
LEMMA ResetKeeps ==
  ASSUME ListIInv, NEW i \in Slots, Reset({i}), Calling(i) = {}, Waiting(i) = {},
         UNCHANGED <<mGeneration, mChanged, locals>>
  PROVE  ListIInv'
<1> USE DEF ListIInv
<1>1. /\ mEntries' \in [Slots -> Entries]
      /\ mEntries'[i] = Empty /\ i \notin mOccupied'
      /\ \A j \in Slots \ {i} :
           mEntries'[j] = mEntries[j] /\ (j \in mOccupied' <=> j \in mOccupied)
      /\ EntriesSound'
  BY ResetKeepsSound
<1>2. /\ UNCHANGED <<mChanged, pc, slot, todo, startGeneration>>
      /\ \A j \in Slots : Calling(j)' = Calling(j) /\ Waiting(j)' = Waiting(j)
  BY TableStepsLeaveThreads
<1>3. TypeOK'
  BY <1>1, <1>2 DEF TypeOK, Reset
<1>4. ASSUME NEW j \in Slots PROVE EntryAccounted(j)'
  BY <1>1, <1>2, EntryKept, FreedIsAccounted
<1>5. ThreadsSound'
  BY <1>2 DEF ThreadsSound, ThreadSound
<1>6. WaiterNoticed'
  <2> SUFFICES ASSUME NEW t \in Threads, pc[t] = "wait",
                      mEntries'[slot[t]].activeCalls = 0
               PROVE  \E u \in Threads : pc[u] = "cast"
    BY <1>2 DEF WaiterNoticed
  <2>1. slot[t] \in Slots /\ t \in Waiting(slot[t])
    BY DEF TypeOK, Waiting
  <2> QED
    BY <1>1, <2>1 DEF WaiterNoticed
<1> QED
  BY <1>1, <1>3, <1>4, <1>5, <1>6 DEF EntriesAccounted

\* Somebody is at an entry that is only marked.
LEMMA MarkKeeps ==
  ASSUME ListIInv, NEW i \in Slots, Calling(i) \cup Waiting(i) # {},
         mEntries' = [mEntries EXCEPT ![i] = Marked(mEntries[i])],
         UNCHANGED <<mOccupied, mGeneration, mChanged, locals>>
  PROVE  ListIInv'
<1> USE DEF ListIInv
<1> DEFINE e == Marked(mEntries[i])
<1>1. /\ e \in Entries
      /\ e.observer = mEntries[i].observer
      /\ e.activeCalls = mEntries[i].activeCalls
      /\ e.generation = mEntries[i].generation
      /\ e.removed
      /\ e.waitingRemoval = mEntries[i].waitingRemoval
  BY Counts, MarkedFields
<1> HIDE DEF e
<1>2. /\ mEntries' \in [Slots -> Entries]
      /\ mEntries'[i] = e
      /\ \A j \in Slots \ {i} : mEntries'[j] = mEntries[j]
      /\ EntriesSound'
  BY <1>1, SetKeepsSound DEF e
<1>3. /\ UNCHANGED <<mChanged, pc, slot, todo, startGeneration>>
      /\ \A j \in Slots : Calling(j)' = Calling(j) /\ Waiting(j)' = Waiting(j)
  BY TableStepsLeaveThreads
<1>4. TypeOK'
  BY <1>2, <1>3 DEF TypeOK
<1>5. ASSUME NEW j \in Slots PROVE EntryAccounted(j)'
  <2>1. CASE j = i
    <3>1. EntryAccounted(i) /\ i \in mOccupied
      BY Counts DEF EntriesAccounted
    <3> QED
      BY <1>1, <1>2, <1>3, <2>1, <3>1, Zenon DEF EntryAccounted
  <2>2. CASE j # i
    BY <1>2, <1>3, <2>2, EntryKept
  <2> QED
    BY <2>1, <2>2
<1>6. ThreadsSound'
  BY <1>3 DEF ThreadsSound, ThreadSound
<1>7. WaiterNoticed'
  <2>1. \A j \in Slots : mEntries'[j].activeCalls = mEntries[j].activeCalls
    BY <1>1, <1>2, Zenon
  <2>2. \A t \in Threads : slot[t] \in Slots
    BY DEF TypeOK
  <2> QED
    BY <1>3, <2>1, <2>2, Zenon DEF WaiterNoticed
<1> QED
  BY <1>2, <1>4, <1>5, <1>6, <1>7 DEF EntriesAccounted

\* remove() frees the slot, or leaves that to whoever is at it.
LEMMA RemoveKeeps ==
  ASSUME ListIInv, NEW x \in Observers, Remove(x)
  PROVE  ListIInv'
<1>1. PICK i \in Slots :
        /\ Active(i, x)
        /\ IF mEntries[i].activeCalls = 0 /\ ~mEntries[i].waitingRemoval
             THEN Reset({i})
             ELSE /\ mEntries' = [mEntries EXCEPT ![i].removed = TRUE]
                  /\ UNCHANGED mOccupied
  BY Zenon DEF Remove
<1>2. UNCHANGED <<mGeneration, mChanged, locals>>
  BY DEF Remove
<1>3. /\ mEntries[i].activeCalls = 0 <=> Calling(i) = {}
      /\ mEntries[i].waitingRemoval <=> Waiting(i) # {}
  BY Counts DEF ListIInv
<1>4. CASE mEntries[i].activeCalls = 0 /\ ~mEntries[i].waitingRemoval
  BY <1>1, <1>2, <1>3, <1>4, ResetKeeps
<1>5. CASE ~(mEntries[i].activeCalls = 0 /\ ~mEntries[i].waitingRemoval)
  <2>1. mEntries' = [mEntries EXCEPT ![i] = Marked(mEntries[i])]
    BY <1>1, <1>5, Zenon DEF Marked
  <2>2. mOccupied' = mOccupied
    BY <1>1, <1>5
  <2>3. Calling(i) \cup Waiting(i) # {}
    BY <1>3, <1>5
  <2> QED
    BY <1>2, <2>1, <2>2, <2>3, MarkKeeps
<1> QED
  BY <1>4, <1>5

-------------------------------------------------------------------------------
(* removeAndWait() *)

\* An observer that has not been removed is waited for by nobody.
LEMMA RemoveWithoutWaitKeeps ==
  ASSUME ListIInv, NEW t \in Threads, NEW x \in Observers, RemoveWithoutWait(t, x)
  PROVE  ListIInv'
<1>1. PICK i \in Slots : Active(i, x) /\ mEntries[i].activeCalls = 0 /\ Reset({i})
  BY DEF RemoveWithoutWait
<1>2. EntrySound(i)
  BY DEF ListIInv, EntriesSound
<1>3. Calling(i) = {} /\ Waiting(i) = {}
  BY <1>1, <1>2, Counts DEF ListIInv, EntrySound, Active
<1> QED
  BY <1>1, <1>3, ResetKeeps DEF RemoveWithoutWait

\* The caller becomes the one thread that waits for the entry.
LEMMA RemoveBlocksKeeps ==
  ASSUME ListIInv, NEW t \in Threads, NEW x \in Observers, RemoveBlocks(t, x)
  PROVE  ListIInv'
<1> USE DEF ListIInv
<1>1. PICK i \in Slots :
        /\ Active(i, x) /\ mEntries[i].activeCalls > 0
        /\ mEntries' = [mEntries EXCEPT ![i].removed = TRUE,
                                        ![i].waitingRemoval = TRUE]
        /\ slot' = [slot EXCEPT ![t] = i]
  BY Zenon DEF RemoveBlocks
<1>2. /\ pc[t] = "idle" /\ pc' = [pc EXCEPT ![t] = "wait"]
      /\ mChanged' = mChanged \cup {t}
      /\ UNCHANGED <<mOccupied, mGeneration, todo, startGeneration>>
  BY DEF RemoveBlocks, Goto
<1> DEFINE e == Claimed(mEntries[i])
<1>3. /\ e \in Entries
      /\ e.observer = mEntries[i].observer
      /\ e.activeCalls = mEntries[i].activeCalls
      /\ e.generation = mEntries[i].generation
      /\ e.removed
      /\ e.waitingRemoval
  BY Counts, ClaimedFields
<1>4. mEntries' = [mEntries EXCEPT ![i] = e]
  BY <1>1, Zenon DEF Claimed
<1> HIDE DEF e
<1>5. /\ mEntries' \in [Slots -> Entries]
      /\ mEntries'[i] = e
      /\ \A j \in Slots \ {i} : mEntries'[j] = mEntries[j]
      /\ EntriesSound'
  BY <1>2, <1>3, <1>4, SetKeepsSound
<1>6. TypeOK'
  BY <1>1, <1>2, <1>5, SMT DEF TypeOK
<1>7. ASSUME NEW j \in Slots
      PROVE  /\ Calling(j)' = Calling(j) \ {t}
             /\ Waiting(j)' = IF i = j THEN Waiting(j) \cup {t} ELSE Waiting(j) \ {t}
             /\ t \notin Calling(j) /\ t \notin Waiting(j)
  <2>1. t \notin Calling(j) /\ t \notin Waiting(j)
    BY <1>2 DEF Calling, Waiting
  <2>2. /\ pc'[t] = "wait" /\ slot'[t] = i
        /\ \A u \in Threads \ {t} : pc'[u] = pc[u] /\ slot'[u] = slot[u]
    BY <1>1, <1>2 DEF TypeOK
  <2> QED
    BY <2>1, <2>2, ThreadMoves
<1>8. ASSUME NEW j \in Slots PROVE EntryAccounted(j)'
  <2>1. CASE j = i
    <3>1. EntryAccounted(i) /\ i \in mOccupied /\ EntrySound(i)
      BY <1>1 DEF EntriesAccounted, EntriesSound, Active
    <3>2. Waiting(i) = {}
      BY <1>1, <3>1, Counts DEF EntrySound, Active
    <3>3. Calling(i)' = Calling(i) /\ Waiting(i)' = {t}
      BY <1>7, <3>2
    <3>4. Cardinality(Waiting(i)') = 1
      BY <3>3, FS_Singleton, Zenon
    <3> QED
      BY <1>2, <1>3, <1>5, <2>1, <3>1, <3>3, <3>4, Zenon DEF EntryAccounted
  <2>2. CASE j # i
    <3>1. Calling(j)' = Calling(j) /\ t \notin Waiting(j)
      BY <1>7
    <3>2. Waiting(j)' = Waiting(j) \ {t}
      BY <1>7, <2>2
    <3>3. Waiting(j)' = Waiting(j)
      BY <3>1, <3>2, WithoutOutsider, Zenon
    <3> QED
      BY <1>2, <1>5, <2>2, <3>1, <3>3, EntryKept
  <2> QED
    BY <2>1, <2>2
<1>9. ThreadsSound'
  BY <1>2 DEF ThreadsSound, ThreadSound, TypeOK
<1>10. WaiterNoticed'
  <2> SUFFICES ASSUME NEW u \in Threads, pc'[u] = "wait",
                      mEntries'[slot'[u]].activeCalls = 0
               PROVE  \E v \in Threads : pc'[v] = "cast"
    BY DEF WaiterNoticed
  <2>1. u # t
    BY <1>1, <1>3, <1>5, Counts DEF TypeOK
  <2>2. pc[u] = "wait" /\ slot'[u] = slot[u] /\ slot[u] \in Slots
    BY <1>1, <1>2, <2>1 DEF TypeOK
  <2>3. mEntries[slot[u]].activeCalls = 0
    BY <1>3, <1>5, <2>2
  <2>4. PICK v \in Threads : pc[v] = "cast"
    BY <2>2, <2>3 DEF WaiterNoticed
  <2> QED
    BY <1>2, <2>4 DEF TypeOK
<1> QED
  BY <1>5, <1>6, <1>8, <1>9, <1>10 DEF EntriesAccounted

\* The table stays, and so do the threads at its entries.
LEMMA TableKept ==
  ASSUME ListIInv, UNCHANGED <<mEntries, mOccupied, mGeneration>>,
         \A j \in Slots : Calling(j)' = Calling(j) /\ Waiting(j)' = Waiting(j)
  PROVE  EntriesAccounted' /\ EntriesSound'
<1>1. EntriesAccounted'
  BY EntryKept DEF ListIInv, EntriesAccounted
<1>2. EntriesSound'
  BY DEF ListIInv, EntriesSound, EntrySound
<1> QED
  BY <1>1, <1>2

\* It is still waiting.
LEMMA SpuriousWakeupKeeps ==
  ASSUME ListIInv, NEW t \in Threads, SpuriousWakeup(t)
  PROVE  ListIInv'
<1> USE DEF ListIInv, TypeOK
<1>1. /\ pc[t] = "wait" /\ pc' = [pc EXCEPT ![t] = "relock"]
      /\ mChanged' = mChanged \ {t}
      /\ UNCHANGED <<mEntries, mOccupied, mGeneration, slot, todo, startGeneration>>
  BY DEF SpuriousWakeup, Goto
<1>2. TypeOK'
  BY <1>1, SMT
<1>3. \A j \in Slots : Calling(j)' = Calling(j) /\ Waiting(j)' = Waiting(j)
  BY <1>1, SMT DEF Calling, Waiting
<1>4. ThreadsSound'
  BY <1>1 DEF ThreadsSound, ThreadSound
<1>5. WaiterNoticed'
  BY <1>1 DEF WaiterNoticed
<1> QED
  BY <1>1, <1>2, <1>3, <1>4, <1>5, TableKept

\* It waits again only while somebody calls the observer.
LEMMA WaitAgainKeeps ==
  ASSUME ListIInv, NEW t \in Threads, WaitAgain(t)
  PROVE  ListIInv'
<1> USE DEF ListIInv, TypeOK
<1>1. /\ pc[t] = "relock" /\ pc' = [pc EXCEPT ![t] = "wait"]
      /\ mEntries[slot[t]].activeCalls > 0
      /\ mChanged' = mChanged \cup {t}
      /\ UNCHANGED <<mEntries, mOccupied, mGeneration, slot, todo, startGeneration>>
  BY DEF WaitAgain, Goto
<1>2. TypeOK'
  BY <1>1, SMT
<1>3. \A j \in Slots : Calling(j)' = Calling(j) /\ Waiting(j)' = Waiting(j)
  BY <1>1, SMT DEF Calling, Waiting
<1>4. ThreadsSound'
  BY <1>1 DEF ThreadsSound, ThreadSound
<1>5. WaiterNoticed'
  BY <1>1, Counts DEF WaiterNoticed
<1> QED
  BY <1>1, <1>2, <1>3, <1>4, <1>5, TableKept

\* It was the only one at the entry.
LEMMA WaitEndsKeeps ==
  ASSUME ListIInv, NEW t \in Threads, WaitEnds(t)
  PROVE  ListIInv'
<1> USE DEF ListIInv
<1> PICK i \in Slots : i = slot[t]
  BY DEF TypeOK
<1>1. /\ pc[t] = "relock" /\ pc' = [pc EXCEPT ![t] = "idle"]
      /\ slot' = [slot EXCEPT ![t] = 0]
      /\ mEntries[i].activeCalls = 0
      /\ Reset({i})
      /\ UNCHANGED <<mGeneration, mChanged, todo, startGeneration>>
  BY DEF WaitEnds, Goto
<1>2. /\ mEntries' \in [Slots -> Entries]
      /\ mEntries'[i] = Empty /\ i \notin mOccupied'
      /\ \A j \in Slots \ {i} :
           mEntries'[j] = mEntries[j] /\ (j \in mOccupied' <=> j \in mOccupied)
      /\ EntriesSound'
  BY <1>1, ResetKeepsSound
<1>3. /\ pc'[t] = "idle"
      /\ \A u \in Threads \ {t} : pc'[u] = pc[u] /\ slot'[u] = slot[u]
  BY <1>1 DEF TypeOK
<1>4. TypeOK'
  <2>1. mOccupied' \subseteq Slots
    BY <1>1 DEF Reset, TypeOK
  <2> QED
    BY <1>1, <1>2, <2>1, Constants, SMT DEF TypeOK
<1>5. /\ t \in Waiting(i) /\ Waiting(i) = {t} /\ Calling(i) = {}
      /\ \A j \in Slots : /\ t \notin Calling(j)
                          /\ j # i => t \notin Waiting(j)
  <2>1. t \in Waiting(i)
    BY <1>1 DEF Waiting
  <2> QED
    BY <1>1, <2>1, Counts DEF Calling, Waiting
<1>6. ASSUME NEW j \in Slots
      PROVE  Calling(j)' = Calling(j) /\ Waiting(j)' = Waiting(j) \ {t}
  BY <1>3, <1>5, ThreadMoves
<1>7. ASSUME NEW j \in Slots PROVE EntryAccounted(j)'
  <2>1. CASE j = i
    BY <1>2, <1>5, <1>6, <2>1, FreedIsAccounted
  <2>2. CASE j # i
    <3>1. Calling(j)' = Calling(j) /\ Waiting(j)' = Waiting(j)
      BY <1>5, <1>6, <2>2, WithoutOutsider, Zenon
    <3> QED
      BY <1>2, <2>2, <3>1, EntryKept
  <2> QED
    BY <2>1, <2>2
<1>8. ThreadsSound'
  <2> SUFFICES ASSUME NEW u \in Threads PROVE ThreadSound(u)'
    BY DEF ThreadsSound
  <2>1. ThreadSound(u) /\ ThreadSound(t)
    BY DEF ThreadsSound
  <2> QED
    BY <1>1, <1>3, <2>1 DEF ThreadSound
<1>9. WaiterNoticed'
  <2> SUFFICES ASSUME NEW u \in Threads, pc'[u] = "wait",
                      mEntries'[slot'[u]].activeCalls = 0
               PROVE  \E v \in Threads : pc'[v] = "cast"
    BY DEF WaiterNoticed
  <2>1. u # t /\ pc[u] = "wait" /\ slot'[u] = slot[u] /\ slot[u] \in Slots
    BY <1>3 DEF TypeOK
  <2>2. slot[u] # i
    BY <1>5, <2>1 DEF Waiting
  <2>3. PICK v \in Threads : pc[v] = "cast"
    BY <1>2, <2>1, <2>2 DEF WaiterNoticed
  <2> QED
    BY <1>1, <1>3, <2>3
<1> QED
  BY <1>2, <1>4, <1>7, <1>8, <1>9 DEF EntriesAccounted

-------------------------------------------------------------------------------
(* notify() *)

\* The snapshot is as old as the list.
LEMMA NotifyBeginsKeeps ==
  ASSUME ListIInv, NEW t \in Threads, NotifyBegins(t)
  PROVE  ListIInv'
<1> USE DEF ListIInv, TypeOK
<1>1. /\ pc[t] = "idle" /\ pc' = [pc EXCEPT ![t] = "next"]
      /\ todo' = [todo EXCEPT ![t] = mOccupied]
      /\ startGeneration' = [startGeneration EXCEPT ![t] = mGeneration]
      /\ UNCHANGED <<mEntries, mOccupied, mGeneration, mChanged, slot>>
  BY DEF NotifyBegins, Goto
<1>2. TypeOK'
  BY <1>1, SMT
<1>3. \A j \in Slots : Calling(j)' = Calling(j) /\ Waiting(j)' = Waiting(j)
  BY <1>1, SMT DEF Calling, Waiting
<1>4. mGeneration <= mGeneration
  BY Constants, SMT
<1>5. ThreadsSound'
  <2> SUFFICES ASSUME NEW u \in Threads PROVE ThreadSound(u)'
    BY DEF ThreadsSound
  <2>1. ThreadSound(u)
    BY DEF ThreadsSound
  <2> QED
    BY <1>1, <1>4, <2>1 DEF ThreadSound
<1>6. WaiterNoticed'
  BY <1>1 DEF WaiterNoticed
<1> QED
  BY <1>1, <1>2, <1>3, <1>5, <1>6, TableKept

\* Everybody in the wait set leaves it.
LEMMA BroadcastKeeps ==
  ASSUME ListIInv, NEW t \in Threads, Broadcast(t)
  PROVE  ListIInv'
<1> USE DEF ListIInv, TypeOK
<1>1. /\ pc[t] = "cast" /\ mChanged' = {}
      /\ \A u \in Threads : pc'[u] = IF u = t THEN "next"
                                     ELSE IF pc[u] = "wait" THEN "relock" ELSE pc[u]
      /\ DOMAIN pc' = Threads
      /\ UNCHANGED <<mEntries, mOccupied, mGeneration, slot, todo, startGeneration>>
  BY DEF Broadcast
<1>2. TypeOK'
  <2>1. pc' \in [Threads -> {"idle", "wait", "relock", "next", "calling", "cast"}]
    BY SMT DEF Broadcast
  <2>2. mChanged' = {u \in Threads : pc'[u] = "wait"}
    BY <1>1, SMT
  <2> QED
    BY <1>1, <2>1, <2>2
<1>3. \A j \in Slots : Calling(j)' = Calling(j) /\ Waiting(j)' = Waiting(j)
  BY <1>1, SMT DEF Calling, Waiting
<1>4. ThreadsSound'
  <2> SUFFICES ASSUME NEW u \in Threads PROVE ThreadSound(u)'
    BY DEF ThreadsSound
  <2>1. ThreadSound(u)
    BY DEF ThreadsSound
  <2> QED
    BY <1>1, <2>1, SMT DEF ThreadSound
<1>5. WaiterNoticed'
  BY <1>1, SMT DEF WaiterNoticed
<1> QED
  BY <1>1, <1>2, <1>3, <1>4, <1>5, TableKept

\* One more thread is in the callback of the entry, or one less.
LEMMA CallsCounted ==
  ASSUME ListIInv, NEW t \in Threads, NEW i \in Slots, NEW n \in Nat,
         mEntries' = [mEntries EXCEPT ![i] = Counted(mEntries[i], n)],
         UNCHANGED <<mOccupied, mGeneration>>, i \in mOccupied,
         n = Cardinality(Calling(i)'), Waiting(i)' = Waiting(i),
         mEntries[i].removed => Calling(i)' \cup Waiting(i) # {},
         \A j \in Slots \ {i} : Calling(j)' = Calling(j) /\ Waiting(j)' = Waiting(j)
  PROVE  /\ mEntries' \in [Slots -> Entries]
         /\ mEntries'[i].activeCalls = n
         /\ \A j \in Slots \ {i} : mEntries'[j] = mEntries[j]
         /\ EntriesAccounted' /\ EntriesSound'
<1> USE DEF ListIInv
<1> DEFINE e == Counted(mEntries[i], n)
<1>1. /\ e \in Entries
      /\ e.observer = mEntries[i].observer
      /\ e.activeCalls = n
      /\ e.generation = mEntries[i].generation
      /\ e.removed = mEntries[i].removed
      /\ e.waitingRemoval = mEntries[i].waitingRemoval
  BY Counts, CountedFields
<1> HIDE DEF e
<1>2. EntryAccounted(i) /\ EntrySound(i)
  BY DEF EntriesAccounted, EntriesSound
<1>3. /\ mEntries' \in [Slots -> Entries]
      /\ mEntries'[i] = e
      /\ \A j \in Slots \ {i} : mEntries'[j] = mEntries[j]
      /\ EntriesSound'
  <2>1. e.waitingRemoval => e.removed
    BY <1>1, <1>2 DEF EntrySound
  <2> QED
    BY <1>1, <2>1, SetKeepsSound DEF e
<1>4. ASSUME NEW j \in Slots PROVE EntryAccounted(j)'
  <2>1. CASE j = i
    BY <1>1, <1>2, <1>3, <2>1, Zenon DEF EntryAccounted
  <2>2. CASE j # i
    BY <1>3, <2>2, EntryKept
  <2> QED
    BY <2>1, <2>2
<1> QED
  BY <1>1, <1>3, <1>4 DEF EntriesAccounted

\* A thread comes to an entry that has not been removed, so that nobody waits.
LEMMA AcquireKeeps ==
  ASSUME ListIInv, NEW t \in Threads, Acquire(t)
  PROVE  ListIInv'
<1> USE DEF ListIInv
<1>1. PICK i \in todo[t] :
        /\ todo' = [todo EXCEPT ![t] = @ \ {i}]
        /\ IF MayCall(i, startGeneration[t])
             THEN /\ mEntries' = [mEntries EXCEPT ![i].activeCalls = @ + 1]
                  /\ slot' = [slot EXCEPT ![t] = i]
                  /\ Goto(t, "calling")
             ELSE UNCHANGED <<mEntries, slot, pc>>
  BY Zenon DEF Acquire
<1>2. /\ pc[t] = "next" /\ i \in Slots
      /\ UNCHANGED <<mOccupied, mGeneration, mChanged, startGeneration>>
  BY DEF Acquire, TypeOK
<1>3. CASE ~MayCall(i, startGeneration[t])
  <2>1. UNCHANGED <<mEntries, slot, pc>>
    BY <1>1, <1>3
  <2>2. \A j \in Slots : Calling(j)' = Calling(j) /\ Waiting(j)' = Waiting(j)
    BY <2>1, Zenon DEF Calling, Waiting
  <2>3. TypeOK'
    BY <1>1, <1>2, <2>1, SMT DEF TypeOK
  <2>4. ThreadsSound'
    BY <1>1, <1>2, <2>1, SMT DEF ThreadsSound, ThreadSound, TypeOK
  <2>5. WaiterNoticed'
    BY <2>1 DEF WaiterNoticed
  <2> QED
    BY <1>2, <2>1, <2>2, <2>3, <2>4, <2>5, TableKept
<1>4. CASE MayCall(i, startGeneration[t])
  <2> DEFINE n == mEntries[i].activeCalls + 1
  <2>1. /\ mEntries' = [mEntries EXCEPT ![i] = Counted(mEntries[i], n)]
        /\ slot' = [slot EXCEPT ![t] = i]
        /\ pc' = [pc EXCEPT ![t] = "calling"]
    BY <1>1, <1>4, Zenon DEF Counted, Goto
  <2>2. /\ pc'[t] = "calling" /\ slot'[t] = i
        /\ \A u \in Threads \ {t} : pc'[u] = pc[u] /\ slot'[u] = slot[u]
    BY <2>1 DEF TypeOK
  <2>3. \A j \in Slots : t \notin Calling(j) /\ t \notin Waiting(j)
    BY <1>2 DEF Calling, Waiting
  <2>4. ASSUME NEW j \in Slots
        PROVE  /\ Calling(j)' = IF i = j THEN Calling(j) \cup {t} ELSE Calling(j)
               /\ Waiting(j)' = Waiting(j)
    <3>1. /\ Calling(j)' = IF i = j THEN Calling(j) \cup {t} ELSE Calling(j) \ {t}
          /\ Waiting(j)' = Waiting(j) \ {t}
      BY <2>2, ThreadMoves
    <3> QED
      BY <2>3, <3>1
  <2>5. n \in Nat /\ n = Cardinality(Calling(i)')
    <3>1. /\ mEntries[i].activeCalls = Cardinality(Calling(i))
          /\ mEntries[i].activeCalls \in Nat
          /\ IsFiniteSet(Calling(i))
      BY <1>2, Counts DEF EntriesAccounted, EntryAccounted
    <3>2. Cardinality(Calling(i) \cup {t}) = Cardinality(Calling(i)) + 1
      BY <1>2, <2>3, <3>1, FS_AddElement
    <3>3. Calling(i)' = Calling(i) \cup {t}
      BY <1>2, <2>4
    <3> QED
      BY <3>1, <3>2, <3>3
  <2>6. i \in mOccupied /\ ~mEntries[i].removed
    BY <1>4 DEF MayCall
  <2> HIDE DEF n
  <2>7. /\ mEntries' \in [Slots -> Entries]
        /\ mEntries'[i].activeCalls = n
        /\ \A j \in Slots \ {i} : mEntries'[j] = mEntries[j]
        /\ EntriesAccounted' /\ EntriesSound'
    BY <1>2, <2>1, <2>4, <2>5, <2>6, CallsCounted
  <2>8. TypeOK'
    BY <1>1, <1>2, <2>1, <2>7, SMT DEF TypeOK
  <2>9. ThreadsSound'
    BY <1>1, <1>2, <2>1, SMT DEF ThreadsSound, ThreadSound, TypeOK
  <2>10. WaiterNoticed'
    <3> SUFFICES ASSUME NEW u \in Threads, pc'[u] = "wait",
                        mEntries'[slot'[u]].activeCalls = 0
                 PROVE  \E v \in Threads : pc'[v] = "cast"
      BY DEF WaiterNoticed
    <3>1. /\ u # t /\ pc[u] = "wait" /\ slot'[u] = slot[u]
          /\ slot[u] \in Slots /\ u \in Waiting(slot[u])
      BY <2>2 DEF TypeOK, Waiting
    <3>2. slot[u] # i
      <4>1. EntrySound(i)
        BY <1>2 DEF EntriesSound
      <4> QED
        BY <1>2, <2>6, <3>1, <4>1, Counts DEF EntrySound
    <3>3. PICK v \in Threads : pc[v] = "cast"
      BY <2>7, <3>1, <3>2 DEF WaiterNoticed
    <3> QED
      BY <1>2, <2>2, <3>3
  <2> QED
    BY <2>7, <2>8, <2>9, <2>10
<1> QED
  BY <1>3, <1>4

\* The last call of a removed entry frees it, or announces a broadcast.
LEMMA ReleaseKeeps ==
  ASSUME ListIInv, NEW t \in Threads, Release(t)
  PROVE  ListIInv'
<1> USE DEF ListIInv
<1> PICK i \in Slots : i = slot[t]
  BY DEF TypeOK
<1> DEFINE last == mEntries[i].activeCalls <= 1
           freed == last /\ mEntries[i].removed /\ ~mEntries[i].waitingRemoval
           n == mEntries[i].activeCalls - 1
<1>1. /\ pc[t] = "calling"
      /\ slot' = [slot EXCEPT ![t] = 0]
      /\ UNCHANGED <<mGeneration, mChanged, todo, startGeneration>>
  BY DEF Release
<1>2. /\ t \in Calling(i) /\ i \in mOccupied
      /\ \A j \in Slots : t \notin Waiting(j) /\ (j # i => t \notin Calling(j))
  <2>1. t \in Calling(i)
    BY <1>1 DEF Calling
  <2> QED
    BY <1>1, <2>1, Counts DEF Calling, Waiting
<1>3. /\ mEntries[i] \in Entries
      /\ mEntries[i].activeCalls \in Nat /\ mEntries[i].activeCalls # 0
      /\ mEntries[i].activeCalls = Cardinality(Calling(i))
      /\ mEntries[i].waitingRemoval <=> Waiting(i) # {}
      /\ IsFiniteSet(Calling(i))
  BY <1>2, Counts DEF EntriesAccounted, EntryAccounted
<1>4. n \in Nat /\ n = Cardinality(Calling(i) \ {t}) /\ (last <=> n = 0)
  <2>1. Cardinality(Calling(i) \ {t}) = Cardinality(Calling(i)) - 1
    BY <1>2, <1>3, FS_RemoveElement
  <2> QED
    BY <1>3, <2>1, SMT
<1>5. pc' = [pc EXCEPT ![t] = IF last /\ mEntries[i].waitingRemoval
                                THEN "cast" ELSE "next"]
  BY <1>2, Zenon DEF Release, Goto
<1>6. IF freed THEN Reset({i})
      ELSE /\ mEntries' = [mEntries EXCEPT ![i] = Counted(mEntries[i], n)]
           /\ UNCHANGED mOccupied
  <2>1. CASE freed
    BY <1>2, <2>1, Zenon DEF Release
  <2>2. CASE ~freed
    <3>1. mEntries[i].activeCalls > 0
      BY <1>3, SMT
    <3>2. mEntries' = [mEntries EXCEPT ![i].activeCalls = @ - 1] /\ UNCHANGED mOccupied
      BY <1>2, <2>2, <3>1, Zenon DEF Release
    <3> QED
      BY <2>2, <3>2, Zenon DEF Counted
  <2> QED
    BY <2>1, <2>2
<1>7. /\ pc'[t] \in {"cast", "next"} /\ slot'[t] = 0
      /\ last /\ mEntries[i].waitingRemoval => pc'[t] = "cast"
      /\ \A u \in Threads \ {t} : pc'[u] = pc[u] /\ slot'[u] = slot[u]
  BY <1>1, <1>5 DEF TypeOK
<1>8. ASSUME NEW j \in Slots
      PROVE  /\ Calling(j)' = Calling(j) \ {t}
             /\ Waiting(j)' = Waiting(j)
             /\ j # i => Calling(j)' = Calling(j)
  <2>1. Calling(j)' = Calling(j) \ {t} /\ Waiting(j)' = Waiting(j) \ {t}
    BY <1>7, ThreadMoves
  <2> QED
    BY <1>2, <2>1
<1> HIDE DEF last, n
<1>9. /\ mEntries' \in [Slots -> Entries] /\ mOccupied' \subseteq Slots
      /\ mEntries'[i].activeCalls = n
      /\ \A j \in Slots \ {i} : mEntries'[j] = mEntries[j]
      /\ EntriesAccounted' /\ EntriesSound'
  <2>1. CASE freed
    <3>1. /\ mEntries' \in [Slots -> Entries]
          /\ mEntries'[i] = Empty /\ i \notin mOccupied'
          /\ \A j \in Slots \ {i} :
               mEntries'[j] = mEntries[j] /\ (j \in mOccupied' <=> j \in mOccupied)
          /\ EntriesSound'
      BY <1>1, <1>6, <2>1, ResetKeepsSound
    <3>2. Empty.activeCalls = 0 /\ mOccupied' \subseteq Slots
      BY <1>6, <2>1, Zenon DEF Empty, Reset, TypeOK
    <3>3. Calling(i)' = {} /\ Waiting(i)' = {}
      <4>1. IsFiniteSet(Calling(i) \ {t})
        BY <1>3, FS_RemoveElement
      <4>2. Calling(i) \ {t} = {}
        BY <1>4, <2>1, <4>1, FS_EmptySet
      <4> QED
        BY <1>3, <1>8, <2>1, <4>2
    <3>4. ASSUME NEW j \in Slots PROVE EntryAccounted(j)'
      <4>1. CASE j = i
        BY <3>1, <3>3, <4>1, FreedIsAccounted
      <4>2. CASE j # i
        BY <1>8, <3>1, <4>2, EntryKept
      <4> QED
        BY <4>1, <4>2
    <3> QED
      BY <1>4, <2>1, <3>1, <3>2, <3>4 DEF EntriesAccounted
  <2>2. CASE ~freed
    <3>1. ASSUME mEntries[i].removed PROVE Calling(i)' \cup Waiting(i)' # {}
      <4>1. CASE ~last
        <5>1. Calling(i) \ {t} # {}
          BY <1>4, <4>1, FS_EmptySet
        <5> QED
          BY <1>8, <5>1
      <4>2. CASE mEntries[i].waitingRemoval
        BY <1>3, <1>8, <4>2
      <4> QED
        BY <2>2, <3>1, <4>1, <4>2
    <3>2. n = Cardinality(Calling(i)')
      BY <1>4, <1>8
    <3>3. mEntries' = [mEntries EXCEPT ![i] = Counted(mEntries[i], n)] /\ UNCHANGED mOccupied
      BY <1>6, <2>2
    <3>4. /\ mEntries' \in [Slots -> Entries]
          /\ mEntries'[i].activeCalls = n
          /\ \A j \in Slots \ {i} : mEntries'[j] = mEntries[j]
          /\ EntriesAccounted' /\ EntriesSound'
      BY <1>1, <1>2, <1>4, <1>8, <3>1, <3>2, <3>3, CallsCounted
    <3> QED
      BY <3>3, <3>4 DEF TypeOK
  <2> QED
    BY <2>1, <2>2
<1>10. TypeOK'
  <2>1. /\ pc' \in [Threads -> {"idle", "wait", "relock", "next", "calling", "cast"}]
        /\ slot' \in [Threads -> Slots]
    BY <1>1, <1>5, Constants, SMT DEF TypeOK
  <2>2. mChanged' = {u \in Threads : pc'[u] = "wait"}
    BY <1>1, <1>7 DEF TypeOK
  <2> QED
    BY <1>1, <1>9, <2>1, <2>2 DEF TypeOK
<1>11. ThreadsSound'
  BY <1>1, <1>7 DEF ThreadsSound, ThreadSound
<1>12. WaiterNoticed'
  <2> SUFFICES ASSUME NEW u \in Threads, pc'[u] = "wait",
                      mEntries'[slot'[u]].activeCalls = 0
               PROVE  \E v \in Threads : pc'[v] = "cast"
    BY DEF WaiterNoticed
  <2>1. /\ u # t /\ pc[u] = "wait" /\ slot'[u] = slot[u]
        /\ slot[u] \in Slots /\ u \in Waiting(slot[u])
    BY <1>7 DEF TypeOK, Waiting
  <2>2. CASE slot[u] = i
    <3>1. last /\ mEntries[i].waitingRemoval
      BY <1>3, <1>4, <1>9, <2>1, <2>2
    <3> QED
      BY <1>7, <3>1
  <2>3. CASE slot[u] # i
    <3>1. PICK v \in Threads : pc[v] = "cast"
      BY <1>9, <2>1, <2>3 DEF WaiterNoticed
    <3> QED
      BY <1>1, <1>7, <3>1
  <2> QED
    BY <2>2, <2>3
<1> QED
  BY <1>9, <1>10, <1>11, <1>12

\* releaseRemoved() finds nothing: whoever was the last at a removed entry has
\* freed it.
LEMMA NothingToRelease ==
  ASSUME ListIInv
  PROVE  {i \in mOccupied : /\ mEntries[i].removed
                            /\ ~mEntries[i].waitingRemoval
                            /\ mEntries[i].activeCalls = 0} = {}
<1> SUFFICES ASSUME NEW i \in mOccupied, mEntries[i].removed,
                    ~mEntries[i].waitingRemoval, mEntries[i].activeCalls = 0
             PROVE  FALSE
  OBVIOUS
<1>1. i \in Slots
  BY DEF ListIInv, TypeOK
<1>2. Calling(i) = {} /\ Waiting(i) = {}
  BY <1>1, Counts DEF ListIInv
<1> QED
  BY <1>1, <1>2 DEF ListIInv, EntriesAccounted, EntryAccounted

\* notify() returns without a trace.
LEMMA NotifyEndsKeeps ==
  ASSUME ListIInv, NEW t \in Threads, NotifyEnds(t)
  PROVE  ListIInv'
<1> USE DEF ListIInv, TypeOK
<1>1. /\ pc[t] = "next" /\ pc' = [pc EXCEPT ![t] = "idle"]
      /\ todo[t] = {} /\ Reset({})
      /\ startGeneration' = [startGeneration EXCEPT ![t] = 0]
      /\ UNCHANGED <<mGeneration, mChanged, slot, todo>>
  BY NothingToRelease, Zenon DEF NotifyEnds, Goto
<1>2. mEntries' = mEntries /\ mOccupied' = mOccupied
  BY <1>1, SMT DEF Reset
<1>3. TypeOK'
  BY <1>1, <1>2, Constants, SMT
<1>4. \A j \in Slots : Calling(j)' = Calling(j) /\ Waiting(j)' = Waiting(j)
  BY <1>1, SMT DEF Calling, Waiting
<1>5. 0 <= mGeneration
  BY Constants, SMT
<1>6. ThreadsSound'
  <2> SUFFICES ASSUME NEW u \in Threads PROVE ThreadSound(u)'
    BY DEF ThreadsSound
  <2>1. ThreadSound(u)
    BY DEF ThreadsSound
  <2> QED
    BY <1>1, <1>5, <2>1 DEF ThreadSound
<1>7. WaiterNoticed'
  BY <1>1, <1>2 DEF WaiterNoticed
<1> QED
  BY <1>1, <1>2, <1>3, <1>4, <1>6, <1>7, TableKept

-------------------------------------------------------------------------------
(* The theorems *)

\* The constructor leaves an empty table.
LEMMA ListInitial == Init => ListIInv
<1> SUFFICES ASSUME Init PROVE ListIInv
  OBVIOUS
<1> USE DEF Init
<1>1. TypeOK
  BY Constants, SMT DEF TypeOK
<1>2. Empty.activeCalls = 0 /\ ~Empty.removed /\ ~Empty.waitingRemoval /\ Empty.generation = 0
  BY Zenon DEF Empty
<1>3. ASSUME NEW i \in Slots PROVE EntryAccounted(i)
  <2>1. Calling(i) = {} /\ Waiting(i) = {}
    BY SMT DEF Calling, Waiting
  <2>2. Cardinality(Calling(i)) = 0 /\ Cardinality(Waiting(i)) = 0
    BY <2>1, FS_EmptySet, Zenon
  <2> QED
    BY <1>2, <2>2, Zenon DEF EntryAccounted
<1>4. EntriesSound
  BY <1>2, SMT DEF EntriesSound, EntrySound
<1>5. ThreadsSound
  BY SMT DEF ThreadsSound, ThreadSound
<1>6. WaiterNoticed
  BY SMT DEF WaiterNoticed
<1> QED
  BY <1>1, <1>3, <1>4, <1>5, <1>6 DEF ListIInv, EntriesAccounted

\* Every step keeps the invariant.
LEMMA NextKeepsList == ListIInv /\ [Next]_vars => ListIInv'
<1> SUFFICES ASSUME ListIInv, [Next]_vars PROVE ListIInv'
  OBVIOUS
<1>1. ASSUME UNCHANGED vars PROVE ListIInv'
  <2>1. UNCHANGED <<mEntries, mOccupied, mGeneration, mChanged, pc, slot, todo, startGeneration>>
    BY <1>1 DEF vars, locals
  <2>2. \A j \in Slots : Calling(j)' = Calling(j) /\ Waiting(j)' = Waiting(j)
    BY <2>1, Zenon DEF Calling, Waiting
  <2>3. TypeOK' /\ ThreadsSound' /\ WaiterNoticed'
    BY <2>1 DEF ListIInv, TypeOK, ThreadsSound, ThreadSound, WaiterNoticed
  <2> QED
    BY <2>1, <2>2, <2>3, TableKept DEF ListIInv
<1>2. ASSUME NEW x \in Observers, Add(x) \/ Remove(x) PROVE ListIInv'
  BY <1>2, AddKeeps, RemoveKeeps
<1>3. ASSUME NEW t \in Threads, NEW x \in Observers,
             RemoveWithoutWait(t, x) \/ RemoveBlocks(t, x)
      PROVE  ListIInv'
  BY <1>3, RemoveWithoutWaitKeeps, RemoveBlocksKeeps
<1>4. ASSUME NEW t \in Threads, Step(t) \/ SpuriousWakeup(t) \/ NotifyBegins(t)
      PROVE  ListIInv'
  BY <1>4, WaitAgainKeeps, WaitEndsKeeps, AcquireKeeps, ReleaseKeeps, BroadcastKeeps,
     NotifyEndsKeeps, SpuriousWakeupKeeps, NotifyBeginsKeeps DEF Step
<1> QED
  BY <1>1, <1>2, <1>3, <1>4 DEF Next

\* The inductive invariant holds in every state: for any finite set of threads,
\* any observers and any size of the table.
THEOREM ListInductive == Spec => []ListIInv
  BY ListInitial, NextKeepsList, PTL DEF Spec

\* Every call and every waiting thread is accounted for at its entry, and a
\* slot that was removed comes back (releaseAfterNotify(), removeAndWait()).
THEOREM SlotsStayAccounted == Spec => []SlotsAccounted
<1>1. ListIInv => SlotsAccounted
  BY DEF ListIInv, SlotsAccounted, EntriesAccounted
<1> QED
  BY <1>1, ListInductive, PTL

\* removeAndWait() never sleeps without somebody who is about to wake it.
THEOREM WaitersNoticed == Spec => []WaiterNoticed
  BY ListInductive, PTL DEF ListIInv

-------------------------------------------------------------------------------
(* The list keeps the promises of ObserverContract                         *)

\* The variables of the contract.
Registered == {x \in Observers : contains(x)}

Notifying == {t \in Threads : pc[t] \in {"next", "calling", "cast"}}

DueOf(t) ==
  {mEntries[i].observer : i \in {j \in todo[t] : MayCall(j, startGeneration[t])}}

CalledBy(t) ==
  IF pc[t] = "calling" THEN mEntries[slot[t]].observer ELSE NoObserver

AwaitedBy(t) ==
  IF pc[t] \in {"wait", "relock"} THEN mEntries[slot[t]].observer ELSE NoObserver

\* The entry belongs to the list and has not been removed.
Live(j) == j \in mOccupied /\ ~mEntries[j].removed

\* A step that leaves all five alone is none of the contract.
LEMMA Stutters ==
  ASSUME Registered' = Registered, Notifying' = Notifying,
         \A u \in Threads : /\ DueOf(u)' = DueOf(u)
                            /\ CalledBy(u)' = CalledBy(u)
                            /\ AwaitedBy(u)' = AwaitedBy(u)
  PROVE  UNCHANGED Contract!vars
  BY Zenon DEF Contract!vars, Registered, Notifying, DueOf, CalledBy, AwaitedBy

\* As long as the live entries stay, so do the observers in the list, and a
\* notification may call the same ones.
LEMMA LiveKept ==
  ASSUME \A j \in Slots : /\ Live(j)' <=> Live(j)
                          /\ Live(j) => /\ mEntries'[j].observer = mEntries[j].observer
                                        /\ mEntries'[j].generation = mEntries[j].generation
  PROVE  /\ Registered' = Registered
         /\ \A j \in Slots, g \in Nat : MayCall(j, g)' <=> MayCall(j, g)
<1>1. \A j \in Slots, x \in Observers : Active(j, x)' <=> Active(j, x)
  BY Zenon DEF Live, Active
<1>2. Registered' = Registered
  BY <1>1, Zenon DEF Registered, contains
<1>3. \A j \in Slots, g \in Nat : MayCall(j, g)' <=> MayCall(j, g)
  BY Zenon DEF Live, MayCall
<1> QED
  BY <1>2, <1>3

\* Then the thread has the same observers left to call.
LEMMA DueKept ==
  ASSUME TypeOK, NEW u \in Threads,
         \A j \in Slots : /\ Live(j)' <=> Live(j)
                          /\ Live(j) => /\ mEntries'[j].observer = mEntries[j].observer
                                        /\ mEntries'[j].generation = mEntries[j].generation,
         todo'[u] = todo[u], startGeneration'[u] = startGeneration[u]
  PROVE  DueOf(u)' = DueOf(u)
<1> DEFINE S == {j \in todo[u] : MayCall(j, startGeneration[u])}
<1>1. todo[u] \subseteq Slots /\ startGeneration[u] \in Nat
  BY Constants DEF TypeOK
<1>2. S' = S
  BY <1>1, LiveKept, Zenon
<1>3. \A j \in S : mEntries'[j].observer = mEntries[j].observer
  BY <1>1, Zenon DEF MayCall, Live
<1>4. {mEntries'[i].observer : i \in S'} = {mEntries[i].observer : i \in S}
  BY <1>2, <1>3, Zenon
<1> QED
  BY <1>4, Zenon DEF DueOf

\* A thread that stays where it is calls, or waits for, the same observer.
LEMMA PlaceKept ==
  ASSUME NEW u \in Threads,
         slot'[u] = slot[u],
         pc'[u] = "calling" <=> pc[u] = "calling",
         pc'[u] \in {"wait", "relock"} <=> pc[u] \in {"wait", "relock"},
         pc[u] \in {"calling", "wait", "relock"} =>
           mEntries'[slot[u]].observer = mEntries[slot[u]].observer
  PROVE  CalledBy(u)' = CalledBy(u) /\ AwaitedBy(u)' = AwaitedBy(u)
  BY SMT DEF CalledBy, AwaitedBy

\* The entries that somebody is at are in use, and their observers are known.
LEMMA Places ==
  ASSUME ListIInv, NEW u \in Threads
  PROVE  /\ slot[u] \in Slots
         /\ pc[u] \in {"calling", "wait", "relock"} =>
              /\ slot[u] \in mOccupied
              /\ mEntries[slot[u]].observer \in Observers
              /\ mEntries[slot[u]].observer # NoObserver
         /\ pc[u] \in {"wait", "relock"} => mEntries[slot[u]].removed
         /\ pc[u] = "calling" => u \in Calling(slot[u])
         /\ pc[u] \in {"wait", "relock"} => u \in Waiting(slot[u])
<1>1. slot[u] \in Slots
  BY DEF ListIInv, TypeOK
<1>2. /\ pc[u] = "calling" => u \in Calling(slot[u])
      /\ pc[u] \in {"wait", "relock"} => u \in Waiting(slot[u])
  BY Zenon DEF Calling, Waiting
<1>3. EntrySound(slot[u])
  BY <1>1 DEF ListIInv, EntriesSound
<1>4. pc[u] \in {"calling", "wait", "relock"} => slot[u] \in mOccupied
  BY <1>1, <1>2, Counts DEF ListIInv
<1>5. pc[u] \in {"wait", "relock"} => mEntries[slot[u]].removed
  BY <1>1, <1>2, <1>3, Counts DEF ListIInv, EntrySound
<1> QED
  BY <1>1, <1>2, <1>3, <1>4, <1>5, ObserversAssumption DEF EntrySound

\* An entry that is live no more takes its observer out of the list, and out of
\* what is left to call.
LEMMA Unregistered ==
  ASSUME ListIInv, NEW x \in Observers, NEW i \in Slots, Active(i, x), ~Live(i)',
         \A j \in Slots \ {i} :
           mEntries'[j] = mEntries[j] /\ (j \in mOccupied' <=> j \in mOccupied),
         UNCHANGED <<todo, startGeneration>>
  PROVE  /\ x \in Registered
         /\ Registered' = Registered \ {x}
         /\ \A u \in Threads : DueOf(u)' = DueOf(u) \ {x}
<1> USE DEF ListIInv
<1>1. \A j \in Slots \ {i} : ~(j \in mOccupied /\ mEntries[j].observer = x)
  BY DEF Active, EntriesSound, EntrySound
<1>2. \A j \in Slots \ {i} : Live(j)' <=> Live(j)
  BY Zenon DEF Live
<1>3. \A j \in Slots, y \in Observers : Active(j, y)' <=> Active(j, y) /\ y # x
  <2> SUFFICES ASSUME NEW j \in Slots, NEW y \in Observers
               PROVE  Active(j, y)' <=> Active(j, y) /\ y # x
    OBVIOUS
  <2>1. CASE j = i
    BY <2>1 DEF Active, Live
  <2>2. CASE j # i
    BY <1>1, <2>2, Zenon DEF Active
  <2> QED
    BY <2>1, <2>2
<1>4. x \in Registered
  BY Zenon DEF Registered, contains
<1>5. Registered' = Registered \ {x}
  <2>1. \A y \in Observers : contains(y)' <=> contains(y) /\ y # x
    BY <1>3, Zenon DEF contains
  <2> QED
    BY <2>1, Zenon DEF Registered
<1>6. ASSUME NEW u \in Threads PROVE DueOf(u)' = DueOf(u) \ {x}
  <2> DEFINE S == {j \in todo[u] : MayCall(j, startGeneration[u])}
  <2>1. todo[u] \subseteq Slots
    BY DEF TypeOK
  <2>2. S' = S \ {i}
    <3>1. \A j \in Slots : MayCall(j, startGeneration[u])' <=> MayCall(j, startGeneration[u]) /\ j # i
      <4> SUFFICES ASSUME NEW j \in Slots
                   PROVE  MayCall(j, startGeneration[u])' <=> MayCall(j, startGeneration[u]) /\ j # i
        OBVIOUS
      <4>1. CASE j = i
        BY <4>1 DEF MayCall, Live
      <4>2. CASE j # i
        BY <4>2, Zenon DEF MayCall
      <4> QED
        BY <4>1, <4>2
    <3> QED
      BY <2>1, <3>1, Zenon
  <2>3. \A j \in S \ {i} : mEntries'[j] = mEntries[j] /\ mEntries[j].observer # x
    BY <1>1, <2>1, Zenon DEF MayCall
  <2>4. i \in S => mEntries[i].observer = x
    BY DEF Active
  <2> HIDE DEF S
  <2>5. {mEntries'[k].observer : k \in S'} = {mEntries[k].observer : k \in S} \ {x}
    BY <2>2, <2>3, <2>4, Zenon
  <2> QED
    BY <2>5, Zenon DEF DueOf, S
<1> QED
  BY <1>4, <1>5, <1>6

\* add(): notifications that have begun are older than the new entry.
LEMMA AddRefines ==
  ASSUME ListIInv, NEW x \in Observers, Add(x)
  PROVE  Contract!Add(x)
<1> USE DEF ListIInv
<1> DEFINE e == Fresh(x, mGeneration + 1)
<1>1. PICK i \in Slots : /\ i \notin mOccupied
                         /\ mEntries' = [mEntries EXCEPT ![i] = e]
                         /\ mOccupied' = mOccupied \cup {i}
  BY Zenon DEF Add, IsFirst, Fresh
<1>2. /\ mGeneration + 1 \in Generations /\ mGeneration \in Nat
      /\ mGeneration + 1 > mGeneration
  BY Constants, GenerationAssumption, SMT DEF Add, TypeOK, Generations
<1>3. e.observer = x /\ e.generation = mGeneration + 1 /\ ~e.removed
  BY <1>2, FreshFields
<1> HIDE DEF e
<1>4. /\ mEntries'[i] = e
      /\ \A j \in Slots \ {i} : /\ mEntries'[j] = mEntries[j]
                                /\ j \in mOccupied' <=> j \in mOccupied
      /\ UNCHANGED <<pc, slot, todo, startGeneration>>
  BY <1>1 DEF TypeOK, Add, locals
<1>5. \A j \in mOccupied : mEntries[j].observer # x
  BY DEF Add
<1>6. x \notin Registered
  BY <1>5, Zenon DEF Registered, contains, Active
<1>7. Registered' = Registered \cup {x}
  <2>1. \A j \in Slots, y \in Observers :
          Active(j, y)' <=> Active(j, y) \/ (j = i /\ y = x)
    <3> SUFFICES ASSUME NEW j \in Slots, NEW y \in Observers
                 PROVE  Active(j, y)' <=> Active(j, y) \/ (j = i /\ y = x)
      OBVIOUS
    <3>1. CASE j = i
      BY <1>1, <1>3, <1>4, <3>1, Zenon DEF Active
    <3>2. CASE j # i
      BY <1>4, <3>2, Zenon DEF Active
    <3> QED
      BY <3>1, <3>2
  <2>2. \A y \in Observers : contains(y)' <=> contains(y) \/ y = x
    BY <2>1, Zenon DEF contains
  <2> QED
    BY <2>2, Zenon DEF Registered
<1>8. ASSUME NEW u \in Threads PROVE DueOf(u)' = DueOf(u)
  <2> DEFINE S == {j \in todo[u] : MayCall(j, startGeneration[u])}
  <2>1. todo[u] \subseteq Slots /\ startGeneration[u] \in Nat /\ startGeneration[u] <= mGeneration
    BY Constants DEF TypeOK, ThreadsSound, ThreadSound
  <2>2. ~(e.generation <= startGeneration[u])
    BY <1>2, <1>3, <2>1, SMT
  <2>3. \A j \in Slots : /\ MayCall(j, startGeneration[u])' <=> MayCall(j, startGeneration[u])
                         /\ MayCall(j, startGeneration[u]) => mEntries'[j] = mEntries[j]
    <3> SUFFICES ASSUME NEW j \in Slots
                 PROVE  /\ MayCall(j, startGeneration[u])' <=> MayCall(j, startGeneration[u])
                        /\ MayCall(j, startGeneration[u]) => mEntries'[j] = mEntries[j]
      OBVIOUS
    <3>1. CASE j = i
      BY <1>1, <1>4, <2>2, <3>1, Zenon DEF MayCall
    <3>2. CASE j # i
      BY <1>4, <3>2, Zenon DEF MayCall
    <3> QED
      BY <3>1, <3>2
  <2>4. S' = S /\ \A j \in S : mEntries'[j] = mEntries[j]
    BY <1>4, <2>1, <2>3, Zenon
  <2> HIDE DEF S
  <2>5. {mEntries'[k].observer : k \in S'} = {mEntries[k].observer : k \in S}
    BY <2>4, Zenon
  <2> QED
    BY <2>5, Zenon DEF DueOf, S
<1>9. ASSUME NEW u \in Threads
      PROVE  /\ CalledBy(u)' = CalledBy(u) /\ AwaitedBy(u)' = AwaitedBy(u)
             /\ CalledBy(u) # x /\ AwaitedBy(u) # x
  <2>1. pc[u] \in {"calling", "wait", "relock"} =>
          /\ slot[u] \in mOccupied /\ slot[u] \in Slots \ {i}
          /\ mEntries[slot[u]].observer # x
    BY <1>1, <1>5, Places
  <2>2. CalledBy(u)' = CalledBy(u) /\ AwaitedBy(u)' = AwaitedBy(u)
    BY <1>4, <2>1, PlaceKept
  <2>3. x # NoObserver
    BY ObserversAssumption
  <2> QED
    BY <2>1, <2>2, <2>3 DEF CalledBy, AwaitedBy
<1>10. Notifying' = Notifying
  BY <1>4, Zenon DEF Notifying
<1> QED
  BY <1>6, <1>7, <1>8, <1>9, <1>10, Zenon
     DEF Contract!Add, Registered, Notifying, DueOf, CalledBy, AwaitedBy

\* remove(), and removeAndWait() where nobody calls the observer.
LEMMA RemovalRefines ==
  ASSUME ListIInv, NEW x \in Observers, NEW i \in Slots, Active(i, x), ~Live(i)',
         \A j \in Slots \ {i} :
           mEntries'[j] = mEntries[j] /\ (j \in mOccupied' <=> j \in mOccupied),
         \/ mEntries'[i].observer = mEntries[i].observer
         \/ Calling(i) = {} /\ Waiting(i) = {},
         UNCHANGED locals
  PROVE  Contract!Remove(x)
<1>1. UNCHANGED <<pc, slot, todo, startGeneration>>
  BY DEF locals
<1>2. /\ x \in Registered
      /\ Registered' = Registered \ {x}
      /\ \A u \in Threads : DueOf(u)' = DueOf(u) \ {x}
  BY <1>1, Unregistered
<1>3. ASSUME NEW u \in Threads
      PROVE  CalledBy(u)' = CalledBy(u) /\ AwaitedBy(u)' = AwaitedBy(u)
  <2>1. pc[u] \in {"calling", "wait", "relock"} =>
          mEntries'[slot[u]].observer = mEntries[slot[u]].observer
    BY Places
  <2> QED
    BY <1>1, <2>1, PlaceKept
<1>4. Notifying' = Notifying
  BY <1>1, Zenon DEF Notifying
<1> QED
  BY <1>2, <1>3, <1>4, Zenon DEF Contract!Remove, Contract!Unregister,
     Registered, Notifying, DueOf, CalledBy, AwaitedBy

\* The table after Reset({i}).
LEMMA ResetEntries ==
  ASSUME ListIInv, NEW i \in Slots, Reset({i})
  PROVE  /\ ~Live(i)'
         /\ \A j \in Slots \ {i} :
              mEntries'[j] = mEntries[j] /\ (j \in mOccupied' <=> j \in mOccupied)
  BY Zenon DEF Reset, Live

\* remove().
LEMMA RemoveRefines ==
  ASSUME ListIInv, NEW x \in Observers, Remove(x)
  PROVE  Contract!Remove(x)
<1>1. PICK i \in Slots :
        /\ Active(i, x)
        /\ IF mEntries[i].activeCalls = 0 /\ ~mEntries[i].waitingRemoval
             THEN Reset({i})
             ELSE /\ mEntries' = [mEntries EXCEPT ![i].removed = TRUE]
                  /\ UNCHANGED mOccupied
  BY Zenon DEF Remove
<1>2. UNCHANGED locals
  BY DEF Remove
<1>3. CASE mEntries[i].activeCalls = 0 /\ ~mEntries[i].waitingRemoval
  <2>1. Calling(i) = {} /\ Waiting(i) = {}
    BY <1>3, Counts DEF ListIInv
  <2> QED
    BY <1>1, <1>2, <1>3, <2>1, ResetEntries, RemovalRefines
<1>4. CASE ~(mEntries[i].activeCalls = 0 /\ ~mEntries[i].waitingRemoval)
  <2>1. mEntries' = [mEntries EXCEPT ![i] = Marked(mEntries[i])] /\ mOccupied' = mOccupied
    BY <1>1, <1>4, Zenon DEF Marked
  <2>2. Marked(mEntries[i]).observer = mEntries[i].observer /\ Marked(mEntries[i]).removed
    BY Counts, MarkedFields DEF ListIInv
  <2>3. /\ mEntries'[i] = Marked(mEntries[i])
        /\ \A j \in Slots \ {i} : mEntries'[j] = mEntries[j]
    BY <2>1 DEF ListIInv, TypeOK
  <2>4. ~Live(i)' /\ mEntries'[i].observer = mEntries[i].observer
    BY <2>2, <2>3, Zenon DEF Live
  <2> QED
    BY <1>1, <1>2, <2>1, <2>3, <2>4, RemovalRefines
<1> QED
  BY <1>3, <1>4

\* To observers, removeAndWait() without a wait is remove().
LEMMA RemoveWithoutWaitRefines ==
  ASSUME ListIInv, NEW t \in Threads, NEW x \in Observers, RemoveWithoutWait(t, x)
  PROVE  Contract!Remove(x)
<1>1. PICK i \in Slots : Active(i, x) /\ mEntries[i].activeCalls = 0 /\ Reset({i})
  BY DEF RemoveWithoutWait
<1>2. EntrySound(i)
  BY DEF ListIInv, EntriesSound
<1>3. Calling(i) = {} /\ Waiting(i) = {}
  BY <1>1, <1>2, Counts DEF ListIInv, EntrySound, Active
<1> QED
  BY <1>1, <1>3, ResetEntries, RemovalRefines DEF RemoveWithoutWait

\* removeAndWait() takes the observer out of the list before it waits.
LEMMA RemoveBlocksRefines ==
  ASSUME ListIInv, NEW t \in Threads, NEW x \in Observers, RemoveBlocks(t, x)
  PROVE  Contract!RemoveAndWait(t, x)
<1> USE DEF ListIInv
<1>1. PICK i \in Slots :
        /\ Active(i, x)
        /\ mEntries' = [mEntries EXCEPT ![i].removed = TRUE,
                                        ![i].waitingRemoval = TRUE]
        /\ slot' = [slot EXCEPT ![t] = i]
  BY Zenon DEF RemoveBlocks
<1>2. /\ pc[t] = "idle" /\ pc' = [pc EXCEPT ![t] = "wait"]
      /\ UNCHANGED <<mOccupied, todo, startGeneration>>
  BY DEF RemoveBlocks, Goto
<1> DEFINE e == Claimed(mEntries[i])
<1>3. e.observer = mEntries[i].observer /\ e.removed
  BY Counts, ClaimedFields
<1>4. mEntries' = [mEntries EXCEPT ![i] = e]
  BY <1>1, Zenon DEF Claimed
<1> HIDE DEF e
<1>5. /\ mEntries'[i] = e
      /\ \A j \in Slots \ {i} : mEntries'[j] = mEntries[j]
  BY <1>4 DEF TypeOK
<1>6. ~Live(i)' /\ \A j \in Slots : mEntries'[j].observer = mEntries[j].observer
  BY <1>3, <1>5, Zenon DEF Live
<1>7. /\ x \in Registered
      /\ Registered' = Registered \ {x}
      /\ \A u \in Threads : DueOf(u)' = DueOf(u) \ {x}
  BY <1>1, <1>2, <1>5, <1>6, Unregistered
<1>8. ASSUME NEW u \in Threads
      PROVE  /\ CalledBy(u)' = CalledBy(u)
             /\ AwaitedBy(u)' = IF u = t THEN x ELSE AwaitedBy(u)
             /\ AwaitedBy(t) = NoObserver
  <2>1. CASE u = t
    <3>1. pc[u] = "idle" /\ pc'[u] = "wait" /\ slot'[u] = i
      BY <1>1, <1>2, <2>1 DEF TypeOK
    <3>2. mEntries'[i].observer = x
      BY <1>1, <1>6 DEF Active
    <3> QED
      BY <2>1, <3>1, <3>2, SMT DEF CalledBy, AwaitedBy
  <2>2. CASE u # t
    <3>1. pc'[u] = pc[u] /\ slot'[u] = slot[u] /\ slot[u] \in Slots
      BY <1>1, <1>2, <2>2 DEF TypeOK
    <3>2. AwaitedBy(t) = NoObserver
      BY <1>2, SMT DEF AwaitedBy
    <3> QED
      BY <1>6, <2>2, <3>1, <3>2, PlaceKept
  <2> QED
    BY <2>1, <2>2
<1>9. Notifying' = Notifying
  BY <1>2, SMT DEF Notifying, TypeOK
<1>10. /\ AwaitedBy(t) = NoObserver
       /\ [u \in Threads |-> AwaitedBy(u)]' = [[u \in Threads |-> AwaitedBy(u)] EXCEPT ![t] = x]
  BY <1>8
<1>11. Contract!Unregister(x)
  BY <1>7, <1>8, <1>9, Zenon DEF Contract!Unregister,
     Registered, Notifying, DueOf, CalledBy
<1> QED
  BY <1>10, <1>11, Zenon DEF Contract!RemoveAndWait, AwaitedBy

\* A thread that wakes, or waits again, goes on waiting.
LEMMA WaitStepsStutter ==
  ASSUME ListIInv, NEW t \in Threads, SpuriousWakeup(t) \/ WaitAgain(t) \/ Broadcast(t)
  PROVE  UNCHANGED Contract!vars
<1> USE DEF ListIInv, TypeOK
<1>1. /\ UNCHANGED <<mEntries, mOccupied, slot, todo, startGeneration>>
      /\ \A u \in Threads :
           /\ pc'[u] = "calling" <=> pc[u] = "calling"
           /\ pc'[u] \in {"wait", "relock"} <=> pc[u] \in {"wait", "relock"}
           /\ pc'[u] \in {"next", "calling", "cast"} <=> pc[u] \in {"next", "calling", "cast"}
  <2>1. CASE SpuriousWakeup(t)
    BY <2>1, SMT DEF SpuriousWakeup, Goto
  <2>2. CASE WaitAgain(t)
    BY <2>2, SMT DEF WaitAgain, Goto
  <2>3. CASE Broadcast(t)
    BY <2>3, SMT DEF Broadcast
  <2> QED
    BY <2>1, <2>2, <2>3
<1>2. Registered' = Registered /\ \A u \in Threads : DueOf(u)' = DueOf(u)
  BY <1>1, LiveKept, DueKept DEF Live
<1>3. \A u \in Threads : CalledBy(u)' = CalledBy(u) /\ AwaitedBy(u)' = AwaitedBy(u)
  BY <1>1, PlaceKept
<1>4. Notifying' = Notifying
  BY <1>1, Zenon DEF Notifying
<1> QED
  BY <1>2, <1>3, <1>4, Stutters

\* Whoever is at an entry other than the freed one keeps its observer, and the
\* list and the notifications lose nobody by an entry that was removed before.
LEMMA RemovedEntryFreed ==
  ASSUME ListIInv, NEW i \in Slots, Reset({i}), mEntries[i].removed,
         UNCHANGED <<todo, startGeneration>>
  PROVE  /\ Registered' = Registered
         /\ \A u \in Threads : DueOf(u)' = DueOf(u)
         /\ \A j \in Slots \ {i} : mEntries'[j] = mEntries[j]
<1>1. /\ ~Live(i)' /\ ~Live(i)
      /\ \A j \in Slots \ {i} :
           mEntries'[j] = mEntries[j] /\ (j \in mOccupied' <=> j \in mOccupied)
  BY ResetEntries DEF Live
<1>2. \A j \in Slots : /\ Live(j)' <=> Live(j)
                       /\ Live(j) => /\ mEntries'[j].observer = mEntries[j].observer
                                     /\ mEntries'[j].generation = mEntries[j].generation
  BY <1>1, Zenon DEF Live
<1>3. Registered' = Registered
  BY <1>2, LiveKept
<1>4. \A u \in Threads : DueOf(u)' = DueOf(u)
  BY <1>2, DueKept DEF ListIInv
<1> QED
  BY <1>1, <1>3, <1>4

\* removeAndWait() returns when nobody calls the observer: it is in one slot.
LEMMA WaitEndsRefines ==
  ASSUME ListIInv, NEW t \in Threads, WaitEnds(t)
  PROVE  Contract!WaitEnds(t)
<1> USE DEF ListIInv
<1> PICK i \in Slots : i = slot[t]
  BY Places
<1>1. /\ pc[t] = "relock" /\ pc' = [pc EXCEPT ![t] = "idle"]
      /\ slot' = [slot EXCEPT ![t] = 0]
      /\ mEntries[i].activeCalls = 0
      /\ Reset({i})
      /\ UNCHANGED <<todo, startGeneration>>
  BY DEF WaitEnds, Goto
<1>2. /\ pc'[t] = "idle"
      /\ \A u \in Threads \ {t} : pc'[u] = pc[u] /\ slot'[u] = slot[u]
  BY <1>1 DEF TypeOK
<1>3. /\ i \in mOccupied /\ mEntries[i].removed
      /\ mEntries[i].observer # NoObserver
      /\ Waiting(i) = {t} /\ Calling(i) = {}
  BY <1>1, Places, Counts
<1>4. /\ Registered' = Registered
      /\ \A u \in Threads : DueOf(u)' = DueOf(u)
      /\ \A j \in Slots \ {i} : mEntries'[j] = mEntries[j]
  BY <1>1, <1>3, RemovedEntryFreed
<1>5. ASSUME NEW u \in Threads
      PROVE  /\ CalledBy(u) # AwaitedBy(t)
             /\ CalledBy(u)' = CalledBy(u)
             /\ AwaitedBy(u)' = IF u = t THEN NoObserver ELSE AwaitedBy(u)
             /\ AwaitedBy(t) # NoObserver
  <2>1. AwaitedBy(t) = mEntries[i].observer /\ AwaitedBy(t) # NoObserver
    BY <1>1, <1>3 DEF AwaitedBy
  <2>2. CASE u = t
    BY <1>1, <1>2, <2>1, <2>2, SMT DEF CalledBy, AwaitedBy
  <2>3. CASE u # t
    <3>1. pc[u] \in {"calling", "wait", "relock"} =>
            slot[u] # i /\ slot[u] \in mOccupied /\ slot[u] \in Slots
      BY <1>3, <2>3, Places
    <3>2. CalledBy(u)' = CalledBy(u) /\ AwaitedBy(u)' = AwaitedBy(u)
      BY <1>2, <1>4, <2>3, <3>1, PlaceKept
    <3>3. pc[u] = "calling" => mEntries[slot[u]].observer # mEntries[i].observer
      BY <1>3, <3>1 DEF EntriesSound, EntrySound
    <3> QED
      BY <2>1, <2>3, <3>2, <3>3 DEF CalledBy
  <2> QED
    BY <2>2, <2>3
<1>6. Notifying' = Notifying
  BY <1>1, <1>2, SMT DEF Notifying
<1>7. [u \in Threads |-> AwaitedBy(u)]' = [[u \in Threads |-> AwaitedBy(u)] EXCEPT ![t] = NoObserver]
  BY <1>5
<1>8. AwaitedBy(t) # NoObserver /\ \A u \in Threads : CalledBy(u) # AwaitedBy(t)
  BY <1>5
<1> QED
  BY <1>4, <1>5, <1>6, <1>7, <1>8, Zenon DEF Contract!WaitEnds, Registered, Notifying,
     DueOf, CalledBy, AwaitedBy

\* A notification owes a call to every observer that is in the list.
LEMMA NotifyBeginsRefines ==
  ASSUME ListIInv, NEW t \in Threads, NotifyBegins(t)
  PROVE  Contract!NotifyBegins(t)
<1> USE DEF ListIInv
<1>1. /\ pc[t] = "idle" /\ pc' = [pc EXCEPT ![t] = "next"]
      /\ todo' = [todo EXCEPT ![t] = mOccupied]
      /\ startGeneration' = [startGeneration EXCEPT ![t] = mGeneration]
      /\ UNCHANGED <<mEntries, mOccupied, mGeneration, mChanged, slot>>
  BY DEF NotifyBegins, Goto
<1>2. /\ pc'[t] = "next" /\ todo'[t] = mOccupied /\ startGeneration'[t] = mGeneration
      /\ \A u \in Threads \ {t} : /\ pc'[u] = pc[u] /\ todo'[u] = todo[u]
                                  /\ startGeneration'[u] = startGeneration[u]
  BY <1>1 DEF TypeOK
<1>3. Registered' = Registered
  BY <1>1, LiveKept DEF Live
<1>4. \A u \in Threads : CalledBy(u)' = CalledBy(u) /\ AwaitedBy(u)' = AwaitedBy(u)
  <2> SUFFICES ASSUME NEW u \in Threads
               PROVE  CalledBy(u)' = CalledBy(u) /\ AwaitedBy(u)' = AwaitedBy(u)
    OBVIOUS
  <2>1. /\ pc'[u] = "calling" <=> pc[u] = "calling"
        /\ pc'[u] \in {"wait", "relock"} <=> pc[u] \in {"wait", "relock"}
    BY <1>1, <1>2, SMT
  <2> QED
    BY <1>1, <2>1, PlaceKept
<1>5. Notifying' = Notifying \cup {t} /\ t \notin Notifying
  BY <1>1, <1>2, SMT DEF Notifying
<1>6. DueOf(t)' = Registered
  <2> DEFINE S == {j \in mOccupied : ~mEntries[j].removed}
  <2>1. \A j \in mOccupied : mEntries[j].generation <= mGeneration
    BY DEF EntriesSound, EntrySound, TypeOK
  <2>2. {j \in todo'[t] : MayCall(j, startGeneration[t])'} = S
    BY <1>1, <1>2, <2>1, Zenon DEF MayCall
  <2>3. DueOf(t)' = {mEntries[j].observer : j \in S}
    BY <1>1, <2>2, Zenon DEF DueOf
  <2>4. \A j \in S : j \in Slots /\ mEntries[j].observer \in Observers
    BY DEF TypeOK, EntriesSound, EntrySound
  <2>5. \A x \in Observers : contains(x) <=> \E j \in S : mEntries[j].observer = x
    BY <2>4, Zenon DEF contains, Active
  <2> HIDE DEF S
  <2>6. Registered = {mEntries[j].observer : j \in S}
    BY <2>4, <2>5, Zenon DEF Registered
  <2> QED
    BY <2>3, <2>6
<1>7. ASSUME NEW u \in Threads \ {t} PROVE DueOf(u)' = DueOf(u)
  BY <1>1, <1>2, DueKept DEF Live
<1>8. [u \in Threads |-> DueOf(u)]' = [[u \in Threads |-> DueOf(u)] EXCEPT ![t] = Registered]
  BY <1>6, <1>7
<1> QED
  BY <1>3, <1>4, <1>5, <1>8, Zenon DEF Contract!NotifyBegins, Registered, Notifying,
     DueOf, CalledBy, AwaitedBy

\* Nobody is left to call.
LEMMA NotifyEndsRefines ==
  ASSUME ListIInv, NEW t \in Threads, NotifyEnds(t)
  PROVE  Contract!NotifyEnds(t)
<1> USE DEF ListIInv
<1>1. /\ pc[t] = "next" /\ pc' = [pc EXCEPT ![t] = "idle"]
      /\ todo[t] = {} /\ Reset({})
      /\ startGeneration' = [startGeneration EXCEPT ![t] = 0]
      /\ UNCHANGED <<slot, todo>>
  BY NothingToRelease, Zenon DEF NotifyEnds, Goto
<1>2. mEntries' = mEntries /\ mOccupied' = mOccupied
  BY <1>1, SMT DEF Reset, TypeOK
<1>3. /\ pc'[t] = "idle"
      /\ \A u \in Threads \ {t} : pc'[u] = pc[u] /\ startGeneration'[u] = startGeneration[u]
  BY <1>1 DEF TypeOK
<1>4. Registered' = Registered
  BY <1>2, LiveKept DEF Live
<1>5. \A u \in Threads : CalledBy(u)' = CalledBy(u) /\ AwaitedBy(u)' = AwaitedBy(u)
  <2> SUFFICES ASSUME NEW u \in Threads
               PROVE  CalledBy(u)' = CalledBy(u) /\ AwaitedBy(u)' = AwaitedBy(u)
    OBVIOUS
  <2>1. /\ pc'[u] = "calling" <=> pc[u] = "calling"
        /\ pc'[u] \in {"wait", "relock"} <=> pc[u] \in {"wait", "relock"}
    BY <1>1, <1>3, SMT
  <2> QED
    BY <1>1, <1>2, <2>1, PlaceKept
<1>6. Notifying' = Notifying \ {t} /\ t \in Notifying
  BY <1>1, <1>3, SMT DEF Notifying
<1>7. DueOf(t) = {} /\ DueOf(t)' = {}
  BY <1>1, Zenon DEF DueOf
<1>8. ASSUME NEW u \in Threads PROVE DueOf(u)' = DueOf(u)
  <2>1. CASE u = t
    BY <1>7, <2>1
  <2>2. CASE u # t
    BY <1>1, <1>2, <1>3, <2>2, DueKept DEF Live
  <2> QED
    BY <2>1, <2>2
<1>9. CalledBy(t) = NoObserver
  BY <1>1, SMT DEF CalledBy
<1> QED
  BY <1>4, <1>5, <1>6, <1>7, <1>8, <1>9, Zenon DEF Contract!NotifyEnds, Registered,
     Notifying, DueOf, CalledBy, AwaitedBy

\* What is left to call when slot i is done with: its observer, which is in no
\* other slot, less.
LEMMA OneLessDue ==
  ASSUME ListIInv, NEW t \in Threads, NEW i \in todo[t],
         todo' = [todo EXCEPT ![t] = @ \ {i}], UNCHANGED <<mOccupied, startGeneration>>,
         \A j \in Slots : /\ Live(j)' <=> Live(j)
                          /\ Live(j) => /\ mEntries'[j].observer = mEntries[j].observer
                                        /\ mEntries'[j].generation = mEntries[j].generation
  PROVE  /\ \A u \in Threads \ {t} : DueOf(u)' = DueOf(u)
         /\ MayCall(i, startGeneration[t]) =>
              DueOf(t)' = DueOf(t) \ {mEntries[i].observer}
         /\ ~MayCall(i, startGeneration[t]) => DueOf(t)' = DueOf(t)
<1> USE DEF ListIInv
<1> DEFINE S == {j \in todo[t] : MayCall(j, startGeneration[t])}
<1>1. /\ todo[t] \subseteq Slots /\ startGeneration[t] \in Nat
      /\ todo'[t] = todo[t] \ {i} /\ startGeneration'[t] = startGeneration[t]
      /\ \A u \in Threads \ {t} :
           todo'[u] = todo[u] /\ startGeneration'[u] = startGeneration[u]
  BY Constants DEF TypeOK
<1>2. \A u \in Threads \ {t} : DueOf(u)' = DueOf(u)
  BY <1>1, DueKept
<1>3. S' = S \ {i}
  BY <1>1, LiveKept, Zenon
<1>4. \A j \in S : j \in Slots /\ j \in mOccupied /\ mEntries'[j].observer = mEntries[j].observer
  BY <1>1, Zenon DEF MayCall, Live
<1>5. \A j \in S : i \in S /\ j # i => mEntries[j].observer # mEntries[i].observer
  BY <1>4 DEF EntriesSound, EntrySound
<1>6. DueOf(t)' = {mEntries'[k].observer : k \in S'} /\ DueOf(t) = {mEntries[k].observer : k \in S}
  BY Zenon DEF DueOf
<1>7. i \in S <=> MayCall(i, startGeneration[t])
  OBVIOUS
<1> HIDE DEF S
<1>8. ASSUME i \in S
      PROVE  {mEntries'[k].observer : k \in S'} =
             {mEntries[k].observer : k \in S} \ {mEntries[i].observer}
  <2>1. \A j \in S \ {i} : /\ mEntries'[j].observer = mEntries[j].observer
                          /\ mEntries[j].observer # mEntries[i].observer
    BY <1>4, <1>5, <1>8
  <2>2. {mEntries'[k].observer : k \in S \ {i}} = {mEntries[k].observer : k \in S \ {i}}
    BY <2>1, ZenonT(40)
  <2>3. {mEntries[k].observer : k \in S \ {i}} = {mEntries[k].observer : k \in S} \ {mEntries[i].observer}
    BY <1>8, <2>1, Zenon
  <2> QED
    BY <1>3, <2>2, <2>3, Zenon
<1>9. ASSUME i \notin S
      PROVE  {mEntries'[k].observer : k \in S'} = {mEntries[k].observer : k \in S}
  <2>1. S' = S
    BY <1>3, <1>9
  <2> QED
    BY <1>4, <2>1, Zenon
<1> QED
  BY <1>2, <1>6, <1>7, <1>8, <1>9

\* The next slot of the snapshot is called, or nobody is.
LEMMA AcquireRefines ==
  ASSUME ListIInv, NEW t \in Threads, Acquire(t)
  PROVE  \/ \E x \in Observers : Contract!Call(t, x)
         \/ UNCHANGED Contract!vars
<1> USE DEF ListIInv
<1>1. PICK i \in todo[t] :
        /\ todo' = [todo EXCEPT ![t] = @ \ {i}]
        /\ IF MayCall(i, startGeneration[t])
             THEN /\ mEntries' = [mEntries EXCEPT ![i].activeCalls = @ + 1]
                  /\ slot' = [slot EXCEPT ![t] = i]
                  /\ Goto(t, "calling")
             ELSE UNCHANGED <<mEntries, slot, pc>>
  BY Zenon DEF Acquire
<1>2. /\ pc[t] = "next" /\ i \in Slots
      /\ UNCHANGED <<mOccupied, startGeneration>>
  BY DEF Acquire, TypeOK
<1>3. CASE ~MayCall(i, startGeneration[t])
  <2>1. UNCHANGED <<mEntries, slot, pc>>
    BY <1>1, <1>3
  <2>2. \A j \in Slots : /\ Live(j)' <=> Live(j)
                         /\ Live(j) => /\ mEntries'[j].observer = mEntries[j].observer
                                       /\ mEntries'[j].generation = mEntries[j].generation
    BY <1>2, <2>1 DEF Live
  <2>3. Registered' = Registered /\ \A u \in Threads : DueOf(u)' = DueOf(u)
    BY <1>1, <1>2, <1>3, <2>2, LiveKept, OneLessDue
  <2>4. \A u \in Threads : CalledBy(u)' = CalledBy(u) /\ AwaitedBy(u)' = AwaitedBy(u)
    BY <2>1, PlaceKept
  <2>5. Notifying' = Notifying
    BY <2>1, Zenon DEF Notifying
  <2> QED
    BY <2>3, <2>4, <2>5, Stutters
<1>4. CASE MayCall(i, startGeneration[t])
  <2> DEFINE n == mEntries[i].activeCalls + 1
  <2> PICK x \in Observers : x = mEntries[i].observer
    BY <1>2, <1>4 DEF MayCall, EntriesSound, EntrySound
  <2>1. /\ mEntries' = [mEntries EXCEPT ![i] = Counted(mEntries[i], n)]
        /\ slot' = [slot EXCEPT ![t] = i]
        /\ pc' = [pc EXCEPT ![t] = "calling"]
    BY <1>1, <1>4, Zenon DEF Counted, Goto
  <2>2. /\ pc'[t] = "calling" /\ slot'[t] = i
        /\ \A u \in Threads \ {t} : pc'[u] = pc[u] /\ slot'[u] = slot[u]
        /\ mEntries'[i] = Counted(mEntries[i], n)
        /\ \A j \in Slots \ {i} : mEntries'[j] = mEntries[j]
    BY <1>2, <2>1 DEF TypeOK
  <2>3. /\ Counted(mEntries[i], n).observer = x
        /\ Counted(mEntries[i], n).generation = mEntries[i].generation
        /\ Counted(mEntries[i], n).removed = mEntries[i].removed
    <3>1. mEntries[i] \in Entries /\ n \in Nat
      BY <1>2, Counts
    <3> QED
      BY <3>1, CountedFields
  <2>4. \A j \in Slots : /\ mEntries'[j].observer = mEntries[j].observer
                         /\ mEntries'[j].generation = mEntries[j].generation
                         /\ Live(j)' <=> Live(j)
    BY <1>2, <2>2, <2>3, Zenon DEF Live
  <2>5. Registered' = Registered
    BY <2>4, LiveKept
  <2>6. /\ \A u \in Threads \ {t} : DueOf(u)' = DueOf(u)
        /\ DueOf(t)' = DueOf(t) \ {x}
    BY <1>1, <1>2, <1>4, <2>4, OneLessDue
  <2>7. x \in DueOf(t)
    BY <1>4, Zenon DEF DueOf
  <2>8. ASSUME NEW u \in Threads
        PROVE  /\ CalledBy(u)' = IF u = t THEN x ELSE CalledBy(u)
               /\ AwaitedBy(u)' = AwaitedBy(u)
    <3>1. CASE u = t
      <4>1. CalledBy(t)' = x
        BY <1>2, <2>2, <2>3, SMT DEF CalledBy
      <4>2. AwaitedBy(t)' = NoObserver /\ AwaitedBy(t) = NoObserver
        BY <1>2, <2>2, SMT DEF AwaitedBy
      <4> QED
        BY <3>1, <4>1, <4>2
    <3>2. CASE u # t
      BY <2>2, <2>4, <3>2, Places, PlaceKept
    <3> QED
      BY <3>1, <3>2
  <2>9. CalledBy(t) = NoObserver
    BY <1>2, SMT DEF CalledBy
  <2>10. Notifying' = Notifying
    BY <1>2, <2>2, SMT DEF Notifying
  <2> HIDE DEF n
  <2>11. /\ [u \in Threads |-> DueOf(u)]' = [[u \in Threads |-> DueOf(u)] EXCEPT ![t] = @ \ {x}]
         /\ [u \in Threads |-> CalledBy(u)]' = [[u \in Threads |-> CalledBy(u)] EXCEPT ![t] = x]
    BY <2>6, <2>8
  <2>12. Contract!Call(t, x)
    BY <2>5, <2>7, <2>8, <2>9, <2>10, <2>11, Zenon DEF Contract!Call, Registered,
       Notifying, DueOf, CalledBy, AwaitedBy
  <2> QED
    BY <2>12
<1> QED
  BY <1>3, <1>4

\* A callback returns; an entry that is freed then had been removed.
LEMMA ReleaseRefines ==
  ASSUME ListIInv, NEW t \in Threads, Release(t)
  PROVE  Contract!CallReturns(t)
<1> USE DEF ListIInv
<1> PICK i \in Slots : i = slot[t]
  BY Places
<1> DEFINE last == mEntries[i].activeCalls <= 1
           freed == last /\ mEntries[i].removed /\ ~mEntries[i].waitingRemoval
           n == mEntries[i].activeCalls - 1
<1>1. /\ pc[t] = "calling"
      /\ slot' = [slot EXCEPT ![t] = 0]
      /\ UNCHANGED <<todo, startGeneration>>
  BY DEF Release
<1>2. /\ t \in Calling(i) /\ i \in mOccupied /\ n \in Nat
      /\ mEntries[i].activeCalls \in Nat /\ mEntries[i].activeCalls # 0
      /\ mEntries[i].observer # NoObserver
  <2>1. t \in Calling(i) /\ i \in mOccupied /\ mEntries[i].observer # NoObserver
    BY <1>1, Places
  <2>2. mEntries[i].activeCalls \in Nat /\ mEntries[i].activeCalls # 0
    BY <2>1, Counts
  <2> QED
    BY <2>1, <2>2, SMT
<1>3. pc' = [pc EXCEPT ![t] = IF last /\ mEntries[i].waitingRemoval
                                THEN "cast" ELSE "next"]
  BY <1>2, Zenon DEF Release, Goto
<1>4. IF freed THEN Reset({i})
      ELSE /\ mEntries' = [mEntries EXCEPT ![i] = Counted(mEntries[i], n)]
           /\ UNCHANGED mOccupied
  <2>1. CASE freed
    BY <1>2, <2>1, Zenon DEF Release
  <2>2. CASE ~freed
    <3>1. mEntries[i].activeCalls > 0
      BY <1>2, SMT
    <3>2. mEntries' = [mEntries EXCEPT ![i].activeCalls = @ - 1] /\ UNCHANGED mOccupied
      BY <1>2, <2>2, <3>1, Zenon DEF Release
    <3> QED
      BY <2>2, <3>2, Zenon DEF Counted
  <2> QED
    BY <2>1, <2>2
<1>5. /\ pc'[t] \in {"cast", "next"}
      /\ \A u \in Threads \ {t} : pc'[u] = pc[u] /\ slot'[u] = slot[u]
  BY <1>1, <1>3 DEF TypeOK
<1>6. /\ Registered' = Registered
      /\ \A u \in Threads : DueOf(u)' = DueOf(u)
      /\ \A u \in Threads \ {t} : pc[u] \in {"calling", "wait", "relock"} =>
           mEntries'[slot[u]].observer = mEntries[slot[u]].observer
  <2>1. CASE freed
    <3>1. /\ Registered' = Registered
          /\ \A u \in Threads : DueOf(u)' = DueOf(u)
          /\ \A j \in Slots \ {i} : mEntries'[j] = mEntries[j]
      BY <1>1, <1>4, <2>1, RemovedEntryFreed
    <3>2. Waiting(i) = {} /\ Calling(i) = {t}
      <4>1. mEntries[i].activeCalls = 1
        BY <1>2, <2>1, SMT
      <4> QED
        BY <1>2, <2>1, <4>1, Counts
    <3>3. \A u \in Threads \ {t} : pc[u] \in {"calling", "wait", "relock"} =>
            slot[u] # i /\ slot[u] \in Slots
      BY <3>2, Places
    <3> QED
      BY <3>1, <3>3
  <2>2. CASE ~freed
    <3>1. /\ mEntries' = [mEntries EXCEPT ![i] = Counted(mEntries[i], n)]
          /\ mOccupied' = mOccupied
      BY <1>4, <2>2
    <3>2. /\ Counted(mEntries[i], n).observer = mEntries[i].observer
          /\ Counted(mEntries[i], n).generation = mEntries[i].generation
          /\ Counted(mEntries[i], n).removed = mEntries[i].removed
      <4>1. mEntries[i] \in Entries
        BY Counts
      <4> HIDE DEF n
      <4> QED
        BY <1>2, <4>1, CountedFields
    <3>3. /\ mEntries'[i] = Counted(mEntries[i], n)
          /\ \A j \in Slots \ {i} : mEntries'[j] = mEntries[j]
      BY <3>1 DEF TypeOK
    <3>4. \A j \in Slots : /\ mEntries'[j].observer = mEntries[j].observer
                           /\ mEntries'[j].generation = mEntries[j].generation
                           /\ Live(j)' <=> Live(j)
      BY <3>1, <3>2, <3>3, Zenon DEF Live
    <3>5. \A u \in Threads : slot[u] \in Slots
      BY Places
    <3> QED
      BY <1>1, <3>4, <3>5, LiveKept, DueKept
  <2> QED
    BY <2>1, <2>2
<1> HIDE DEF last, n, freed
<1>7. ASSUME NEW u \in Threads
      PROVE  /\ CalledBy(u)' = IF u = t THEN NoObserver ELSE CalledBy(u)
             /\ AwaitedBy(u)' = AwaitedBy(u)
  <2>1. CASE u = t
    BY <1>1, <1>5, <2>1, SMT DEF CalledBy, AwaitedBy
  <2>2. CASE u # t
    BY <1>5, <1>6, <2>2, PlaceKept
  <2> QED
    BY <2>1, <2>2
<1>8. CalledBy(t) # NoObserver
  BY <1>1, <1>2, SMT DEF CalledBy
<1>9. Notifying' = Notifying
  BY <1>1, <1>5, SMT DEF Notifying
<1>10. [u \in Threads |-> CalledBy(u)]' = [[u \in Threads |-> CalledBy(u)] EXCEPT ![t] = NoObserver]
  BY <1>7
<1> QED
  BY <1>6, <1>7, <1>8, <1>9, <1>10, Zenon DEF Contract!CallReturns, Registered,
     Notifying, DueOf, CalledBy, AwaitedBy

\* The empty list of the contract.
LEMMA InitRefines == Init => Contract!Init
<1> SUFFICES ASSUME Init PROVE Contract!Init
  OBVIOUS
<1>1. Registered = {} /\ Notifying = {}
  BY SMT DEF Init, Registered, contains, Active, Notifying
<1>2. \A u \in Threads :
        DueOf(u) = {} /\ CalledBy(u) = NoObserver /\ AwaitedBy(u) = NoObserver
  BY SMT DEF Init, DueOf, CalledBy, AwaitedBy
<1> QED
  BY <1>1, <1>2, Zenon DEF Contract!Init, Registered, Notifying, DueOf, CalledBy, AwaitedBy

\* Every step is one of the contract or none.
LEMMA NextRefines == ListIInv /\ [Next]_vars => [Contract!Next]_(Contract!vars)
<1> SUFFICES ASSUME ListIInv, [Next]_vars PROVE [Contract!Next]_(Contract!vars)
  OBVIOUS
<1>1. ASSUME UNCHANGED vars PROVE UNCHANGED Contract!vars
  <2>1. UNCHANGED <<mEntries, mOccupied, mGeneration, mChanged, pc, slot, todo, startGeneration>>
    BY <1>1 DEF vars, locals
  <2>2. /\ Registered' = Registered
        /\ \A u \in Threads : DueOf(u)' = DueOf(u)
    BY <2>1, LiveKept, DueKept DEF Live, ListIInv
  <2>3. \A u \in Threads : CalledBy(u)' = CalledBy(u) /\ AwaitedBy(u)' = AwaitedBy(u)
    BY <2>1, PlaceKept
  <2>4. Notifying' = Notifying
    BY <2>1, Zenon DEF Notifying
  <2> QED
    BY <2>2, <2>3, <2>4, Stutters
<1>2. ASSUME NEW x \in Observers, Add(x) \/ Remove(x) PROVE Contract!Next
  BY <1>2, AddRefines, RemoveRefines, Zenon DEF Contract!Next
<1>3. ASSUME NEW t \in Threads, NEW x \in Observers,
             RemoveWithoutWait(t, x) \/ RemoveBlocks(t, x)
      PROVE  Contract!Next
  BY <1>3, RemoveWithoutWaitRefines, RemoveBlocksRefines, Zenon DEF Contract!Next
<1>4. ASSUME NEW t \in Threads, Step(t) \/ SpuriousWakeup(t) \/ NotifyBegins(t)
      PROVE  [Contract!Next]_(Contract!vars)
  <2>1. CASE SpuriousWakeup(t) \/ WaitAgain(t) \/ Broadcast(t)
    BY <2>1, WaitStepsStutter
  <2>2. CASE WaitEnds(t) \/ Release(t) \/ NotifyEnds(t) \/ NotifyBegins(t)
    BY <2>2, WaitEndsRefines, ReleaseRefines, NotifyEndsRefines, NotifyBeginsRefines, Zenon
       DEF Contract!Next
  <2>3. CASE Acquire(t)
    BY <2>3, AcquireRefines, Zenon DEF Contract!Next
  <2> QED
    BY <1>4, <2>1, <2>2, <2>3 DEF Step
<1> QED
  BY <1>1, <1>2, <1>3, <1>4 DEF Next

\* A notification calls the observers it owes a call, each once and nobody
\* else, and an awaited observer is in no call (notify(), removeAndWait()).
THEOREM ListKeepsPromises == Spec => ContractSpec
  BY InitRefines, NextRefines, ListInductive, PTL DEF Spec, ContractSpec, Contract!Spec
===============================================================================
