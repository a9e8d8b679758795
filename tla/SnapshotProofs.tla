--------------------------- MODULE SnapshotProofs ---------------------------
(***************************************************************************)
(* Proofs about Snapshot, for every number of workers, flow rules and ring *)
(* slots: the ring is counted exactly and, when the grace period outlasts  *)
(* a frame and a call, no worker holds a freed table.                      *)
(***************************************************************************)
EXTENDS Snapshot, FiniteSetTheorems, WellFoundedInduction, TLAPS

(* The facts about the constants every proof below uses.                   *)
USE WorkersAssumption, RingAssumption, TimeAssumption, SwapsAssumption, NullAssumption

-----------------------------------------------------------------------------
(* The ring is finite.                                                     *)
LEMMA RingFinite ==
    /\ IsFiniteSet(Ring)
    /\ Cardinality(Ring) = MAX_RETIRED
    /\ \A S \in SUBSET Ring : IsFiniteSet(S) /\ Cardinality(S) \in Nat
<1>1. IsFiniteSet(Ring) /\ Cardinality(Ring) = MAX_RETIRED
  BY FS_Interval DEF Ring
<1>2. ASSUME NEW S \in SUBSET Ring
      PROVE  IsFiniteSet(S) /\ Cardinality(S) \in Nat
  BY <1>1, FS_Subset, FS_CardinalityType
<1> QED
  BY <1>1, <1>2

(* A ring that is not full has exactly one first free slot: the enqueue    *)
(* loop of infmon_snapshot_and_clear always finds it.                      *)
LEMMA FirstFreeExists ==
    ASSUME Pending # Ring
    PROVE  \E s \in Ring \ Pending : FirstFree = {s}
<1> DEFINE F == Ring \ Pending
<1>1. F \subseteq Nat /\ F # {}
  BY DEF Ring, Pending
<1>2. PICK s \in F : \A r \in F : <<r, s>> \notin OpToRel(<, Nat)
  BY <1>1, WFMin, NatLessThanWellFounded, Zenon
<1>3. \A r \in F : ~(r < s)
  BY <1>1, <1>2, Zenon DEF OpToRel
<1>4. \A r \in F : s <= r
  BY <1>1, <1>3
<1>5. FirstFree = {s}
  BY <1>1, <1>4 DEF FirstFree
<1> QED
  BY <1>5

(* No slot is free in a full ring.                                         *)
LEMMA FirstFreeEmpty ==
    ASSUME Pending = Ring
    PROVE  FirstFree = {}
  BY DEF FirstFree

-----------------------------------------------------------------------------
(* FreshColumns gives one table per worker, all different, none in use.    *)
LEMMA FreshColumn ==
    ASSUME FreshColumns # {}, NEW c, c = CHOOSE d \in FreshColumns : TRUE
    PROVE  /\ c \in [Workers -> Tables]
           /\ \A w \in Workers : c[w] \notin allocated
           /\ \A v, w \in Workers : c[v] = c[w] => v = w
<1>1. c \in FreshColumns
  OBVIOUS
<1> QED
  BY <1>1 DEF FreshColumns

(* Every step keeps every variable's type: TypeOK is inductive by itself.  *)
LEMMA TypeStep == TypeOK /\ [Next]_vars => TypeOK'
<1> SUFFICES ASSUME TypeOK, [Next]_vars PROVE TypeOK'
  OBVIOUS
<1> USE DEF TypeOK
<1>1. ASSUME NEW i \in Indices, Prepare(i) PROVE TypeOK'
  <2> DEFINE new == CHOOSE c \in FreshColumns : TRUE
  <2>1. FreshColumns # {}
    BY <1>1 DEF Prepare
  <2>2. new \in [Workers -> Tables]
    BY <2>1, FreshColumn
  <2>3. call' = [index |-> i, new |-> new, next |-> 1, age |-> 0,
                 old |-> [w \in Workers |-> tables[w][i]]]
    BY <1>1 DEF Prepare
  <2>4. call' \in Call
    BY <2>2, <2>3 DEF Call
  <2>5. allocated' \subseteq Tables
    BY <1>1, <2>2 DEF Prepare, Pointers
  <2>6. generation' \in [Tables -> Nat]
    <3>1. generation' =
            [t \in Tables |->
                 IF \E w \in Workers : new[w] = t
                 THEN generation[tables[CHOOSE w \in Workers : new[w] = t][i]] + 1
                 ELSE generation[t]]
      BY <1>1 DEF Prepare
    <3>2. ASSUME NEW t \in Tables, \E w \in Workers : new[w] = t
          PROVE  generation[tables[CHOOSE w \in Workers : new[w] = t][i]] + 1 \in Nat
      <4>1. (CHOOSE w \in Workers : new[w] = t) \in Workers
        BY <3>2
      <4>2. tables[CHOOSE w \in Workers : new[w] = t][i] \in Tables
        BY <4>1
      <4> QED
        BY <4>2
    <3>3. \A t \in Tables : generation[t] \in Nat
      OBVIOUS
    <3> HIDE DEF new
    <3> QED
      BY ONLY <3>1, <3>2, <3>3
  <2>7. global_epoch' \in 0..MAX_SWAPS
    BY <1>1 DEF Prepare
  <2> QED
    BY <1>1, <2>4, <2>5, <2>6, <2>7 DEF Prepare
<1>2. ASSUME Swap PROVE TypeOK'
  <2>1. call \in Call /\ call.next \in Workers
    <3>1. call \in Call /\ call.next <= NumWorkers
      BY <1>2 DEF Swap
    <3>2. call.next \in 1..(NumWorkers + 1)
      BY <3>1 DEF Call
    <3> QED
      BY <3>1, <3>2 DEF Workers
  <2>2. call.new[call.next] \in Tables /\ call.index \in Indices
    BY <2>1 DEF Call
  <2>3. tables' \in [Workers -> [Indices -> Tables]]
    BY <1>2, <2>1, <2>2 DEF Swap
  <2>4. call.next + 1 \in 1..(NumWorkers + 1)
    BY <2>1 DEF Workers
  <2>5. [call EXCEPT !.next = call.next + 1] \in Call
    BY <2>1, <2>4 DEF Call
  <2> QED
    BY <1>2, <2>3, <2>5 DEF Swap
<1>3. ASSUME Enqueue PROVE TypeOK'
  <2>1. call \in Call
    BY <1>3 DEF Enqueue
  <2>2. [tables |-> call.old, swap_epoch |-> global_epoch,
         age |-> AtMost(call.age, GRACE + 1)] \in Entry
    BY <2>1 DEF Entry, Call, AtMost
  <2>3. ring' \in [Ring -> Entry \cup {EMPTY}]
    BY <1>3, <2>2 DEF Enqueue, Enqueued
  <2>4. FirstFree \in SUBSET Ring
    BY DEF FirstFree
  <2>5. Cardinality(FirstFree) \in Nat
    BY <2>4, RingFinite
  <2> QED
    BY <1>3, <2>3, <2>5 DEF Enqueue
<1>4. ASSUME RetirePoll PROVE TypeOK'
  <2> DEFINE expired == {s \in Ring : Expired(s)}
  <2>1. Cardinality(expired) \in Nat
    BY RingFinite
  <2>2. retired_count' \in Int
    BY <1>4, <2>1 DEF RetirePoll
  <2> QED
    BY <1>4, <2>2 DEF RetirePoll
<1>5. ASSUME NEW w \in Workers, FrameBegin(w) PROVE TypeOK'
  BY <1>5 DEF FrameBegin
<1>6. ASSUME NEW w \in Workers, FrameEnd(w) PROVE TypeOK'
  BY <1>6 DEF FrameEnd, AtMost
<1>7. ASSUME Tick PROVE TypeOK'
  <2>1. ring' \in [Ring -> Entry \cup {EMPTY}]
    BY <1>7 DEF Tick, Entry, AtMost, Pending
  <2>2. frame_age' \in [Workers -> 0..MAX_FRAME]
    BY <1>7 DEF Tick
  <2>3. call' \in Call \cup {EMPTY}
    BY <1>7 DEF Tick, Call
  <2> QED
    BY <1>7, <2>1, <2>2, <2>3 DEF Tick
<1>8. CASE UNCHANGED vars
  BY <1>8 DEF vars
<1> QED
  BY <1>1, <1>2, <1>3, <1>4, <1>5, <1>6, <1>7, <1>8 DEF Next

(* Every variable keeps its type, for every number of workers, flow rules  *)
(* and ring slots.                                                         *)
THEOREM TypeCorrect == Spec => []TypeOK
<1>1. Init => TypeOK
  BY DEF Init, TypeOK
<1> QED
  BY <1>1, TypeStep, PTL DEF Spec

-----------------------------------------------------------------------------
(* What a pending slot and a call in progress are.                         *)
LEMMA EntryFacts ==
    ASSUME TypeOK
    PROVE  /\ \A s \in Pending : /\ s \in Ring /\ ring[s] \in Entry
                                 /\ ring[s].tables \in [Workers -> Tables]
                                 /\ ring[s].age \in 0..(GRACE + 1)
           /\ \A s \in Ring : s \notin Pending <=> ring[s] = EMPTY
           /\ call # EMPTY => call \in Call
  BY DEF TypeOK, Pending, Entry

(* snapshot_and_clear starts a call: its replacements are fresh, its old   *)
(* tables are the live ones.                                               *)
LEMMA PrepareStep ==
    ASSUME Owned, NEW i \in Indices, Prepare(i)
    PROVE  /\ LiveOwned' /\ RingOwned' /\ CallOwned' /\ RetiredCountExact'
           /\ FramesHold => FramesHold'
<1> DEFINE new == CHOOSE c \in FreshColumns : TRUE
<1>1. /\ TypeOK /\ LiveOwned /\ RingOwned
      /\ retired_count = Cardinality(Pending)
  BY DEF Owned, RetiredCountExact
<1>2. /\ call = EMPTY /\ retired_count < MAX_RETIRED
      /\ call' = [index |-> i, new |-> new, next |-> 1, age |-> 0,
                  old |-> [w \in Workers |-> tables[w][i]]]
      /\ allocated' = allocated \cup Pointers(new)
      /\ UNCHANGED <<tables, ring, retired_count, frame, frame_age>>
  BY DEF Prepare
<1>3. /\ new \in [Workers -> Tables]
      /\ \A w \in Workers : new[w] \notin allocated
      /\ \A v, w \in Workers : new[v] = new[w] => v = w
  <2>1. FreshColumns # {}
    BY DEF Prepare
  <2> QED
    BY <2>1, FreshColumn
<1> HIDE DEF new
<1>4. Pending' = Pending
  BY <1>2 DEF Pending
<1>5. LiveOwned'
  BY <1>1, <1>2 DEF LiveOwned
<1>6. RingOwned'
  BY <1>1, <1>2, <1>4 DEF RingOwned
<1>7. CallOwned'
  <2> SUFFICES ASSUME NEW w \in Workers
               PROVE  /\ call'.old[w] \in allocated' /\ call'.new[w] \in allocated'
                      /\ tables[w][i] = call'.old[w]
                      /\ \A v \in Workers, j \in Indices :
                           /\ tables[v][j] = call'.old[w] => v = w /\ j = i
                           /\ tables[v][j] # call'.new[w]
                      /\ \A v \in Workers :
                           /\ call'.old[w] # call'.new[v]
                           /\ call'.new[w] = call'.new[v] => v = w
                      /\ \A s \in Pending, v \in Workers :
                           ring[s].tables[v] # call'.old[w] /\ ring[s].tables[v] # call'.new[w]
    BY <1>2, <1>4 DEF CallOwned, Workers
  <2>1. call'.old[w] = tables[w][i] /\ call'.new[w] = new[w] /\ new[w] \in Tables
    BY <1>2, <1>3
  <2>2. call'.old[w] \in allocated' /\ call'.new[w] \in allocated'
    BY <1>1, <1>2, <1>3, <2>1, NullAssumption DEF LiveOwned, Pointers
  <2>3. \A v \in Workers, j \in Indices :
            /\ tables[v][j] = call'.old[w] => v = w /\ j = i
            /\ tables[v][j] # call'.new[w]
    BY <1>1, <1>3, <2>1 DEF LiveOwned
  <2>4. \A v \in Workers : /\ call'.old[w] # call'.new[v]
                           /\ call'.new[w] = call'.new[v] => v = w
    BY <1>1, <1>2, <1>3, <2>1 DEF LiveOwned
  <2>5. \A s \in Pending, v \in Workers :
            ring[s].tables[v] # call'.old[w] /\ ring[s].tables[v] # call'.new[w]
    BY <1>1, <1>3, <2>1 DEF RingOwned
  <2> QED
    BY <2>1, <2>2, <2>3, <2>4, <2>5
<1>8. ASSUME FramesHold PROVE FramesHold'
  BY <1>1, <1>8, <1>2, <1>4 DEF FramesHold, FrameHolds
<1>9. RetiredCountExact'
  BY <1>1, <1>2, <1>4, RingFinite DEF RetiredCountExact
<1> QED
  BY <1>5, <1>6, <1>7, <1>8, <1>9

(* One store of the swap: the live pointer of one worker moves from the    *)
(* old table to the replacement.                                           *)
LEMMA SwapStep ==
    ASSUME Owned, Swap
    PROVE  /\ LiveOwned' /\ RingOwned' /\ CallOwned' /\ RetiredCountExact'
           /\ FramesHold => FramesHold'
<1> DEFINE n == call.next
           x == call.index
<1>1. TypeOK /\ LiveOwned /\ RingOwned /\ CallOwned /\ RetiredCountExact
  BY DEF Owned
<1>2. /\ call # EMPTY /\ call \in Call
      /\ n \in Workers /\ x \in Indices
      /\ call.new \in [Workers -> Tables]
  BY <1>1, EntryFacts DEF Swap, Call, Workers
<1>3. UNCHANGED <<allocated, ring, retired_count, frame, frame_age>> /\ Pending' = Pending
  BY DEF Swap, Pending
<1>4. /\ call' # EMPTY /\ call'.next = n + 1 /\ call'.index = x
      /\ call'.new = call.new /\ call'.old = call.old
  <2>1. call' = [call EXCEPT !.next = n + 1]
    BY DEF Swap
  <2>2. call' \in Call
    BY <1>2, <2>1 DEF Call, Workers
  <2> QED
    BY <1>2, <2>1, <2>2, EmptyAssumption DEF Call
<1>5. \A v \in Workers, j \in Indices :
          tables'[v][j] = IF v = n /\ j = x THEN call.new[n] ELSE tables[v][j]
  BY <1>1, <1>2 DEF Swap, TypeOK
<1>6. LiveOwned'
  <2> SUFFICES ASSUME NEW v \in Workers, NEW i \in Indices, NEW w \in Workers, NEW j \in Indices
               PROVE  /\ tables'[v][i] \in allocated
                      /\ tables'[v][i] = tables'[w][j] => v = w /\ i = j
    BY <1>3 DEF LiveOwned
  <2> QED
    BY <1>1, <1>2, <1>5 DEF LiveOwned, CallOwned, Workers
<1>7. RingOwned'
  BY <1>1, <1>2, <1>3, <1>5 DEF RingOwned, CallOwned
<1>8. CallOwned'
  <2> SUFFICES ASSUME NEW w \in Workers
               PROVE  /\ tables'[w][x] = IF w < n + 1 THEN call.new[w] ELSE call.old[w]
                      /\ \A v \in Workers, i \in Indices :
                           /\ tables'[v][i] = call.old[w] => v = w /\ i = x /\ w >= n + 1
                           /\ tables'[v][i] = call.new[w] => v = w /\ i = x /\ w < n + 1
    BY <1>1, <1>2, <1>3, <1>4 DEF CallOwned
  <2>1. w \in Nat /\ n \in Nat
    BY <1>2 DEF Workers
  <2>2. tables'[w][x] = IF w < n + 1 THEN call.new[w] ELSE call.old[w]
    <3>1. tables[w][x] = IF w < n THEN call.new[w] ELSE call.old[w]
      BY <1>1, <1>2 DEF CallOwned
    <3>2. tables'[w][x] = IF w = n THEN call.new[n] ELSE tables[w][x]
      BY <1>2, <1>5
    <3>3. CASE w = n
      BY <2>1, <3>2, <3>3
    <3>4. CASE w # n
      BY <2>1, <3>1, <3>2, <3>4
    <3> QED
      BY <3>3, <3>4
  <2>3. ASSUME NEW v \in Workers, NEW i \in Indices, tables'[v][i] = call.old[w]
        PROVE  v = w /\ i = x /\ w >= n + 1
    <3>1. ~ (v = n /\ i = x)
      <4>1. call.old[w] # call.new[n]
        BY <1>1, <1>2 DEF CallOwned
      <4> QED
        BY <1>5, <2>3, <4>1
    <3>2. v = w /\ i = x /\ w >= n
      <4>1. tables[v][i] = call.old[w]
        BY <1>5, <2>3, <3>1
      <4> QED
        BY <1>1, <1>2, <4>1 DEF CallOwned
    <3> QED
      BY <2>1, <3>1, <3>2
  <2>4. ASSUME NEW v \in Workers, NEW i \in Indices, tables'[v][i] = call.new[w]
        PROVE  v = w /\ i = x /\ w < n + 1
    <3>1. CASE v = n /\ i = x
      <4>1. call.new[n] = call.new[w]
        BY <1>5, <2>4, <3>1
      <4>2. n = w
        BY <1>1, <1>2, <4>1 DEF CallOwned
      <4> QED
        BY <2>1, <3>1, <4>2
    <3>2. CASE ~ (v = n /\ i = x)
      <4>1. tables[v][i] = call.new[w]
        BY <1>5, <2>4, <3>2
      <4>2. v = w /\ i = x /\ w < n
        BY <1>1, <1>2, <4>1 DEF CallOwned
      <4> QED
        BY <2>1, <4>2
    <3> QED
      BY <3>1, <3>2
  <2> QED
    BY <2>2, <2>3, <2>4
<1>9. ASSUME FramesHold PROVE FramesHold'
  <2> SUFFICES ASSUME NEW w \in Workers, NEW i \in Indices, frame[w] # Idle
               PROVE  FrameHolds(w, i)'
    BY <1>3 DEF FramesHold
  <2>1. w \in Nat /\ n \in Nat
    BY <1>2 DEF Workers
  <2>2. FrameHolds(w, i)
    BY <1>9 DEF FramesHold
  <2>3. CASE frame[w][i] = tables[w][i]
    BY <1>1, <1>2, <1>3, <1>4, <1>5, <2>1, <2>3 DEF FrameHolds, CallOwned
  <2>4. CASE call.index = i /\ w < n /\ frame[w][i] = call.old[w]
    BY <1>2, <1>3, <1>4, <2>1, <2>4 DEF FrameHolds
  <2>5. CASE \E s \in Pending : /\ frame[w][i] = ring[s].tables[w]
                               /\ ring[s].age <= frame_age[w] + MAX_CALL
    BY <1>3, <2>5 DEF FrameHolds
  <2> QED
    BY <2>2, <2>3, <2>4, <2>5 DEF FrameHolds
<1>10. RetiredCountExact'
  BY <1>1, <1>2, <1>3, <1>4 DEF RetiredCountExact
<1> QED
  BY <1>6, <1>7, <1>8, <1>9, <1>10

(* The end of a call: its old tables move to the first free slot.          *)
LEMMA EnqueueStep ==
    ASSUME Owned, Enqueue
    PROVE  /\ LiveOwned' /\ RingOwned' /\ CallOwned' /\ RetiredCountExact'
           /\ FramesHold => FramesHold'
<1>1. TypeOK /\ LiveOwned /\ RingOwned /\ CallOwned /\ RetiredCountExact
  BY DEF Owned
<1>2. /\ call # EMPTY /\ call \in Call /\ call' = EMPTY
      /\ \A w \in Workers : w < call.next
      /\ UNCHANGED <<tables, allocated, frame, frame_age>>
  BY <1>1, EntryFacts DEF Enqueue, Workers, Call
<1>3. PICK f \in Ring \ Pending : FirstFree = {f}
  BY <1>1, <1>2, FirstFreeExists DEF RetiredCountExact
<1> DEFINE e == [tables |-> call.old, swap_epoch |-> global_epoch,
                 age |-> AtMost(call.age, GRACE + 1)]
<1>4. ring' = [s \in Ring |-> IF s = f THEN e ELSE ring[s]]
  BY <1>3 DEF Enqueue, Enqueued
<1>5. e # EMPTY /\ e.tables = call.old /\ e.age <= MAX_CALL
  <2>1. e \in Entry
    BY <1>1, <1>2 DEF TypeOK, Entry, Call, AtMost
  <2> QED
    BY <1>2, <2>1, EmptyAssumption DEF Call, AtMost
<1> HIDE DEF e
<1>6. /\ Pending' = Pending \cup {f}
      /\ ring'[f] = e
      /\ \A s \in Pending : s # f /\ ring'[s] = ring[s]
  BY <1>3, <1>4, <1>5 DEF Pending
<1>7. \A s \in Pending' : IF s = f THEN ring'[s].tables = call.old
                         ELSE s \in Pending /\ ring'[s].tables = ring[s].tables
  BY <1>5, <1>6
<1>8. LiveOwned'
  BY <1>1, <1>2 DEF LiveOwned
<1>9. RingOwned'
  <2> SUFFICES ASSUME NEW s \in Pending', NEW w \in Workers
               PROVE  /\ ring'[s].tables[w] \in allocated
                      /\ \A v \in Workers, i \in Indices : ring'[s].tables[w] # tables[v][i]
                      /\ \A r \in Pending', v \in Workers :
                           ring'[s].tables[w] = ring'[r].tables[v] => r = s
    BY <1>2 DEF RingOwned
  <2>1. \A v \in Workers : /\ v \in Nat /\ call.next \in Nat /\ ~(v >= call.next)
                           /\ call.old[v] \in allocated
    BY <1>1, <1>2 DEF CallOwned, Workers, Call
  <2>2. CASE s = f
    <3>1. ring'[s].tables[w] = call.old[w]
      BY <1>7, <2>2
    <3>2. ASSUME NEW r \in Pending', NEW v \in Workers, call.old[w] = ring'[r].tables[v]
          PROVE  r = s
      BY <1>1, <1>2, <1>7, <2>2, <3>2 DEF CallOwned
    <3> QED
      BY <1>1, <1>2, <2>1, <3>1, <3>2 DEF CallOwned
  <2>3. CASE s # f
    <3>1. s \in Pending /\ ring'[s].tables[w] = ring[s].tables[w]
      BY <1>7, <2>3
    <3>2. ASSUME NEW r \in Pending', NEW v \in Workers,
                 ring[s].tables[w] = ring'[r].tables[v]
          PROVE  r = s
      BY <1>1, <1>2, <1>7, <3>1, <3>2 DEF CallOwned, RingOwned
    <3> QED
      BY <1>1, <3>1, <3>2 DEF RingOwned
  <2> QED
    BY <2>2, <2>3
<1>10. CallOwned'
  BY <1>2 DEF CallOwned
<1>11. ASSUME FramesHold PROVE FramesHold'
  <2> SUFFICES ASSUME NEW w \in Workers, NEW i \in Indices, frame[w] # Idle
               PROVE  FrameHolds(w, i)'
    BY <1>2 DEF FramesHold
  <2>1. FrameHolds(w, i)
    BY <1>11 DEF FramesHold
  <2>2. CASE frame[w][i] = tables[w][i]
    BY <1>2, <2>2 DEF FrameHolds
  <2>3. CASE frame[w][i] = call.old[w]
    <3>1. e.age <= frame_age[w] + MAX_CALL
      <4>1. e.age \in Int /\ frame_age[w] \in Nat
        BY <1>1, <1>2, TimeAssumption DEF e, TypeOK, Call, AtMost
      <4> QED
        BY <1>5, <4>1, TimeAssumption
    <3> QED
      BY <1>2, <1>5, <1>6, <2>3, <3>1 DEF FrameHolds
  <2>4. CASE \E s \in Pending : /\ frame[w][i] = ring[s].tables[w]
                               /\ ring[s].age <= frame_age[w] + MAX_CALL
    BY <1>2, <1>6, <2>4 DEF FrameHolds
  <2> QED
    BY <2>1, <2>2, <2>3, <2>4 DEF FrameHolds
<1>12. RetiredCountExact'
  <2>1. Pending \in SUBSET Ring /\ f \notin Pending
    BY <1>3 DEF Pending
  <2>2. Cardinality(Pending') = Cardinality(Pending) + 1
    BY <1>6, <2>1, RingFinite, FS_AddElement
  <2>3. retired_count' = retired_count + 1
    BY <1>3, FS_Singleton DEF Enqueue
  <2> QED
    BY <1>1, <1>2, <2>2, <2>3 DEF RetiredCountExact
<1> QED
  BY <1>8, <1>9, <1>10, <1>11, <1>12

(* A poll frees only entries older than any frame that could hold them.    *)
LEMMA RetirePollStep ==
    ASSUME Owned, RetirePoll
    PROVE  /\ LiveOwned' /\ RingOwned' /\ CallOwned' /\ RetiredCountExact'
           /\ GRACE > MAX_FRAME + MAX_CALL /\ FramesHold => FramesHold'
<1> DEFINE expired == {s \in Ring : Expired(s)}
           freed == UNION {Pointers(ring[s].tables) : s \in expired}
<1>1. TypeOK /\ LiveOwned /\ RingOwned /\ CallOwned /\ RetiredCountExact
  BY DEF Owned
<1>2. /\ call = EMPTY /\ call' = EMPTY
      /\ allocated' = allocated \ freed
      /\ ring' = [s \in Ring |-> IF s \in expired THEN EMPTY ELSE ring[s]]
      /\ retired_count' = retired_count - Cardinality(expired)
      /\ UNCHANGED <<tables, frame, frame_age>>
  BY DEF RetirePoll
<1>3. \A s \in expired : s \in Pending /\ ring[s].age >= GRACE
  BY DEF Expired
<1>4. \A t \in freed : \E s \in expired, v \in Workers : t = ring[s].tables[v]
  <2> SUFFICES ASSUME NEW s \in expired, NEW t \in Pointers(ring[s].tables)
               PROVE  \E v \in Workers : t = ring[s].tables[v]
    OBVIOUS
  <2>1. ring[s].tables \in [Workers -> Tables]
    BY <1>1, <1>3, EntryFacts
  <2> QED
    BY <2>1 DEF Pointers
<1>5. /\ Pending' = Pending \ expired
      /\ \A s \in Pending' : s \in Pending /\ s \notin expired /\ ring'[s] = ring[s]
  BY <1>2 DEF Pending
<1> HIDE DEF freed, expired
<1>6. LiveOwned'
  BY <1>1, <1>2, <1>3, <1>4 DEF LiveOwned, RingOwned
<1>7. RingOwned'
  BY <1>1, <1>2, <1>3, <1>4, <1>5 DEF RingOwned
<1>8. CallOwned'
  BY <1>2 DEF CallOwned
<1>9. ASSUME GRACE > MAX_FRAME + MAX_CALL, FramesHold PROVE FramesHold'
  <2> SUFFICES ASSUME NEW w \in Workers, NEW i \in Indices, frame[w] # Idle
               PROVE  FrameHolds(w, i)'
    BY <1>2 DEF FramesHold
  <2>1. FrameHolds(w, i)
    BY <1>9 DEF FramesHold
  <2>2. CASE frame[w][i] = tables[w][i]
    BY <1>2, <2>2 DEF FrameHolds
  <2>3. CASE \E s \in Pending : /\ frame[w][i] = ring[s].tables[w]
                               /\ ring[s].age <= frame_age[w] + MAX_CALL
    <3>1. PICK s \in Pending : /\ frame[w][i] = ring[s].tables[w]
                              /\ ring[s].age <= frame_age[w] + MAX_CALL
      BY <2>3
    <3>2. ring[s].age \in Int /\ frame_age[w] \in 0..MAX_FRAME
      BY <1>1, EntryFacts, TimeAssumption DEF TypeOK
    <3>3. ~(ring[s].age >= GRACE)
      BY <1>9, <3>1, <3>2, TimeAssumption
    <3>4. s \in Pending' /\ ring'[s] = ring[s]
      BY <1>3, <1>5, <3>3
    <3> QED
      BY <1>2, <3>1, <3>4 DEF FrameHolds
  <2> QED
    BY <1>2, <2>1, <2>2, <2>3 DEF FrameHolds
<1>10. RetiredCountExact'
  <2>1. Pending \in SUBSET Ring /\ expired \in SUBSET Pending /\ expired \in SUBSET Ring
    BY <1>3 DEF Pending
  <2>2. IsFiniteSet(Pending) /\ IsFiniteSet(expired) /\ IsFiniteSet(Pending')
    BY <1>5, <2>1, RingFinite
  <2>3. Cardinality(Pending') \in Nat /\ Cardinality(expired) \in Nat
    BY <2>2, FS_CardinalityType
  <2>4. Cardinality(Pending) = Cardinality(Pending') + Cardinality(expired)
    <3>1. Pending = Pending' \cup expired /\ Pending' \cap expired = {}
      BY <1>5, <2>1
    <3>2. Cardinality(Pending' \cup expired)
            = Cardinality(Pending') + Cardinality(expired) - Cardinality(Pending' \cap expired)
      BY <2>2, FS_Union
    <3> QED
      BY <2>3, <3>1, <3>2, FS_EmptySet
  <2> QED
    BY <1>1, <1>2, <2>3, <2>4 DEF RetiredCountExact
<1> QED
  BY <1>6, <1>7, <1>8, <1>9, <1>10

(* A frame begins with the live pointers.                                  *)
LEMMA FrameBeginStep ==
    ASSUME Owned, NEW u \in Workers, FrameBegin(u)
    PROVE  /\ LiveOwned' /\ RingOwned' /\ CallOwned' /\ RetiredCountExact'
           /\ FramesHold => FramesHold'
<1>1. TypeOK /\ LiveOwned /\ RingOwned /\ CallOwned /\ RetiredCountExact
  BY DEF Owned
<1>2. /\ UNCHANGED <<tables, allocated, ring, retired_count, call>> /\ Pending' = Pending
      /\ \A w \in Workers : IF w = u THEN frame'[w] = tables[w]
                            ELSE frame'[w] = frame[w] /\ frame_age'[w] = frame_age[w]
  BY <1>1 DEF FrameBegin, Pending, TypeOK
<1>3. ASSUME FramesHold PROVE FramesHold'
  BY <1>1, <1>3, <1>2 DEF FramesHold, FrameHolds
<1>4. LiveOwned' /\ RingOwned' /\ CallOwned' /\ RetiredCountExact'
  BY <1>1, <1>2 DEF LiveOwned, RingOwned, CallOwned, RetiredCountExact
<1> QED
  BY <1>3, <1>4

(* A frame that ends holds nothing.                                        *)
LEMMA FrameEndStep ==
    ASSUME Owned, NEW u \in Workers, FrameEnd(u)
    PROVE  /\ LiveOwned' /\ RingOwned' /\ CallOwned' /\ RetiredCountExact'
           /\ FramesHold => FramesHold'
<1>1. TypeOK /\ LiveOwned /\ RingOwned /\ CallOwned /\ RetiredCountExact
  BY DEF Owned
<1>2. /\ UNCHANGED <<tables, allocated, ring, retired_count, call>> /\ Pending' = Pending
      /\ \A w \in Workers : IF w = u THEN frame'[w] = Idle
                            ELSE frame'[w] = frame[w] /\ frame_age'[w] = frame_age[w]
  BY <1>1 DEF FrameEnd, Pending, TypeOK
<1>3. ASSUME FramesHold PROVE FramesHold'
  BY <1>1, <1>3, <1>2 DEF FramesHold, FrameHolds
<1>4. LiveOwned' /\ RingOwned' /\ CallOwned' /\ RetiredCountExact'
  BY <1>1, <1>2 DEF LiveOwned, RingOwned, CallOwned, RetiredCountExact
<1> QED
  BY <1>3, <1>4

(* Frames and ring entries age together.                                   *)
LEMMA TickStep ==
    ASSUME Owned, Tick
    PROVE  /\ LiveOwned' /\ RingOwned' /\ CallOwned' /\ RetiredCountExact'
           /\ FramesHold => FramesHold'
<1>1. TypeOK /\ LiveOwned /\ RingOwned /\ CallOwned /\ RetiredCountExact
  BY DEF Owned
<1>2. /\ UNCHANGED <<tables, allocated, retired_count, frame>>
      /\ ring' = [s \in Ring |-> IF s \in Pending
                               THEN [ring[s] EXCEPT !.age = AtMost(ring[s].age + 1, GRACE + 1)]
                               ELSE EMPTY]
      /\ frame_age' = [w \in Workers |-> IF frame[w] # Idle THEN frame_age[w] + 1 ELSE 0]
  BY DEF Tick
<1>3. \A s \in Pending : /\ ring'[s] # EMPTY
                         /\ ring'[s].tables = ring[s].tables
                         /\ ring'[s].age = AtMost(ring[s].age + 1, GRACE + 1)
  <2> SUFFICES ASSUME NEW s \in Pending
               PROVE  /\ ring'[s] # EMPTY
                      /\ ring'[s].tables = ring[s].tables
                      /\ ring'[s].age = AtMost(ring[s].age + 1, GRACE + 1)
    OBVIOUS
  <2>1. s \in Ring /\ ring[s] \in Entry
    BY <1>1, EntryFacts
  <2>2. ring'[s] = [ring[s] EXCEPT !.age = AtMost(ring[s].age + 1, GRACE + 1)]
    BY <1>2, <2>1
  <2>3. ring'[s] \in Entry
    BY <2>1, <2>2 DEF Entry, AtMost
  <2> QED
    BY <2>1, <2>2, <2>3, EmptyAssumption DEF Entry
<1>4. Pending' = Pending
  BY <1>2, <1>3 DEF Pending
<1>5. /\ call = EMPTY => call' = EMPTY
      /\ call # EMPTY => /\ call' # EMPTY /\ call'.index = call.index
                        /\ call'.next = call.next
                        /\ call'.new = call.new /\ call'.old = call.old
  <2>1. CASE call = EMPTY
    BY <2>1 DEF Tick
  <2>2. CASE call # EMPTY
    <3>1. call \in Call /\ call' = [call EXCEPT !.age = call.age + 1] /\ call' \in Call
      BY <1>1, <2>2, EntryFacts DEF Tick, Call
    <3> QED
      BY <2>2, <3>1, EmptyAssumption DEF Call
  <2> QED
    BY <2>1, <2>2
<1>6. LiveOwned' /\ RingOwned'
  BY <1>1, <1>2, <1>3, <1>4 DEF LiveOwned, RingOwned
<1>7. CallOwned'
  BY <1>1, <1>2, <1>3, <1>4, <1>5 DEF CallOwned
<1>8. ASSUME FramesHold PROVE FramesHold'
  <2> SUFFICES ASSUME NEW w \in Workers, NEW i \in Indices, frame[w] # Idle
               PROVE  FrameHolds(w, i)'
    BY <1>2 DEF FramesHold
  <2>1. FrameHolds(w, i)
    BY <1>8 DEF FramesHold
  <2>2. CASE frame[w][i] = tables[w][i]
    BY <1>2, <2>2 DEF FrameHolds
  <2>3. CASE call # EMPTY /\ call.index = i /\ w < call.next /\ frame[w][i] = call.old[w]
    BY <1>2, <1>5, <2>3 DEF FrameHolds
  <2>4. CASE \E s \in Pending : /\ frame[w][i] = ring[s].tables[w]
                               /\ ring[s].age <= frame_age[w] + MAX_CALL
    <3>1. PICK s \in Pending : /\ frame[w][i] = ring[s].tables[w]
                              /\ ring[s].age <= frame_age[w] + MAX_CALL
      BY <2>4
    <3>2. ring[s].age \in Int /\ frame_age[w] \in Nat /\ frame_age'[w] = frame_age[w] + 1
      BY <1>1, <1>2, EntryFacts, TimeAssumption DEF TypeOK
    <3>3. ring'[s].age <= frame_age'[w] + MAX_CALL
      BY <1>3, <3>1, <3>2, TimeAssumption DEF AtMost
    <3> QED
      BY <1>2, <1>3, <1>4, <3>1, <3>3 DEF FrameHolds
  <2> QED
    BY <2>1, <2>2, <2>3, <2>4 DEF FrameHolds
<1>9. RetiredCountExact'
  BY <1>1, <1>2, <1>4, <1>5 DEF RetiredCountExact
<1> QED
  BY <1>6, <1>7, <1>8, <1>9

-----------------------------------------------------------------------------
LEMMA OwnedInit == Init => Owned /\ FramesHold
<1> SUFFICES ASSUME Init PROVE Owned /\ FramesHold
  OBVIOUS
<1>1. TypeOK /\ Pending = {}
  BY DEF Init, TypeOK, Pending
<1>2. LiveOwned
  BY DEF Init, LiveOwned
<1>3. RingOwned /\ CallOwned /\ FramesHold
  BY <1>1 DEF Init, RingOwned, CallOwned, FramesHold
<1>4. RetiredCountExact
  BY <1>1, FS_EmptySet DEF Init, RetiredCountExact
<1> QED
  BY <1>1, <1>2, <1>3, <1>4 DEF Owned

LEMMA OwnedStep ==
    Owned /\ [Next]_vars =>
        /\ Owned'
        /\ GRACE > MAX_FRAME + MAX_CALL /\ FramesHold => FramesHold'
<1> SUFFICES ASSUME Owned, [Next]_vars
             PROVE  /\ LiveOwned' /\ RingOwned' /\ CallOwned' /\ RetiredCountExact'
                    /\ GRACE > MAX_FRAME + MAX_CALL /\ FramesHold => FramesHold'
  BY TypeStep DEF Owned
<1>1. CASE \E i \in Indices : Prepare(i)
  BY <1>1, PrepareStep
<1>2. CASE Swap
  BY <1>2, SwapStep
<1>3. CASE Enqueue
  BY <1>3, EnqueueStep
<1>4. CASE RetirePoll
  BY <1>4, RetirePollStep
<1>5. CASE \E w \in Workers : FrameBegin(w)
  BY <1>5, FrameBeginStep
<1>6. CASE \E w \in Workers : FrameEnd(w)
  BY <1>6, FrameEndStep
<1>7. CASE Tick
  BY <1>7, TickStep
<1>8. CASE UNCHANGED vars
  BY <1>8 DEF vars, Owned, LiveOwned, RingOwned, CallOwned, RetiredCountExact,
              FramesHold, FrameHolds, Pending
<1> QED
  BY <1>1, <1>2, <1>3, <1>4, <1>5, <1>6, <1>7, <1>8 DEF Next

(* retired_count always agrees with the pending flags and a call in        *)
(* progress always finds a slot: infmon_snapshot_and_clear never drops the *)
(* tables it swapped out, whatever the timing.                             *)
THEOREM RetiredCountCorrect == Spec => []RetiredCountExact
<1>1. Owned => RetiredCountExact
  BY DEF Owned
<1> QED
  BY <1>1, OwnedInit, OwnedStep, PTL DEF Spec

(* If the grace period is longer than a frame and a call together can      *)
(* last, infmon_retire_poll never frees a table a running frame holds.     *)
THEOREM NoUseAfterFreeCorrect ==
    ASSUME GRACE > MAX_FRAME + MAX_CALL
    PROVE  Spec => []NoUseAfterFree
<1>1. Owned /\ FramesHold => NoUseAfterFree
  <2> SUFFICES ASSUME Owned, FramesHold, NEW w \in Workers, NEW t \in Pointers(frame[w])
               PROVE  t \in allocated
    BY DEF NoUseAfterFree
  <2>1. frame[w] # Idle /\ frame[w] \in [Indices -> Tables]
    BY DEF Owned, TypeOK, Pointers, Idle
  <2>2. PICK i \in Indices : t = frame[w][i]
    BY <2>1 DEF Pointers
  <2>3. FrameHolds(w, i)
    BY <2>1 DEF FramesHold
  <2> QED
    BY <2>2, <2>3 DEF FrameHolds, Owned, LiveOwned, RingOwned, CallOwned
<1>2. Owned /\ FramesHold /\ [Next]_vars => (Owned /\ FramesHold)'
  BY OwnedStep
<1> QED
  BY <1>1, <1>2, OwnedInit, PTL DEF Spec
-----------------------------------------------------------------------------
(* Where an allocated table is: live, retired, or with the call, which     *)
(* holds the replacements not yet stored and the old tables already        *)
(* replaced.                                                               *)
IsLive(t) == \E w \in Workers, i \in Indices : t = tables[w][i]
IsRetired(t) == \E s \in Pending, w \in Workers : t = ring[s].tables[w]
IsHeld(t) ==
    /\ call # EMPTY
    /\ \E w \in Workers : t = IF w < call.next THEN call.old[w] ELSE call.new[w]

NoLeak == \A t \in allocated : IsLive(t) \/ IsRetired(t) \/ IsHeld(t)

(* The replacements of a call are one generation ahead of the tables they  *)
(* replace.                                                                *)
NextGeneration ==
    call # EMPTY => \A w \in Workers :
        generation[call.new[w]] = generation[call.old[w]] + 1

LEMMA NoLeakStep == Owned /\ NoLeak /\ [Next]_vars => NoLeak'
<1> SUFFICES ASSUME Owned, NoLeak, [Next]_vars, NEW t \in allocated'
             PROVE  (IsLive(t) \/ IsRetired(t) \/ IsHeld(t))'
  BY DEF NoLeak
<1>1. TypeOK /\ CallOwned /\ RingOwned /\ RetiredCountExact
  BY DEF Owned
<1>2. t \in allocated => IsLive(t) \/ IsRetired(t) \/ IsHeld(t)
  BY DEF NoLeak
<1> USE DEF IsLive, IsRetired, IsHeld
<1>3. ASSUME NEW i \in Indices, Prepare(i) PROVE (IsLive(t) \/ IsRetired(t) \/ IsHeld(t))'
  <2> DEFINE new == CHOOSE c \in FreshColumns : TRUE
  <2>1. /\ call = EMPTY /\ UNCHANGED <<tables, ring>>
        /\ call' = [index |-> i, new |-> new, next |-> 1, age |-> 0,
                    old |-> [w \in Workers |-> tables[w][i]]]
        /\ allocated' = allocated \cup Pointers(new)
    BY <1>3 DEF Prepare
  <2>2. new \in [Workers -> Tables]
    BY <1>3, FreshColumn DEF Prepare
  <2> HIDE DEF new
  <2>3. CASE t \in allocated
    BY <1>2, <2>1, <2>3 DEF Pending
  <2>4. CASE t \in Pointers(new)
    <3>1. PICK w \in Workers : t = new[w]
      BY <2>2, <2>4 DEF Pointers
    <3>2. call' \in Call \cup {EMPTY}
      BY <1>3, TypeStep, <1>1 DEF TypeOK, Next
    <3>3. call' # EMPTY
      <4>1. call' \in Call
        BY <1>1, <2>1, <2>2 DEF Call, TypeOK, Workers
      <4> QED
        BY <4>1, EmptyAssumption
    <3>4. ~(w < call'.next) /\ call'.new[w] = t
      BY <2>1, <3>1 DEF Workers
    <3> QED
      BY <3>3, <3>4
  <2> QED
    BY <2>1, <2>3, <2>4
<1>4. CASE Swap
  <2> DEFINE n == call.next
             x == call.index
  <2>1. /\ call # EMPTY /\ call \in Call /\ n \in Workers /\ x \in Indices
        /\ UNCHANGED <<allocated, ring>> /\ Pending' = Pending
    BY <1>1, <1>4, EntryFacts DEF Swap, Call, Workers, Pending
  <2>2. /\ call' # EMPTY /\ call'.next = n + 1
        /\ call'.new = call.new /\ call'.old = call.old
    <3>1. call' = [call EXCEPT !.next = n + 1]
      BY <1>4 DEF Swap
    <3>2. call' \in Call
      BY <2>1, <3>1 DEF Call, Workers
    <3> QED
      BY <2>1, <3>1, <3>2, EmptyAssumption DEF Call
  <2>3. \A v \in Workers, j \in Indices :
            tables'[v][j] = IF v = n /\ j = x THEN call.new[n] ELSE tables[v][j]
    BY <1>1, <1>4, <2>1 DEF Swap, TypeOK
  <2>4. \A w \in Workers : (w < n + 1) <=> (w < n \/ w = n)
    BY <2>1 DEF Workers
  <2>5. CASE IsLive(t)
    <3>1. PICK v \in Workers, j \in Indices : t = tables[v][j]
      BY <2>5
    <3>2. CASE v = n /\ j = x
      <4>1. t = call.old[n]
        BY <1>1, <2>1, <3>1, <3>2 DEF CallOwned, Workers
      <4> QED
        BY <2>1, <2>2, <2>4, <4>1
    <3>3. CASE ~(v = n /\ j = x)
      BY <2>3, <3>1, <3>3
    <3> QED
      BY <3>2, <3>3
  <2>6. CASE IsRetired(t)
    BY <2>1, <2>6
  <2>7. CASE IsHeld(t)
    <3>1. PICK w \in Workers : t = IF w < n THEN call.old[w] ELSE call.new[w]
      BY <2>7
    <3>2. CASE w = n
      <4>1. t = tables'[n][x]
        BY <2>1, <2>3, <3>1, <3>2 DEF Workers
      <4> QED
        BY <2>1, <4>1
    <3>3. CASE w # n
      BY <2>2, <2>4, <3>1, <3>3
    <3> QED
      BY <3>2, <3>3
  <2> QED
    BY <1>2, <2>1, <2>5, <2>6, <2>7
<1>5. CASE Enqueue
  <2>1. /\ call # EMPTY /\ call \in Call
        /\ \A w \in Workers : w < call.next
        /\ UNCHANGED <<tables, allocated>>
    BY <1>1, <1>5, EntryFacts DEF Enqueue, Workers, Call
  <2>2. PICK f \in Ring \ Pending : FirstFree = {f}
    BY <1>1, <2>1, FirstFreeExists DEF RetiredCountExact
  <2> DEFINE e == [tables |-> call.old, swap_epoch |-> global_epoch,
                   age |-> AtMost(call.age, GRACE + 1)]
  <2>3. ring' = [s \in Ring |-> IF s = f THEN e ELSE ring[s]]
    BY <1>5, <2>2 DEF Enqueue, Enqueued
  <2>4. e \in Entry /\ e.tables = call.old
    BY <1>1, <2>1 DEF TypeOK, Entry, Call, AtMost
  <2> HIDE DEF e
  <2>5. f \in Pending' /\ ring'[f].tables = call.old
    BY <2>2, <2>3, <2>4, EmptyAssumption DEF Pending
  <2>6. \A s \in Pending : s \in Pending' /\ ring'[s] = ring[s]
    BY <2>2, <2>3 DEF Pending
  <2>7. CASE IsHeld(t)
    BY <2>1, <2>5, <2>7
  <2>8. CASE IsLive(t) \/ IsRetired(t)
    BY <2>1, <2>6, <2>8
  <2> QED
    BY <1>2, <2>1, <2>7, <2>8
<1>6. CASE RetirePoll
  <2> DEFINE expired == {s \in Ring : Expired(s)}
  <2>1. /\ call = EMPTY /\ UNCHANGED <<tables, call>>
        /\ t \in allocated
        /\ t \notin UNION {Pointers(ring[s].tables) : s \in expired}
        /\ ring' = [s \in Ring |-> IF s \in expired THEN EMPTY ELSE ring[s]]
    BY <1>6 DEF RetirePoll
  <2>2. CASE IsRetired(t)
    <3>1. PICK s \in Pending, w \in Workers : t = ring[s].tables[w]
      BY <2>2
    <3>2. ring[s].tables \in [Workers -> Tables]
      BY <1>1, EntryFacts
    <3>3. t \in Pointers(ring[s].tables)
      BY <3>1, <3>2 DEF Pointers
    <3>4. s \notin expired
      BY <2>1, <3>3
    <3>5. s \in Pending' /\ ring'[s] = ring[s]
      BY <2>1, <3>4 DEF Pending
    <3> QED
      BY <3>1, <3>5
  <2> QED
    BY <1>2, <2>1, <2>2
<1>7. CASE Tick
  <2>1. \A s \in Pending : s \in Pending' /\ ring'[s].tables = ring[s].tables
    <3> SUFFICES ASSUME NEW s \in Pending
                 PROVE  s \in Pending' /\ ring'[s].tables = ring[s].tables
      OBVIOUS
    <3>1. s \in Ring /\ ring[s] \in Entry
      BY <1>1, EntryFacts
    <3>2. ring'[s] = [ring[s] EXCEPT !.age = AtMost(@ + 1, GRACE + 1)]
      BY <1>7, <3>1 DEF Tick
    <3>3. ring'[s] \in Entry /\ ring'[s].tables = ring[s].tables
      BY <3>1, <3>2 DEF Entry, AtMost
    <3> QED
      BY <3>1, <3>3, EmptyAssumption DEF Pending
  <2>2. call # EMPTY => /\ call' # EMPTY /\ call'.next = call.next
                        /\ call'.old = call.old /\ call'.new = call.new
    <3> SUFFICES ASSUME call # EMPTY
                 PROVE  /\ call' # EMPTY /\ call'.next = call.next
                        /\ call'.old = call.old /\ call'.new = call.new
      OBVIOUS
    <3>1. call \in Call /\ call' = [call EXCEPT !.age = @ + 1] /\ call.age < MAX_CALL
      BY <1>1, <1>7, EntryFacts DEF Tick
    <3>2. call' \in Call
      BY <3>1 DEF Call
    <3> QED
      BY <3>1, <3>2, EmptyAssumption DEF Call
  <2> QED
    BY <1>2, <1>7, <2>1, <2>2 DEF Tick
<1>8. CASE (\E w \in Workers : FrameBegin(w) \/ FrameEnd(w)) \/ UNCHANGED vars
  BY <1>2, <1>8 DEF FrameBegin, FrameEnd, vars, Pending
<1> QED
  BY <1>3, <1>4, <1>5, <1>6, <1>7, <1>8 DEF Next

(* No table of a worker leaks and none is in two places, so that none is   *)
(* freed twice, however the stores of infmon_snapshot_and_clear, the polls *)
(* and the frames interleave.                                              *)
THEOREM EveryTableHasOneOwnerCorrect == Spec => []EveryTableHasOneOwner
<1>1. Init => NoLeak
  BY DEF Init, NoLeak, IsLive
<1>2. ASSUME Owned, NoLeak PROVE EveryTableHasOneOwner
  <2>1. TypeOK /\ LiveOwned /\ RingOwned /\ CallOwned
    BY <1>2 DEF Owned
  <2>2. \A t : t \in Live <=> IsLive(t)
    BY DEF Live, IsLive
  <2>3. \A t : t \in Retired <=> IsRetired(t)
    <3>1. \A s \in Pending : ring[s].tables \in [Workers -> Tables]
      BY <2>1, EntryFacts
    <3> QED
      BY <3>1 DEF Retired, IsRetired, Pointers
  <2>4. \A t : t \in InCall <=> IsHeld(t)
    <3>1. CASE call = EMPTY
      BY <3>1 DEF InCall, IsHeld
    <3>2. CASE call # EMPTY
      <4>1. call.next \in Int
        BY <2>1, <3>2, EntryFacts DEF Call
      <4>2. \A w \in Workers : w >= call.next <=> ~(w < call.next)
        BY <4>1 DEF Workers
      <4> QED
        BY <3>2, <4>2 DEF InCall, IsHeld
    <3> QED
      BY <3>1, <3>2
  <2>5. allocated = Live \cup Retired \cup InCall
    <3>1. \A t : IsLive(t) \/ IsRetired(t) \/ IsHeld(t) => t \in allocated
      BY <2>1 DEF IsLive, IsRetired, IsHeld, LiveOwned, RingOwned, CallOwned
    <3> QED
      BY <1>2, <2>2, <2>3, <2>4, <3>1 DEF NoLeak
  <2>6. \A t : ~(IsLive(t) /\ IsRetired(t))
    BY <2>1 DEF IsLive, IsRetired, RingOwned
  <2>7. \A t : ~(IsLive(t) /\ IsHeld(t))
    <3> SUFFICES ASSUME call # EMPTY, NEW w \in Workers, NEW v \in Workers, NEW i \in Indices,
                        tables[v][i] = IF w < call.next THEN call.old[w] ELSE call.new[w]
                 PROVE  FALSE
      BY DEF IsLive, IsHeld
    <3>1. call.next \in Int /\ w \in Int
      BY <2>1, EntryFacts DEF Call, Workers
    <3> QED
      BY <2>1, <3>1 DEF CallOwned
  <2>8. \A t : ~(IsRetired(t) /\ IsHeld(t))
    BY <2>1 DEF IsRetired, IsHeld, CallOwned
  <2>9. ASSUME NEW r \in Pending, NEW s \in Pending, r # s
        PROVE  Pointers(ring[r].tables) \cap Pointers(ring[s].tables) = {}
    <3>1. ring[r].tables \in [Workers -> Tables] /\ ring[s].tables \in [Workers -> Tables]
      BY <2>1, EntryFacts
    <3> QED
      BY <2>1, <2>9, <3>1 DEF Pointers, RingOwned
  <2> QED
    BY <2>2, <2>3, <2>4, <2>5, <2>6, <2>7, <2>8, <2>9 DEF EveryTableHasOneOwner
<1>3. Owned /\ NoLeak /\ [Next]_vars => (Owned /\ NoLeak)'
  BY OwnedStep, NoLeakStep
<1> QED
  BY <1>1, <1>2, <1>3, OwnedInit, PTL DEF Spec
LEMMA NextGenerationStep ==
    ASSUME Owned, NextGeneration, [Next]_vars
    PROVE  /\ NextGeneration'
           /\ \A w \in Workers, i \in Indices :
                generation'[tables'[w][i]] = generation[tables[w][i]]
                    + IF tables'[w][i] = tables[w][i] THEN 0 ELSE 1
<1> DEFINE Advances ==
        \A w \in Workers, i \in Indices :
            generation'[tables'[w][i]] = generation[tables[w][i]]
                + IF tables'[w][i] = tables[w][i] THEN 0 ELSE 1
<1>1. TypeOK /\ LiveOwned /\ CallOwned
  BY DEF Owned
<1>2. \A w \in Workers, i \in Indices : /\ tables[w][i] \in Tables
                                        /\ generation[tables[w][i]] \in Nat
  BY <1>1 DEF TypeOK
<1>3. ASSUME UNCHANGED <<tables, generation>> PROVE Advances
  BY <1>2, <1>3
<1>4. ASSUME NEW i \in Indices, Prepare(i) PROVE NextGeneration' /\ Advances
  <2> DEFINE new == CHOOSE c \in FreshColumns : TRUE
  <2>1. /\ new \in [Workers -> Tables]
        /\ \A w \in Workers : new[w] \notin allocated
        /\ \A v, w \in Workers : new[v] = new[w] => v = w
    BY <1>4, FreshColumn DEF Prepare
  <2>2. /\ tables' = tables
        /\ call'.new = new /\ call'.old = [w \in Workers |-> tables[w][i]]
        /\ generation' =
             [t \in Tables |->
                 IF \E w \in Workers : new[w] = t
                 THEN generation[tables[CHOOSE w \in Workers : new[w] = t][i]] + 1
                 ELSE generation[t]]
    BY <1>4 DEF Prepare
  <2> HIDE DEF new
  <2>3. \A w \in Workers, j \in Indices : generation'[tables[w][j]] = generation[tables[w][j]]
    BY <1>1, <1>2, <2>1, <2>2 DEF LiveOwned
  <2>4. ASSUME NEW w \in Workers
        PROVE  generation'[new[w]] = generation[tables[w][i]] + 1
    <3>1. (CHOOSE v \in Workers : new[v] = new[w]) = w
      BY <2>1
    <3>2. new[w] \in Tables /\ \E v \in Workers : new[v] = new[w]
      BY <2>1
    <3>3. generation'[new[w]] = generation[tables[CHOOSE v \in Workers : new[v] = new[w]][i]] + 1
      BY <2>2, <3>2
    <3> QED
      BY <3>1, <3>3
  <2>5. NextGeneration'
    <3>1. ASSUME NEW w \in Workers
          PROVE  generation'[call'.new[w]] = generation'[call'.old[w]] + 1
      <4>1. call'.new[w] = new[w] /\ call'.old[w] = tables[w][i]
        BY <2>2
      <4>2. generation'[tables[w][i]] = generation[tables[w][i]]
        BY <2>3
      <4> QED
        BY <2>4, <4>1, <4>2
    <3> QED
      BY <3>1 DEF NextGeneration
  <2>6. Advances
    BY <1>2, <2>2, <2>3
  <2> QED
    BY <2>5, <2>6
<1>5. CASE Swap
  <2> DEFINE n == call.next
             x == call.index
  <2>1. /\ call # EMPTY /\ call \in Call /\ n \in Workers /\ x \in Indices
        /\ generation' = generation
    BY <1>1, <1>5, EntryFacts DEF Swap, Call, Workers
  <2>2. call'.new = call.new /\ call'.old = call.old
    BY <1>5, <2>1 DEF Swap, Call
  <2>3. \A v \in Workers, j \in Indices :
            tables'[v][j] = IF v = n /\ j = x THEN call.new[n] ELSE tables[v][j]
    BY <1>1, <1>5, <2>1 DEF Swap, TypeOK
  <2>4. NextGeneration'
    BY <2>1, <2>2 DEF NextGeneration
  <2>5. tables[n][x] = call.old[n] /\ call.new[n] # call.old[n]
    BY <1>1, <2>1 DEF CallOwned, Workers
  <2>6. generation[call.new[n]] = generation[tables[n][x]] + 1
    BY <2>1, <2>5 DEF NextGeneration
  <2>7. Advances
    <3> SUFFICES ASSUME NEW w \in Workers, NEW i \in Indices
                 PROVE  generation'[tables'[w][i]] = generation[tables[w][i]]
                            + IF tables'[w][i] = tables[w][i] THEN 0 ELSE 1
      OBVIOUS
    <3>1. CASE w = n /\ i = x
      BY <1>2, <2>1, <2>3, <2>5, <2>6, <3>1
    <3>2. CASE ~(w = n /\ i = x)
      BY <1>2, <2>1, <2>3, <3>2
    <3> QED
      BY <3>1, <3>2
  <2> QED
    BY <2>4, <2>7
<1>6. CASE Enqueue \/ RetirePoll
  BY <1>3, <1>6 DEF Enqueue, RetirePoll, NextGeneration
<1>7. CASE Tick
  <2>1. call # EMPTY => call'.new = call.new /\ call'.old = call.old
    BY <1>1, <1>7, EntryFacts DEF Tick, Call
  <2> QED
    BY <1>3, <1>7, <2>1 DEF Tick, NextGeneration
<1>8. CASE (\E w \in Workers : FrameBegin(w) \/ FrameEnd(w)) \/ UNCHANGED vars
  BY <1>3, <1>8 DEF FrameBegin, FrameEnd, vars, NextGeneration
<1> QED
  BY <1>4, <1>5, <1>6, <1>7, <1>8 DEF Next

(* A worker's live table changes only to one of the next generation: no    *)
(* worker falls back or skips a snapshot, whatever store of the swap the   *)
(* others have seen (infmon_snapshot_and_clear).                           *)
THEOREM GenerationAdvancesCorrect == Spec => GenerationAdvances
<1>1. Init => NextGeneration
  BY DEF Init, NextGeneration
<1>2. Owned /\ NextGeneration /\ [Next]_vars => (Owned /\ NextGeneration)'
  BY OwnedStep, NextGenerationStep
<1>3. Owned /\ NextGeneration /\ [Next]_vars =>
        [\A w \in Workers, i \in Indices :
            generation'[tables'[w][i]] = generation[tables[w][i]]
                + IF tables'[w][i] = tables[w][i] THEN 0 ELSE 1]_vars
  BY NextGenerationStep
<1> QED
  BY <1>1, <1>2, <1>3, OwnedInit, PTL DEF Spec, GenerationAdvances
=============================================================================
