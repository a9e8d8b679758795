------------------------------ MODULE Snapshot ------------------------------
(***************************************************************************)
(* The snapshot manager infmon_snapshot_mgr_t: src/backend/src/snapshot.c  *)
(* and include/infmon/snapshot.h, driven the way they document it: one     *)
(* control thread calls infmon_snapshot_and_clear and infmon_retire_poll,  *)
(* workers bump their epoch once per dispatch loop iteration and load      *)
(* their table pointers once per frame.  No barrier stops the workers      *)
(* (spec 004 7.2 step 6).                                                  *)
(*                                                                         *)
(* A swap stores one worker's pointer at a time while other workers begin  *)
(* and end frames, so the control thread's handler is a sequence of steps: *)
(* Prepare (checks, allocation, clock, epoch), one Swap per worker in      *)
(* order, and Enqueue.  Refused calls (no table, ring full, allocation     *)
(* failed) return before the first store and change nothing.               *)
(*                                                                         *)
(* Time is kept as ages: `age` of a ring entry is clock_ns() minus its     *)
(* swap timestamp, `frame_age` how long a frame has been running.  Ages    *)
(* and worker epochs saturate just past the largest value any comparison   *)
(* in the code can tell apart.                                             *)
(***************************************************************************)
EXTENDS Integers, FiniteSets

CONSTANTS
    NumWorkers,
    Indices,        \* installed flow rules: the columns of tables_flat
    Tables,         \* addresses malloc can return
    NULL,
    EMPTY,          \* a ring slot whose pending flag is false
    MAX_RETIRED,    \* INFMON_MAX_RETIRED
    GRACE,          \* grace_ns in clock ticks
    MAX_FRAME,      \* environment: a frame is over within this many ticks
    MAX_CALL,       \* environment: so is a call of snapshot_and_clear
    MAX_SWAPS       \* bound: snapshots taken in one behaviour

ASSUME WorkersAssumption == NumWorkers \in Nat \ {0}
ASSUME RingAssumption    == MAX_RETIRED \in Nat \ {0}
ASSUME TimeAssumption    == GRACE \in Nat /\ MAX_FRAME \in Nat /\ MAX_CALL \in Nat
ASSUME SwapsAssumption   == MAX_SWAPS \in Nat
ASSUME NullAssumption    == NULL \notin Tables

Workers == 1..NumWorkers
Ring == 1..MAX_RETIRED

(* infmon_retired_table_t, and the locals of infmon_snapshot_and_clear.    *)
Entry == [tables : [Workers -> Tables], swap_epoch : Nat, age : 0..(GRACE + 1)]
Call  == [index : Indices, new : [Workers -> Tables], old : [Workers -> Tables],
          next : 1..(NumWorkers + 1), age : 0..MAX_CALL]

ASSUME EmptyAssumption == EMPTY \notin Entry /\ EMPTY \notin Call

VARIABLES
    tables,         \* the live pointer of each worker and flow rule
    generation,     \* table->generation
    allocated,      \* tables not yet freed
    ring,           \* retired[]: EMPTY or [tables, swap_epoch, age]
    retired_count,
    global_epoch,
    worker_epoch,
    frame,          \* the pointers a worker's running frame loaded, NULL if idle
    frame_age,
    call            \* the snapshot_and_clear in progress, EMPTY if none

vars == <<tables, generation, allocated, ring, retired_count, global_epoch,
          worker_epoch, frame, frame_age, call>>

AtMost(n, max) == IF n < max THEN n ELSE max

Pending == {s \in Ring : ring[s] # EMPTY}
Idle == [i \in Indices |-> NULL]

(* The tables a column or a frame points to.                               *)
Pointers(f) == {f[x] : x \in DOMAIN f} \ {NULL}

Init ==
    /\ tables \in [Workers -> [Indices -> Tables]]
    /\ \A v, w \in Workers, i, j \in Indices :
         tables[v][i] = tables[w][j] => v = w /\ i = j
    /\ allocated = {tables[w][i] : w \in Workers, i \in Indices}
    /\ generation = [t \in Tables |-> 0]
    /\ ring = [s \in Ring |-> EMPTY]
    /\ retired_count = 0
    /\ global_epoch = 0
    /\ worker_epoch = [w \in Workers |-> 0]
    /\ frame = [w \in Workers |-> Idle]
    /\ frame_age = [w \in Workers |-> 0]
    /\ call = EMPTY

FreshColumns ==
    {c \in [Workers -> Tables \ allocated] :
        \A v, w \in Workers : c[v] = c[w] => v = w}

(***************************************************************************)
(* infmon_snapshot_and_clear.                                              *)
(***************************************************************************)

(* Mutant: the replacements restart at generation 0.                       *)
PrepareGenerationZero(i) ==
    /\ call = EMPTY
    /\ retired_count < MAX_RETIRED
    /\ global_epoch < MAX_SWAPS
    /\ FreshColumns # {}
    /\ LET new == CHOOSE c \in FreshColumns : TRUE
       IN /\ call' = [index |-> i, new |-> new, next |-> 1, age |-> 0,
                      old |-> [w \in Workers |-> tables[w][i]]]
          /\ allocated' = allocated \cup Pointers(new)
          /\ generation' = [t \in Tables |->
                               IF t \in Pointers(new) THEN 0 ELSE generation[t]]
    /\ global_epoch' = global_epoch + 1
    /\ UNCHANGED <<tables, ring, retired_count, worker_epoch, frame, frame_age>>

(* Ring capacity check, one new table per worker, epoch of this swap.      *)
Prepare(i) ==
    /\ call = EMPTY
    /\ retired_count < MAX_RETIRED
    /\ global_epoch < MAX_SWAPS
    /\ FreshColumns # {}
    /\ LET new == CHOOSE c \in FreshColumns : TRUE
       IN /\ call' = [index |-> i, new |-> new, next |-> 1, age |-> 0,
                      old |-> [w \in Workers |-> tables[w][i]]]
          /\ allocated' = allocated \cup Pointers(new)
          /\ generation' =
               [t \in Tables |->
                   IF \E w \in Workers : new[w] = t
                   THEN generation[tables[CHOOSE w \in Workers : new[w] = t][i]] + 1
                   ELSE generation[t]]
    /\ global_epoch' = global_epoch + 1
    /\ UNCHANGED <<tables, ring, retired_count, worker_epoch, frame, frame_age>>

(* The release store of the next worker's pointer.                         *)
Swap ==
    /\ call # EMPTY /\ call.next <= NumWorkers
    /\ tables' = [tables EXCEPT ![call.next][call.index] = call.new[call.next]]
    /\ call' = [call EXCEPT !.next = @ + 1]
    /\ UNCHANGED <<generation, allocated, ring, retired_count, global_epoch,
                   worker_epoch, frame, frame_age>>

(* The first slot that is not pending.                                     *)
FirstFree ==
    {s \in Ring \ Pending : \A r \in Ring \ Pending : s <= r}

Enqueued(s) == IF s \in FirstFree
               THEN [tables |-> call.old, swap_epoch |-> global_epoch,
                     age |-> AtMost(call.age, GRACE + 1)]
               ELSE ring[s]

(* Mutant: the slot is chosen by the count.                                *)
EnqueueAtCount ==
    /\ call # EMPTY /\ call.next > NumWorkers
    /\ ring' = [ring EXCEPT ![retired_count + 1] =
                   [tables |-> call.old, swap_epoch |-> global_epoch,
                    age |-> AtMost(call.age, GRACE + 1)]]
    /\ retired_count' = retired_count + 1
    /\ call' = EMPTY
    /\ UNCHANGED <<tables, generation, allocated, global_epoch, worker_epoch,
                   frame, frame_age>>

(* The old column goes into the ring.                                      *)
Enqueue ==
    /\ call # EMPTY /\ call.next > NumWorkers
    /\ ring' = [s \in Ring |-> Enqueued(s)]
    /\ retired_count' = retired_count + Cardinality(FirstFree)
    /\ call' = EMPTY
    /\ UNCHANGED <<tables, generation, allocated, global_epoch, worker_epoch,
                   frame, frame_age>>

(***************************************************************************)
(* infmon_retire_poll: one pass over the ring.                             *)
(***************************************************************************)
AllWorkersPast(epoch) == \A w \in Workers : worker_epoch[w] > epoch

(* Mutant: the epochs are taken for the grace condition.                   *)
ExpiredByEpoch(s) == s \in Pending /\ AllWorkersPast(ring[s].swap_epoch)

(* Both conditions of the loop body.                                       *)
Expired(s) ==
    /\ s \in Pending
    /\ AllWorkersPast(ring[s].swap_epoch)
    /\ ring[s].age > 0 /\ ring[s].age >= GRACE

RetirePollCountsOnce ==         \* mutant: the count drops by one per poll
    LET expired == {s \in Ring : Expired(s)}
    IN /\ call = EMPTY
       /\ expired # {}
       /\ allocated' = allocated \ UNION {Pointers(ring[s].tables) : s \in expired}
       /\ ring' = [s \in Ring |-> IF s \in expired THEN EMPTY ELSE ring[s]]
       /\ retired_count' = retired_count - 1
       /\ UNCHANGED <<tables, generation, global_epoch, worker_epoch, frame,
                      frame_age, call>>

RetirePoll ==
    LET expired == {s \in Ring : Expired(s)}
    IN /\ call = EMPTY
       /\ expired # {}
       /\ allocated' = allocated \ UNION {Pointers(ring[s].tables) : s \in expired}
       /\ ring' = [s \in Ring |-> IF s \in expired THEN EMPTY ELSE ring[s]]
       /\ retired_count' = retired_count - Cardinality(expired)
       /\ UNCHANGED <<tables, generation, global_epoch, worker_epoch, frame,
                      frame_age, call>>

(***************************************************************************)
(* A worker's dispatch loop and the clock.                                 *)
(***************************************************************************)
FrameBegin(w) ==
    /\ frame[w] = Idle
    /\ frame' = [frame EXCEPT ![w] = tables[w]]
    /\ frame_age' = [frame_age EXCEPT ![w] = 0]
    /\ UNCHANGED <<tables, generation, allocated, ring, retired_count,
                   global_epoch, worker_epoch, call>>

(* Mutant: the epoch is not bumped.                                        *)
FrameEndNoBump(w) ==
    /\ frame[w] # Idle
    /\ frame' = [frame EXCEPT ![w] = Idle]
    /\ frame_age' = [frame_age EXCEPT ![w] = 0]
    /\ UNCHANGED <<tables, generation, allocated, ring, retired_count,
                   global_epoch, worker_epoch, call>>

(* End of the iteration: infmon_worker_epoch_bump.                         *)
FrameEnd(w) ==
    /\ frame[w] # Idle
    /\ frame' = [frame EXCEPT ![w] = Idle]
    /\ worker_epoch' = [worker_epoch EXCEPT ![w] = AtMost(@ + 1, MAX_SWAPS + 1)]
    /\ frame_age' = [frame_age EXCEPT ![w] = 0]
    /\ UNCHANGED <<tables, generation, allocated, ring, retired_count,
                   global_epoch, call>>

(* One tick of clock_ns().  A frame that has used up MAX_FRAME and a call  *)
(* that has used up MAX_CALL are over before the next tick.                *)
Tick ==
    /\ \A w \in Workers : frame[w] # Idle => frame_age[w] < MAX_FRAME
    /\ call # EMPTY => call.age < MAX_CALL
    /\ ring' = [s \in Ring |-> IF s \in Pending
                               THEN [ring[s] EXCEPT !.age = AtMost(@ + 1, GRACE + 1)]
                               ELSE EMPTY]
    /\ frame_age' = [w \in Workers |-> IF frame[w] # Idle THEN frame_age[w] + 1 ELSE 0]
    /\ call' = IF call # EMPTY THEN [call EXCEPT !.age = @ + 1] ELSE EMPTY
    /\ UNCHANGED <<tables, generation, allocated, retired_count, global_epoch,
                   worker_epoch, frame>>

Next ==
    \/ \E i \in Indices : Prepare(i)
    \/ Swap
    \/ Enqueue
    \/ RetirePoll
    \/ \E w \in Workers : FrameBegin(w) \/ FrameEnd(w)
    \/ Tick

Spec == Init /\ [][Next]_vars

(* VPP's main loop returns to the poll and finishes its handlers, every    *)
(* worker keeps dispatching, and the clock advances.                       *)
Fairness ==
    /\ WF_vars(Swap) /\ WF_vars(Enqueue) /\ WF_vars(RetirePoll) /\ WF_vars(Tick)
    /\ \A w \in Workers : WF_vars(FrameBegin(w)) /\ WF_vars(FrameEnd(w))

FairSpec == Spec /\ Fairness

-----------------------------------------------------------------------------
(* Every live pointer is installed (snapshot_and_clear never leaves a      *)
(* null), and ages and epochs stay within the bounds named above.          *)
TypeOK ==
    /\ tables \in [Workers -> [Indices -> Tables]]
    /\ generation \in [Tables -> Nat]
    /\ allocated \subseteq Tables
    /\ ring \in [Ring -> Entry \cup {EMPTY}]
    /\ retired_count \in Int
    /\ global_epoch \in 0..MAX_SWAPS
    /\ worker_epoch \in [Workers -> 0..(MAX_SWAPS + 1)]
    /\ frame \in [Workers -> [Indices -> Tables] \cup {Idle}]
    /\ frame_age \in [Workers -> 0..MAX_FRAME]
    /\ call \in Call \cup {EMPTY}

Live == {tables[w][i] : w \in Workers, i \in Indices}
Retired == UNION {Pointers(ring[s].tables) : s \in Pending}

(* The tables only the call in progress knows: replacements not yet stored *)
(* and old tables not yet enqueued.                                        *)
InCall ==
    IF call = EMPTY THEN {}
    ELSE {call.new[w] : w \in {v \in Workers : v >= call.next}}
           \cup {call.old[w] : w \in {v \in Workers : v < call.next}}

(* How the pointers relate, in a form a single step preserves: live tables *)
(* are distinct; the ring's are allocated, in no other entry and not live; *)
(* the call's are allocated, its replacements live exactly where already   *)
(* stored and its old tables exactly where not.                            *)
LiveOwned ==
    \A v \in Workers, i \in Indices :
        /\ tables[v][i] \in allocated
        /\ \A w \in Workers, j \in Indices :
             tables[v][i] = tables[w][j] => v = w /\ i = j

RingOwned ==
    \A s \in Pending, w \in Workers :
        /\ ring[s].tables[w] \in allocated
        /\ \A v \in Workers, i \in Indices : ring[s].tables[w] # tables[v][i]
        /\ \A r \in Pending, v \in Workers : ring[s].tables[w] = ring[r].tables[v] => r = s

CallOwned ==
    call # EMPTY =>
        \A w \in Workers :
            /\ call.old[w] \in allocated /\ call.new[w] \in allocated
            /\ tables[w][call.index] = IF w < call.next THEN call.new[w] ELSE call.old[w]
            /\ \A v \in Workers, i \in Indices :
                 /\ tables[v][i] = call.old[w] => v = w /\ i = call.index /\ w >= call.next
                 /\ tables[v][i] = call.new[w] => v = w /\ i = call.index /\ w < call.next
            /\ \A v \in Workers :
                 /\ call.old[w] # call.new[v]
                 /\ call.new[w] = call.new[v] => v = w
            /\ \A s \in Pending, v \in Workers :
                 ring[s].tables[v] # call.old[w] /\ ring[s].tables[v] # call.new[w]

(* What a running frame holds is live, or was swapped out by the call in   *)
(* progress, or is in a ring entry no more than MAX_CALL ticks older than  *)
(* the frame: the entry's age starts when the call reads the clock, the    *)
(* frame began before the store that swapped its pointer.                  *)
FrameHolds(w, i) ==
    \/ frame[w][i] = tables[w][i]
    \/ /\ call # EMPTY /\ call.index = i /\ w < call.next
       /\ frame[w][i] = call.old[w]
    \/ \E s \in Pending : /\ frame[w][i] = ring[s].tables[w]
                          /\ ring[s].age <= frame_age[w] + MAX_CALL

FramesHold ==
    \A w \in Workers, i \in Indices : frame[w] # Idle => FrameHolds(w, i)

(* No worker's running frame holds a freed table: infmon_retire_poll frees *)
(* nothing a worker may still count into.  It rests on the grace period    *)
(* alone, for GRACE > MAX_FRAME + MAX_CALL.                                *)
NoUseAfterFree == \A w \in Workers : Pointers(frame[w]) \subseteq allocated

(* Every allocated table is live, retired or in the hands of the call in   *)
(* progress, and never two of these: an old table is enqueued even when    *)
(* frames, polls and slot reuse fall between the stores, so none leaks and *)
(* none is freed twice.                                                    *)
EveryTableHasOneOwner ==
    /\ allocated = Live \cup Retired \cup InCall
    /\ Live \cap Retired = {} /\ Live \cap InCall = {} /\ Retired \cap InCall = {}
    /\ \A r, s \in Pending :
         r # s => Pointers(ring[r].tables) \cap Pointers(ring[s].tables) = {}

(* retired_count, which admits a snapshot, agrees with the pending flags,  *)
(* which the enqueue loop searches: were it too small, the loop would find *)
(* no slot and drop the old tables without an error (snapshot.c:151).      *)
RetiredCountExact ==
    /\ retired_count = Cardinality(Pending)
    /\ call # EMPTY => Pending # Ring

(* The inductive invariant behind RetiredCountExact and, with FramesHold,  *)
(* behind NoUseAfterFree.                                                  *)
Owned == TypeOK /\ LiveOwned /\ RingOwned /\ CallOwned /\ RetiredCountExact

(* A pointer and the generation it leads to change together, one by one:   *)
(* a reader that sees a generation again sees the same table, and one that *)
(* sees the next has missed no snapshot (spec 004 7.2 step 3).             *)
GenerationAdvances ==
    [][\A w \in Workers, i \in Indices :
         generation'[tables'[w][i]] = generation[tables[w][i]]
             + IF tables'[w][i] = tables[w][i] THEN 0 ELSE 1]_vars

(* Every retired column is freed in the end, so the ring never stays full  *)
(* (spec 004 7.2 step 6), as long as infmon_retire_poll is called.         *)
RetiredAreFreed == \A s \in Ring : (s \in Pending) ~> (s \notin Pending)
=============================================================================
