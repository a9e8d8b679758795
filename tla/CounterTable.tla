---------------------------- MODULE CounterTable ----------------------------
(***************************************************************************)
(* One counter table: src/backend/src/counter_table.c, as its only writer  *)
(* sees it (each worker writes exclusively to its own tables, spec 004 5), *)
(* so that infmon_counter_table_update is one step, with one action per    *)
(* way it can end.                                                         *)
(*                                                                         *)
(* The table is open addressed with linear probing from                    *)
(* key_hash & slot_mask.  A slot is [flags, key, packets, last_update];    *)
(* key_hash and the key bytes are the abstract `key` (memcmp makes the     *)
(* comparison exact) and bytes, which is always updated together with      *)
(* packets, is left out.  The key arena is a bump allocator: only the      *)
(* amount used matters, since an allocated key is never moved or freed.    *)
(*                                                                         *)
(* tick is pm->tick, bumped once per frame; packets of one frame share it. *)
(***************************************************************************)
EXTENDS Integers, FiniteSets, Sums

CONSTANTS
    Keys,
    Hash,           \* key_hash of each key
    NO_KEY,         \* content of a slot no key was ever stored in
    MAX_KEYS,       \* the rule's max_keys
    KEY_WIDTH,      \* max_key_width the arena is sized by
    KEY_LEN,        \* key_len of the updates: KEY_WIDTH in the plugin
    EVICT_WINDOW,   \* slots evict_lru looks at (32)
    MAX_UPDATES,    \* bound: updates in one behaviour
    MAX_TICK        \* bound: frames in one behaviour

ASSUME KeysAssumption  == MAX_KEYS \in Nat \ {0} /\ NO_KEY \notin Keys
ASSUME WidthAssumption == /\ KEY_WIDTH \in Nat \ {0}
                          /\ KEY_LEN \in 1..KEY_WIDTH
                          /\ EVICT_WINDOW \in Nat \ {0}
ASSUME HashAssumption  == Hash \in [Keys -> Nat]
ASSUME BoundAssumption == MAX_UPDATES \in Nat /\ MAX_TICK \in Nat

(* infmon_next_pow2: the least power of two that is not less than MAX_KEYS. *)
NumSlots ==
    LET next_pow2[v \in 0..MAX_KEYS] == IF v <= 1 THEN 1 ELSE 2 * next_pow2[(v + 1) \div 2]
    IN next_pow2[MAX_KEYS]

ArenaCapacity == NumSlots * KEY_WIDTH

Slots == 0..(NumSlots - 1)

VARIABLES
    slots,
    key_arena_used,
    insert_failed,
    table_full,
    occupied_count,
    tick,
    updates,        \* history: packets passed to update
    latest,         \* history: the key of the last of them
    evicted         \* history: packets counted in slots that were evicted

vars == <<slots, key_arena_used, insert_failed, table_full, occupied_count,
          tick, updates, latest, evicted>>

Free == [flags |-> "FREE", key |-> NO_KEY, packets |-> 0, last_update |-> 0]

Init ==
    /\ slots = [i \in Slots |-> Free]
    /\ key_arena_used = 0
    /\ insert_failed = 0
    /\ table_full = 0
    /\ occupied_count = 0
    /\ tick = 0
    /\ updates = 0
    /\ latest = NO_KEY
    /\ evicted = 0

-----------------------------------------------------------------------------
(* key_hash & slot_mask, and where the probe sequence from there, which    *)
(* wraps around, reaches slot i.                                           *)
Home(k) == Hash[k] % NumSlots
Distance(k, i) == IF i >= Home(k) THEN i - Home(k) ELSE i - Home(k) + NumSlots

(* The slots phase 1 looks at: it stops at the first FREE slot.            *)
Probed(k) ==
    {i \in Slots : \A j \in Slots :
        slots[j].flags = "FREE" => Distance(k, i) <= Distance(k, j)}

Occupied == {i \in Slots : slots[i].flags = "OCCUPIED"}
Holding(k) == {i \in Occupied : slots[i].key = k}
MatchesHome(k) == {Home(k)} \cap Holding(k)    \* mutant: no probing
Matches(k) == Probed(k) \cap Holding(k)
Reusable(k) == {i \in Probed(k) : slots[i].flags \in {"FREE", "TOMBSTONE"}}

First(k, S) == CHOOSE i \in S : \A j \in S : Distance(k, i) <= Distance(k, j)

(* evict_lru: the first slot with the smallest last_update in the window   *)
(* from the start of the probe sequence.                                   *)
Window(k) == {i \in Occupied : Distance(k, i) < EVICT_WINDOW}
VictimMostRecent(k) ==          \* mutant: the comparison is reversed
    First(k, {i \in Window(k) :
                 \A j \in Window(k) : slots[i].last_update >= slots[j].last_update})
Victim(k) ==
    First(k, {i \in Window(k) :
                 \A j \in Window(k) : slots[i].last_update <= slots[j].last_update})

ArenaHasRoom == key_arena_used + KEY_LEN <= ArenaCapacity

(* Mutant: the packet that creates the flow is not counted.                *)
FilledEmpty(k) == [flags |-> "OCCUPIED", key |-> k, packets |-> 0, last_update |-> tick]

(* Filling a slot that the CAS has claimed.                                *)
Filled(k) == [flags |-> "OCCUPIED", key |-> k, packets |-> 1, last_update |-> tick]

(* Giving it back when arena_alloc fails; the other fields keep the values *)
(* of the previous occupant.                                               *)
GivenBack(slot) == [slot EXCEPT !.flags = "FREE"]

Offer(k) == updates' = updates + 1 /\ latest' = k

-----------------------------------------------------------------------------
(* Key found: packets and last_update.                                     *)
Hit(k) ==
    /\ Matches(k) # {}
    /\ slots' = [slots EXCEPT ![First(k, Matches(k))].packets = @ + 1,
                              ![First(k, Matches(k))].last_update = tick]
    /\ Offer(k)
    /\ UNCHANGED <<key_arena_used, insert_failed, table_full, occupied_count, tick, evicted>>

(* Key absent, a FREE slot or a tombstone on the way: claim the first one. *)
Insert(k) ==
    /\ Matches(k) = {} /\ Reusable(k) # {} /\ ArenaHasRoom
    /\ slots' = [slots EXCEPT ![First(k, Reusable(k))] = Filled(k)]
    /\ key_arena_used' = key_arena_used + KEY_LEN
    /\ occupied_count' = occupied_count + 1
    /\ Offer(k)
    /\ UNCHANGED <<insert_failed, table_full, tick, evicted>>

InsertNoArena(k) ==
    /\ Matches(k) = {} /\ Reusable(k) # {} /\ ~ArenaHasRoom
    /\ slots' = [slots EXCEPT ![First(k, Reusable(k))] = GivenBack(@)]
    /\ insert_failed' = insert_failed + 1
    /\ Offer(k)
    /\ UNCHANGED <<key_arena_used, table_full, occupied_count, tick, evicted>>

(* Every slot is occupied by another key: evict, then scan again.  The     *)
(* victim's tombstone is the only slot the second scan can claim.          *)
EvictAndInsert(k) ==
    /\ Matches(k) = {} /\ Reusable(k) = {} /\ ArenaHasRoom
    /\ slots' = [slots EXCEPT ![Victim(k)] = Filled(k)]
    /\ key_arena_used' = key_arena_used + KEY_LEN
    /\ table_full' = table_full + 1
    /\ evicted' = evicted + slots[Victim(k)].packets
    /\ Offer(k)
    /\ UNCHANGED <<insert_failed, occupied_count, tick>>

EvictNoArena(k) ==
    /\ Matches(k) = {} /\ Reusable(k) = {} /\ ~ArenaHasRoom
    /\ slots' = [slots EXCEPT ![Victim(k)] = GivenBack(@)]
    /\ insert_failed' = insert_failed + 1
    /\ table_full' = table_full + 1
    /\ occupied_count' = occupied_count - 1
    /\ evicted' = evicted + slots[Victim(k)].packets
    /\ Offer(k)
    /\ UNCHANGED <<key_arena_used, tick>>

NextFrame ==
    /\ tick < MAX_TICK
    /\ tick' = tick + 1
    /\ UNCHANGED <<slots, key_arena_used, insert_failed, table_full,
                   occupied_count, updates, latest, evicted>>

Next ==
    \/ /\ updates < MAX_UPDATES
       /\ \E k \in Keys : \/ Hit(k) \/ Insert(k) \/ InsertNoArena(k)
                          \/ EvictAndInsert(k) \/ EvictNoArena(k)
    \/ NextFrame

Spec == Init /\ [][Next]_vars

-----------------------------------------------------------------------------

(* No key is in two slots, not even when its first slot has become         *)
(* unreachable behind a slot that was given back: the snapshot reports     *)
(* each flow of a table once.  It holds only because such a slot appears   *)
(* when the arena is exhausted for good.                                   *)
OneSlotPerKey == \A k \in Keys : Cardinality(Holding(k)) <= 1

(* Every packet passed to update is in a slot, was lost with an evicted    *)
(* flow, or is counted in insert_failed: update loses none silently and    *)
(* counts none twice.                                                      *)
PacketsConserved ==
    updates = Total([n \in 1..NumSlots |->
                       IF n - 1 \in Occupied THEN slots[n - 1].packets ELSE 0])
              + evicted + insert_failed

(* A flow is dropped only when every slot is occupied by another key, and  *)
(* it was updated no later than any other flow in the window scanned for   *)
(* the packet's key (spec 002 6, lru_drop).                                *)
EvictionIsLastResort ==
    [][\A i \in Occupied :
         slots[i].key \notin {slots'[j].key : j \in Occupied'}
         => /\ Occupied = Slots /\ latest' \notin {slots[j].key : j \in Occupied}
            /\ \A j \in Window(latest') : slots[i].last_update <= slots[j].last_update]_vars
=============================================================================
