------------------------- MODULE CounterTableProofs -------------------------
(***************************************************************************)
(* Proofs about CounterTable, for any number of keys and slots, any hash   *)
(* and any eviction window.                                                *)
(*                                                                         *)
(* The argument turns on where FREE slots can be.  While the arena has     *)
(* room a slot that was claimed is filled, so that no slot becomes FREE    *)
(* again and none on the way to a key is FREE: a key that is not found is  *)
(* in no slot.  When the arena has no room it never has any again, and     *)
(* nothing is inserted any more.                                           *)
(***************************************************************************)
EXTENDS CounterTable, ListLemmas, FiniteSetTheorems

-----------------------------------------------------------------------------
(* Slots and distances.                                                    *)

NextPow2(f) ==
    f = [v \in 0..MAX_KEYS |-> IF v <= 1 THEN 1 ELSE 2 * f[(v + 1) \div 2]]

(* The recursion of NumSlots is well founded...                            *)
LEMMA NextPow2Exists ==
    \E f : NextPow2(f)
<1> DEFINE P(f, n) == f = [v \in 0..n |-> IF v <= 1 THEN 1 ELSE 2 * f[(v + 1) \div 2]]
           T == {n \in Nat : \E f : P(f, n)}
<1>1. 0 \in T
  <2>1. P([v \in 0..0 |-> 1], 0)
    OBVIOUS
  <2> QED
    BY <2>1
<1>2. ASSUME NEW n \in Nat, n \in T PROVE n + 1 \in T
  <2>1. PICK f : P(f, n)
    BY <1>2
  <2> DEFINE g == [v \in 0..(n + 1) |->
                     IF v = n + 1 THEN (IF v <= 1 THEN 1 ELSE 2 * f[(v + 1) \div 2]) ELSE f[v]]
  <2>2. \A v \in 2..(n + 1) : (v + 1) \div 2 \in 0..n
    OBVIOUS
  <2>3. \A v \in 0..(n + 1) : g[v] = IF v <= 1 THEN 1 ELSE 2 * g[(v + 1) \div 2]
    <3>1. ASSUME NEW v \in 0..n PROVE g[v] = IF v <= 1 THEN 1 ELSE 2 * g[(v + 1) \div 2]
      <4>1. g[v] = IF v <= 1 THEN 1 ELSE 2 * f[(v + 1) \div 2]
        BY <2>1
      <4>2. v > 1 => (v + 1) \div 2 \in 0..n
        BY <2>2
      <4> QED
        BY <4>1, <4>2
    <3>2. g[n + 1] = IF n + 1 <= 1 THEN 1 ELSE 2 * g[((n + 1) + 1) \div 2]
      <4>1. g[n + 1] = IF n + 1 <= 1 THEN 1 ELSE 2 * f[((n + 1) + 1) \div 2]
        OBVIOUS
      <4>2. n + 1 > 1 => ((n + 1) + 1) \div 2 \in 0..n
        BY <2>2
      <4> QED
        BY <4>1, <4>2
    <3> HIDE DEF g
    <3>3. \A v \in 0..(n + 1) : v \in 0..n \/ v = n + 1
      OBVIOUS
    <3> QED
      BY <3>1, <3>2, <3>3
  <2>4. g = [v \in 0..(n + 1) |-> g[v]]
    OBVIOUS
  <2> HIDE DEF g
  <2>5. P(g, n + 1)
    BY <2>3, <2>4
  <2> HIDE DEF P
  <2> QED
    BY <2>5
<1> HIDE DEF T
<1>3. Nat \subseteq T
  BY <1>1, <1>2, NatInductive
<1>4. MAX_KEYS \in T
  BY <1>3, KeysAssumption
<1> QED
  BY <1>4 DEF T, NextPow2

(* ... and yields a positive number.                                       *)
LEMMA NumSlotsType ==
    NumSlots \in Nat \ {0}
<1> DEFINE h == CHOOSE f : NextPow2(f)
<1>1. NextPow2(h)
  BY NextPow2Exists
<1>2. NumSlots = h[MAX_KEYS]
  BY DEF NumSlots, NextPow2
<1> HIDE DEF h
<1> DEFINE T == {n \in Nat : \A v \in 0..n : v <= MAX_KEYS => h[v] \in Nat \ {0}}
<1>3. 0 \in T
  BY <1>1, KeysAssumption DEF NextPow2
<1>4. ASSUME NEW n \in Nat, n \in T PROVE n + 1 \in T
  <2>1. ASSUME n + 1 <= MAX_KEYS PROVE h[n + 1] \in Nat \ {0}
    <3>1. h[n + 1] = IF n + 1 <= 1 THEN 1 ELSE 2 * h[((n + 1) + 1) \div 2]
      BY <1>1, <2>1, KeysAssumption DEF NextPow2
    <3>2. n + 1 > 1 => ((n + 1) + 1) \div 2 \in 0..n
      OBVIOUS
    <3>3. n + 1 > 1 => h[((n + 1) + 1) \div 2] \in Nat \ {0}
      BY <1>4, <2>1, <3>2, KeysAssumption
    <3> QED
      BY <3>1, <3>3
  <2>2. \A v \in 0..(n + 1) : v \in 0..n \/ v = n + 1
    OBVIOUS
  <2> QED
    BY <1>4, <2>1, <2>2
<1> HIDE DEF T
<1>5. Nat \subseteq T
  BY <1>3, <1>4, NatInductive
<1>6. MAX_KEYS \in T
  BY <1>5, KeysAssumption
<1> QED
  BY <1>2, <1>6, KeysAssumption DEF T

(* A probe sequence starts at a slot and is a permutation of the slots     *)
(* only as far as the proofs need: its first slot is at distance 0.        *)
LEMMA DistanceFacts ==
    ASSUME NEW k \in Keys
    PROVE  /\ Home(k) \in Slots
           /\ \A i \in Slots : Distance(k, i) \in Nat
           /\ Distance(k, Home(k)) = 0
<1>1. NumSlots \in Nat \ {0} /\ Hash[k] \in Nat
  BY NumSlotsType, HashAssumption
<1>2. Home(k) \in 0..(NumSlots - 1)
  BY <1>1 DEF Home
<1>3. \A i \in Slots : i \in 0..(NumSlots - 1)
  BY DEF Slots
<1> QED
  BY <1>1, <1>2, <1>3 DEF Distance, Slots

(* First picks a slot that no other one of the set precedes.               *)
LEMMA FirstFacts ==
    ASSUME NEW k \in Keys, NEW S \in SUBSET Slots, S # {}
    PROVE  First(k, S) \in S /\ \A j \in S : Distance(k, First(k, S)) <= Distance(k, j)
<1> DEFINE T == {Distance(k, i) : i \in S}
<1>1. T \in SUBSET Nat /\ T # {}
  BY DistanceFacts
<1>2. PICK n \in T : \A m \in T : n <= m
  <2> HIDE DEF T
  <2> QED
    BY <1>1, Minimum
<1>3. \E i \in S : \A j \in S : Distance(k, i) <= Distance(k, j)
  BY <1>2
<1> QED
  BY <1>3 DEF First

-----------------------------------------------------------------------------
(* The inductive invariant.                                                *)

SlotRecords == [flags : {"FREE", "OCCUPIED"}, key : Keys \cup {NO_KEY},
                packets : Nat, last_update : Nat]

CountOf(slot) == IF slot.flags = "OCCUPIED" THEN slot.packets ELSE 0
InTable(s) == [n \in 1..NumSlots |-> CountOf(s[n - 1])]
OccupiedIn(s) == {i \in Slots : s[i].flags = "OCCUPIED"}

TypeOK ==
    /\ slots \in [Slots -> SlotRecords]
    /\ key_arena_used \in Nat /\ insert_failed \in Nat /\ table_full \in Nat
    /\ tick \in Nat /\ updates \in Nat /\ evicted \in Nat

KeysApart ==
    /\ \A i \in OccupiedIn(slots) : slots[i].key \in Keys
    /\ \A i, j \in OccupiedIn(slots) : slots[i].key = slots[j].key => i = j

(* As long as keys can be stored, no FREE slot cuts a probe sequence.      *)
Reachable ==
    ArenaHasRoom =>
        \A i \in OccupiedIn(slots), j \in Slots :
            slots[j].flags = "FREE" => Distance(slots[i].key, i) <= Distance(slots[i].key, j)

Balanced == updates = Total(InTable(slots)) + evicted + insert_failed

TableInv ==
    /\ TypeOK /\ KeysApart /\ Reachable /\ Balanced
    /\ occupied_count = Cardinality(OccupiedIn(slots))

-----------------------------------------------------------------------------
(* What writing one slot changes.                                          *)

Wrote(s, t, i, r) ==
    /\ t \in [Slots -> SlotRecords] /\ t[i] = r
    /\ \A j \in Slots : j # i => t[j] = s[j]

LEMMA ArenaType ==
    ArenaCapacity \in Nat /\ KEY_LEN \in Nat \ {0}
<1>1. NumSlots \in Nat /\ KEY_WIDTH \in Nat /\ KEY_LEN \in 1..KEY_WIDTH
  BY NumSlotsType, WidthAssumption
<1> QED
  BY <1>1 DEF ArenaCapacity

LEMMA OccupiedFinite ==
    ASSUME NEW s
    PROVE  /\ IsFiniteSet(OccupiedIn(s)) /\ OccupiedIn(s) \subseteq Slots
           /\ Cardinality(OccupiedIn(s)) \in Nat
<1>1. IsFiniteSet(Slots)
  BY NumSlotsType, FS_Interval DEF Slots
<1>2. OccupiedIn(s) \subseteq Slots
  BY DEF OccupiedIn
<1>3. IsFiniteSet(OccupiedIn(s))
  BY <1>1, <1>2, FS_Subset
<1> QED
  BY <1>2, <1>3, FS_CardinalityType

LEMMA InTableType ==
    ASSUME NEW s \in [Slots -> SlotRecords]
    PROVE  /\ InTable(s) \in Seq(Int) /\ Len(InTable(s)) = NumSlots
           /\ Total(InTable(s)) \in Int
           /\ \A i \in Slots : i + 1 \in 1..NumSlots /\ InTable(s)[i + 1] = CountOf(s[i])
<1>1. NumSlots \in Nat \ {0}
  BY NumSlotsType
<1>2. ASSUME NEW n \in 1..NumSlots PROVE CountOf(s[n - 1]) \in Int
  <2>1. n - 1 \in Slots
    BY <1>1 DEF Slots
  <2> QED
    BY <2>1 DEF CountOf, SlotRecords
<1>3. InTable(s) \in Seq(Int) /\ Len(InTable(s)) = NumSlots
  BY <1>1, <1>2 DEF InTable
<1>4. \A i \in Slots : i + 1 \in 1..NumSlots /\ InTable(s)[i + 1] = CountOf(s[i])
  <2>1. ASSUME NEW i \in Slots PROVE i + 1 \in 1..NumSlots /\ (i + 1) - 1 = i
    BY <1>1 DEF Slots
  <2> QED
    BY <2>1 DEF InTable
<1> QED
  BY <1>3, <1>4, TotalType

LEMMA WroteTotal ==
    ASSUME NEW s \in [Slots -> SlotRecords], NEW t, NEW i \in Slots, NEW r, Wrote(s, t, i, r)
    PROVE  Total(InTable(t)) = Total(InTable(s)) + (CountOf(r) - CountOf(s[i]))
<1>1. t \in [Slots -> SlotRecords] /\ t[i] = r /\ NumSlots \in Nat \ {0}
  BY NumSlotsType DEF Wrote
<1> DEFINE a == InTable(s)
           b == InTable(t)
<1>2. /\ a \in Seq(Int) /\ b \in Seq(Int) /\ Len(b) = Len(a) /\ Len(a) = NumSlots
      /\ i + 1 \in 1..NumSlots /\ a[i + 1] = CountOf(s[i]) /\ b[i + 1] = CountOf(r)
  BY <1>1, InTableType
<1>3. ASSUME NEW n \in 1..NumSlots, n # i + 1 PROVE b[n] = a[n]
  <2>1. n - 1 \in Slots /\ n - 1 # i
    BY <1>1, <1>3 DEF Slots
  <2>2. t[n - 1] = s[n - 1]
    BY <2>1 DEF Wrote
  <2> QED
    BY <2>2 DEF InTable
<1> HIDE DEF a, b
<1>4. Total(b) = Total(a) + (b[i + 1] - a[i + 1])
  BY <1>2, <1>3, TotalChanged
<1> QED
  BY <1>2, <1>4 DEF a, b

LEMMA WroteOccupied ==
    ASSUME NEW s \in [Slots -> SlotRecords], NEW t, NEW i \in Slots, NEW r, Wrote(s, t, i, r)
    PROVE  OccupiedIn(t) = IF r.flags = "OCCUPIED" THEN OccupiedIn(s) \cup {i}
                                                   ELSE OccupiedIn(s) \ {i}
BY DEF Wrote, OccupiedIn

-----------------------------------------------------------------------------
(* What the ways an update can end have in common.                         *)

(* There are no tombstones between updates.                                *)
LEMMA FreeOrOccupied ==
    ASSUME TypeOK, NEW i \in Slots
    PROVE  /\ slots[i].flags \in {"FREE", "OCCUPIED"} /\ (slots[i].flags = "FREE" <=> i \notin Occupied)
           /\ Occupied = OccupiedIn(slots)
BY DEF TypeOK, SlotRecords, Occupied, OccupiedIn

(* A FREE slot stops the probe: if the probe finds nothing to reuse there  *)
(* is none.                                                                *)
LEMMA FullTable ==
    ASSUME TypeOK, NEW k \in Keys, Reusable(k) = {}
    PROVE  OccupiedIn(slots) = Slots
<1> DEFINE F == {j \in Slots : slots[j].flags = "FREE"}
<1>1. SUFFICES ASSUME F # {} PROVE FALSE
  BY FreeOrOccupied DEF OccupiedIn
<1>2. F \in SUBSET Slots
  OBVIOUS
<1>3. First(k, F) \in F /\ \A j \in F : Distance(k, First(k, F)) <= Distance(k, j)
  <2> HIDE DEF F
  <2> QED
    BY <1>1, <1>2, FirstFacts
<1>4. First(k, F) \in Reusable(k)
  BY <1>3 DEF Reusable, Probed
<1> QED
  BY <1>4

(* While there is room for keys, a key the probe does not find is nowhere. *)
LEMMA NotFound ==
    ASSUME TableInv, NEW k \in Keys, Matches(k) = {}, ArenaHasRoom \/ Reusable(k) = {}
    PROVE  \A i \in OccupiedIn(slots) : slots[i].key # k
<1> SUFFICES ASSUME NEW i \in OccupiedIn(slots), slots[i].key = k PROVE FALSE
  OBVIOUS
<1>1. i \in Slots /\ i \in Holding(k)
  BY DEF OccupiedIn, Holding, Occupied
<1>2. i \in Probed(k)
  <2>1. CASE ArenaHasRoom
    BY <1>1, <2>1 DEF TableInv, Reachable, Probed
  <2>2. CASE Reusable(k) = {}
    <3>1. OccupiedIn(slots) = Slots
      BY <2>2, FullTable DEF TableInv
    <3> QED
      BY <1>1, <3>1 DEF OccupiedIn, Probed
  <2> QED
    BY <2>1, <2>2
<1> QED
  BY <1>1, <1>2 DEF Matches

(* A full table has a victim within the window, which starts at home.      *)
LEMMA VictimFacts ==
    ASSUME TypeOK, NEW k \in Keys, Reusable(k) = {}
    PROVE  /\ Victim(k) \in Slots /\ Victim(k) \in OccupiedIn(slots)
           /\ \A j \in Window(k) : slots[Victim(k)].last_update <= slots[j].last_update
<1>1. OccupiedIn(slots) = Slots
  BY FullTable
<1>2. Home(k) \in Window(k)
  <2>1. Distance(k, Home(k)) < EVICT_WINDOW
    BY DistanceFacts, WidthAssumption
  <2> QED
    BY <1>1, <2>1, DistanceFacts DEF Window, Occupied, OccupiedIn
<1> DEFINE T == {slots[i].last_update : i \in Window(k)}
           L == {i \in Window(k) : \A j \in Window(k) : slots[i].last_update <= slots[j].last_update}
<1>3. T \in SUBSET Nat /\ T # {}
  <2>1. Window(k) \subseteq Slots
    BY DEF Window, Occupied
  <2>2. \A i \in Slots : slots[i].last_update \in Nat
    BY DEF TypeOK, SlotRecords
  <2> QED
    BY <1>2, <2>1, <2>2
<1>4. PICK n \in T : \A m \in T : n <= m
  <2> HIDE DEF T
  <2> QED
    BY <1>3, Minimum
<1>5. L # {} /\ L \in SUBSET Slots
  BY <1>4 DEF Window, Occupied
<1>6. Victim(k) = First(k, L)
  BY DEF Victim
<1>7. Victim(k) \in L
  <2> HIDE DEF L
  <2> QED
    BY <1>5, <1>6, FirstFacts
<1> QED
  BY <1>5, <1>7, <1>1

-----------------------------------------------------------------------------
(* One lemma per action.                                                   *)

(* The packets and the occupied slots after a slot was written.            *)
LEMMA WroteSlot ==
    ASSUME TableInv, NEW i \in Slots, NEW r \in SlotRecords,
           slots' = [slots EXCEPT ![i] = r]
    PROVE  /\ Wrote(slots, slots', i, r)
           /\ Total(InTable(slots')) = Total(InTable(slots)) + (CountOf(r) - CountOf(slots[i]))
           /\ Total(InTable(slots)) \in Int
           /\ OccupiedIn(slots') = IF r.flags = "OCCUPIED" THEN OccupiedIn(slots) \cup {i}
                                                           ELSE OccupiedIn(slots) \ {i}
<1>1. slots \in [Slots -> SlotRecords]
  BY DEF TableInv, TypeOK
<1>2. Wrote(slots, slots', i, r)
  BY <1>1 DEF Wrote
<1>3. Total(InTable(slots')) = Total(InTable(slots)) + (CountOf(r) - CountOf(slots[i]))
  BY <1>1, <1>2, WroteTotal
<1>4. OccupiedIn(slots') = IF r.flags = "OCCUPIED" THEN OccupiedIn(slots) \cup {i}
                                                   ELSE OccupiedIn(slots) \ {i}
  BY <1>1, <1>2, WroteOccupied
<1>5. Total(InTable(slots)) \in Int
  BY <1>1, InTableType
<1> QED
  BY <1>2, <1>3, <1>4, <1>5

LEMMA CountedSlot ==
    ASSUME NEW slot \in SlotRecords, NEW n \in Nat
    PROVE  [[slot EXCEPT !.packets = slot.packets + 1] EXCEPT !.last_update = n]
             = [flags |-> slot.flags, key |-> slot.key, packets |-> slot.packets + 1, last_update |-> n]
<1>1. PICK f \in {"FREE", "OCCUPIED"}, k \in Keys \cup {NO_KEY}, p \in Nat, l \in Nat :
        slot = [flags |-> f, key |-> k, packets |-> p, last_update |-> l]
  BY DEF SlotRecords
<1> DEFINE counted == [slot EXCEPT !.packets = slot.packets + 1]
<1>2. counted = [flags |-> f, key |-> k, packets |-> p + 1, last_update |-> l]
  BY <1>1
<1>3. slot.flags = f /\ slot.key = k /\ slot.packets = p
  BY <1>1
<1>4. [counted EXCEPT !.last_update = n] = [flags |-> f, key |-> k, packets |-> p + 1, last_update |-> n]
  <2> HIDE DEF counted
  <2> QED
    BY <1>2
<1> QED
  BY <1>3, <1>4

LEMMA HitKeeps ==
    ASSUME TableInv, NEW k \in Keys, Hit(k)
    PROVE  TableInv'
<1> DEFINE i == First(k, Matches(k))
           r == [flags |-> "OCCUPIED", key |-> k, packets |-> slots[i].packets + 1, last_update |-> tick]
<1>1. Matches(k) \in SUBSET Slots /\ Matches(k) # {} /\ Matches(k) \subseteq Holding(k)
  BY DEF Hit, Matches, Probed
<1>2. i \in Slots /\ i \in OccupiedIn(slots) /\ slots[i].flags = "OCCUPIED" /\ slots[i].key = k
  <2>1. i \in Holding(k) /\ i \in Slots
    BY <1>1, FirstFacts
  <2> QED
    BY <2>1 DEF Holding, Occupied, OccupiedIn
<1>3. slots \in [Slots -> SlotRecords] /\ tick \in Nat
  BY DEF TableInv, TypeOK
<1>4. slots[i] \in SlotRecords
  BY <1>2, <1>3
<1>5. r \in SlotRecords /\ CountOf(r) = CountOf(slots[i]) + 1 /\ CountOf(slots[i]) \in Int
  BY <1>2, <1>3, <1>4 DEF SlotRecords, CountOf
<1>6. slots' = [slots EXCEPT ![i] = r]
  <2>1. slots' = [slots EXCEPT ![i].packets = @ + 1, ![i].last_update = tick]
    BY DEF Hit
  <2>2. [[slots[i] EXCEPT !.packets = @ + 1] EXCEPT !.last_update = tick] = r
    BY <1>2, <1>3, <1>4, CountedSlot
  <2> HIDE DEF i, r
  <2> QED
    BY <1>2, <1>3, <2>1, <2>2
<1>7. r.flags = "OCCUPIED" /\ r.key = k
  OBVIOUS
<1>8. /\ key_arena_used' = key_arena_used /\ insert_failed' = insert_failed /\ table_full' = table_full
      /\ occupied_count' = occupied_count /\ tick' = tick /\ evicted' = evicted /\ updates' = updates + 1
  BY DEF Hit, Offer
<1> HIDE DEF i, r
<1>9. /\ Wrote(slots, slots', i, r) /\ Total(InTable(slots')) = Total(InTable(slots)) + 1
      /\ Total(InTable(slots)) \in Int /\ OccupiedIn(slots') = OccupiedIn(slots)
  <2>1. OccupiedIn(slots) \cup {i} = OccupiedIn(slots)
    BY <1>2
  <2>2. /\ Wrote(slots, slots', i, r) /\ Total(InTable(slots)) \in Int
        /\ Total(InTable(slots')) = Total(InTable(slots)) + (CountOf(r) - CountOf(slots[i]))
    BY <1>2, <1>5, <1>6, WroteSlot
  <2>3. OccupiedIn(slots') = OccupiedIn(slots) \cup {i}
    BY <1>2, <1>5, <1>6, <1>7, WroteSlot
  <2> QED
    BY <1>5, <2>1, <2>2, <2>3
<1>10. TypeOK'
  BY <1>8, <1>9 DEF TableInv, TypeOK, Wrote
<1>11. \A j \in Slots : slots'[j].key = slots[j].key /\ slots'[j].flags = slots[j].flags
  BY <1>2, <1>7, <1>9 DEF Wrote
<1>12. OccupiedIn(slots) \subseteq Slots
  BY OccupiedFinite
<1>13. KeysApart'
  BY <1>9, <1>11, <1>12 DEF TableInv, KeysApart
<1>14. Reachable'
  BY <1>8, <1>9, <1>11, <1>12 DEF TableInv, Reachable, ArenaHasRoom, Distance, Home
<1>15. Balanced'
  BY <1>8, <1>9 DEF TableInv, TypeOK, Balanced
<1> QED
  BY <1>8, <1>9, <1>10, <1>13, <1>14, <1>15 DEF TableInv

(* Filling a slot, whether it was FREE or a victim's, with a key no other  *)
(* slot holds.                                                             *)
Fills(k, i) ==
    /\ ArenaHasRoom
    /\ slots' = [slots EXCEPT ![i] = Filled(k)]
    /\ \A j \in OccupiedIn(slots) : slots[j].key # k
    /\ \A j \in Slots : slots[j].flags = "FREE" => Distance(k, i) <= Distance(k, j)
    /\ key_arena_used' = key_arena_used + KEY_LEN

LEMMA FillKeeps ==
    ASSUME TableInv, NEW k \in Keys, NEW i \in Slots, Fills(k, i)
    PROVE  /\ slots' \in [Slots -> SlotRecords] /\ KeysApart' /\ Reachable'
           /\ OccupiedIn(slots') = OccupiedIn(slots) \cup {i}
           /\ Total(InTable(slots')) = Total(InTable(slots)) + (1 - CountOf(slots[i]))
           /\ Total(InTable(slots)) \in Int
<1> USE DEF Fills
<1>1. tick \in Nat /\ key_arena_used \in Nat
  BY DEF TableInv, TypeOK
<1>2. Filled(k) \in SlotRecords /\ CountOf(Filled(k)) = 1 /\ Filled(k).flags = "OCCUPIED" /\ Filled(k).key = k
  BY <1>1 DEF Filled, SlotRecords, CountOf
<1>3. /\ Wrote(slots, slots', i, Filled(k)) /\ Total(InTable(slots)) \in Int
      /\ Total(InTable(slots')) = Total(InTable(slots)) + (1 - CountOf(slots[i]))
      /\ OccupiedIn(slots') = OccupiedIn(slots) \cup {i}
  BY <1>2, WroteSlot
<1>4. /\ slots' \in [Slots -> SlotRecords] /\ slots'[i].flags = "OCCUPIED" /\ slots'[i].key = k
      /\ \A j \in Slots : j # i => slots'[j] = slots[j]
  BY <1>2, <1>3 DEF Wrote
<1>5. OccupiedIn(slots) \subseteq Slots
  BY OccupiedFinite
<1>6. KeysApart'
  <2>1. \A j \in OccupiedIn(slots') :
           \/ j = i
           \/ j # i /\ j \in OccupiedIn(slots) /\ slots'[j] = slots[j]
    BY <1>3, <1>4, <1>5
  <2>2. \A j \in OccupiedIn(slots) : slots[j].key \in Keys /\ slots[j].key # k
    BY DEF TableInv, KeysApart
  <2>3. ASSUME NEW j \in OccupiedIn(slots') PROVE slots'[j].key \in Keys
    BY <1>4, <2>1, <2>2
  <2>4. ASSUME NEW j \in OccupiedIn(slots'), NEW l \in OccupiedIn(slots'), slots'[j].key = slots'[l].key
        PROVE  j = l
    <3>1. CASE j = i
      BY <1>4, <2>1, <2>2, <2>4, <3>1
    <3>2. CASE l = i
      BY <1>4, <2>1, <2>2, <2>4, <3>2
    <3>3. CASE j # i /\ l # i
      <4>1. /\ j \in OccupiedIn(slots) /\ l \in OccupiedIn(slots)
            /\ slots[j].key = slots[l].key
        BY <2>1, <2>4, <3>3
      <4> QED
        BY <4>1 DEF TableInv, KeysApart
    <3> QED
      BY <3>1, <3>2, <3>3
  <2> QED
    BY <2>3, <2>4 DEF KeysApart
<1>7. Reachable'
  <2>1. SUFFICES ASSUME NEW j \in OccupiedIn(slots'), NEW f \in Slots, slots'[f].flags = "FREE"
                 PROVE  Distance(slots'[j].key, j) <= Distance(slots'[j].key, f)
    BY DEF Reachable, Distance, Home
  <2>2. f # i /\ slots[f].flags = "FREE"
    BY <1>4, <2>1
  <2>3. CASE j = i
    BY <1>4, <2>2, <2>3
  <2>4. CASE j # i
    <3>1. j \in OccupiedIn(slots) /\ slots'[j] = slots[j]
      BY <1>3, <1>4, <1>5, <2>4
    <3> QED
      BY <2>2, <3>1 DEF TableInv, Reachable
  <2> QED
    BY <2>3, <2>4
<1> QED
  BY <1>3, <1>4, <1>6, <1>7

(* Giving a slot back when the arena has no room, now or ever again.       *)
GivesBack(i) ==
    /\ ~ArenaHasRoom
    /\ slots' = [slots EXCEPT ![i] = GivenBack(@)]
    /\ key_arena_used' = key_arena_used

LEMMA GiveBackKeeps ==
    ASSUME TableInv, NEW i \in Slots, GivesBack(i)
    PROVE  /\ slots' \in [Slots -> SlotRecords] /\ KeysApart' /\ Reachable'
           /\ OccupiedIn(slots') = OccupiedIn(slots) \ {i}
           /\ Total(InTable(slots')) = Total(InTable(slots)) - CountOf(slots[i])
           /\ Total(InTable(slots)) \in Int
<1> DEFINE r == GivenBack(slots[i])
<1> USE DEF GivesBack
<1>1. slots[i] \in SlotRecords
  BY DEF TableInv, TypeOK
<1>2. r \in SlotRecords /\ r.flags = "FREE"
  BY <1>1 DEF GivenBack, SlotRecords
<1>3. CountOf(r) = 0 /\ CountOf(slots[i]) \in Int
  BY <1>1, <1>2 DEF CountOf, SlotRecords
<1>4. slots' = [slots EXCEPT ![i] = r]
  BY DEF TableInv, TypeOK
<1> HIDE DEF r
<1>5. /\ Wrote(slots, slots', i, r) /\ Total(InTable(slots)) \in Int
      /\ Total(InTable(slots')) = Total(InTable(slots)) + (CountOf(r) - CountOf(slots[i]))
  BY <1>2, <1>4, WroteSlot
<1>6. OccupiedIn(slots') = OccupiedIn(slots) \ {i}
  BY <1>2, <1>4, WroteSlot
<1>7. Total(InTable(slots')) = Total(InTable(slots)) - CountOf(slots[i])
  BY <1>3, <1>5
<1>8. slots' \in [Slots -> SlotRecords] /\ \A j \in Slots : j # i => slots'[j] = slots[j]
  BY <1>5 DEF Wrote
<1>9. OccupiedIn(slots) \subseteq Slots
  BY OccupiedFinite
<1>10. \A j \in OccupiedIn(slots') : j \in OccupiedIn(slots) /\ slots'[j] = slots[j]
  BY <1>6, <1>8, <1>9
<1>11. KeysApart'
  BY <1>10 DEF TableInv, KeysApart
<1>12. Reachable'
  BY DEF Reachable, ArenaHasRoom
<1> QED
  BY <1>5, <1>6, <1>7, <1>8, <1>11, <1>12

LEMMA InsertKeeps ==
    ASSUME TableInv, NEW k \in Keys, Insert(k)
    PROVE  TableInv'
<1> DEFINE i == First(k, Reusable(k))
<1>1. Reusable(k) \in SUBSET Slots /\ Reusable(k) # {}
  BY DEF Insert, Reusable, Probed
<1>2. i \in Slots /\ i \in Reusable(k)
  BY <1>1, FirstFacts
<1>3. slots[i].flags = "FREE" /\ i \notin OccupiedIn(slots) /\ CountOf(slots[i]) = 0
  BY <1>2, FreeOrOccupied DEF TableInv, Reusable, OccupiedIn, CountOf
<1>4. \A j \in Slots : slots[j].flags = "FREE" => Distance(k, i) <= Distance(k, j)
  BY <1>2 DEF Reusable, Probed
<1>5. /\ Matches(k) = {} /\ ArenaHasRoom /\ slots' = [slots EXCEPT ![i] = Filled(k)]
      /\ key_arena_used' = key_arena_used + KEY_LEN /\ occupied_count' = occupied_count + 1
      /\ insert_failed' = insert_failed /\ table_full' = table_full /\ tick' = tick
      /\ evicted' = evicted /\ updates' = updates + 1
  BY DEF Insert, Offer
<1> HIDE DEF i
<1>6. \A j \in OccupiedIn(slots) : slots[j].key # k
  BY <1>5, NotFound
<1>7. /\ slots' \in [Slots -> SlotRecords] /\ KeysApart' /\ Reachable'
      /\ OccupiedIn(slots') = OccupiedIn(slots) \cup {i}
      /\ Total(InTable(slots')) = Total(InTable(slots)) + 1 /\ Total(InTable(slots)) \in Int
  <2>1. /\ slots' \in [Slots -> SlotRecords] /\ KeysApart' /\ Reachable'
        /\ OccupiedIn(slots') = OccupiedIn(slots) \cup {i} /\ Total(InTable(slots)) \in Int
        /\ Total(InTable(slots')) = Total(InTable(slots)) + (1 - CountOf(slots[i]))
    <3>1. Fills(k, i)
      BY <1>4, <1>5, <1>6 DEF Fills
    <3>2. i \in Slots
      BY <1>2
    <3> QED
      BY <3>1, <3>2, FillKeeps
  <2> QED
    BY <1>3, <2>1
<1>8. Cardinality(OccupiedIn(slots')) = Cardinality(OccupiedIn(slots)) + 1
  <2>1. IsFiniteSet(OccupiedIn(slots))
    BY OccupiedFinite
  <2>2. Cardinality(OccupiedIn(slots) \cup {i}) = Cardinality(OccupiedIn(slots)) + 1
    BY <1>3, <2>1, FS_AddElement
  <2> QED
    BY <1>7, <2>2
<1>9. TypeOK'
  BY <1>5, <1>7, ArenaType DEF TableInv, TypeOK
<1>10. Balanced'
  BY <1>5, <1>7 DEF TableInv, TypeOK, Balanced
<1> QED
  BY <1>5, <1>7, <1>8, <1>9, <1>10 DEF TableInv

LEMMA InsertNoArenaKeeps ==
    ASSUME TableInv, NEW k \in Keys, InsertNoArena(k)
    PROVE  TableInv'
<1> DEFINE i == First(k, Reusable(k))
<1>1. Reusable(k) \in SUBSET Slots /\ Reusable(k) # {}
  BY DEF InsertNoArena, Reusable, Probed
<1>2. i \in Slots /\ i \in Reusable(k)
  BY <1>1, FirstFacts
<1>3. i \notin OccupiedIn(slots) /\ CountOf(slots[i]) = 0
  BY <1>2, FreeOrOccupied DEF TableInv, Reusable, OccupiedIn, CountOf
<1>4. /\ ~ArenaHasRoom /\ slots' = [slots EXCEPT ![i] = GivenBack(@)]
      /\ key_arena_used' = key_arena_used /\ occupied_count' = occupied_count
      /\ insert_failed' = insert_failed + 1 /\ table_full' = table_full /\ tick' = tick
      /\ evicted' = evicted /\ updates' = updates + 1
  BY DEF InsertNoArena, Offer
<1> HIDE DEF i
<1>5. /\ slots' \in [Slots -> SlotRecords] /\ KeysApart' /\ Reachable'
      /\ OccupiedIn(slots') = OccupiedIn(slots) \ {i} /\ Total(InTable(slots)) \in Int
      /\ Total(InTable(slots')) = Total(InTable(slots)) - 0
  <2>1. GivesBack(i)
    BY <1>4 DEF GivesBack
  <2>2. /\ slots' \in [Slots -> SlotRecords] /\ KeysApart' /\ Reachable'
        /\ OccupiedIn(slots') = OccupiedIn(slots) \ {i} /\ Total(InTable(slots)) \in Int
        /\ Total(InTable(slots')) = Total(InTable(slots)) - CountOf(slots[i])
    BY <1>2, <2>1, GiveBackKeeps
  <2> QED
    BY <1>3, <2>2
<1>6. OccupiedIn(slots') = OccupiedIn(slots)
  BY <1>3, <1>5
<1>7. TypeOK'
  BY <1>4, <1>5 DEF TableInv, TypeOK
<1>8. Balanced'
  BY <1>4, <1>5 DEF TableInv, TypeOK, Balanced
<1> QED
  BY <1>4, <1>5, <1>6, <1>7, <1>8 DEF TableInv

(* The victim's packets are the ones added to evicted.                     *)
LEMMA VictimCount ==
    ASSUME TableInv, NEW k \in Keys, Reusable(k) = {}
    PROVE  /\ Victim(k) \in Slots /\ Victim(k) \in OccupiedIn(slots)
           /\ CountOf(slots[Victim(k)]) = slots[Victim(k)].packets
           /\ slots[Victim(k)].packets \in Nat
<1>1. Victim(k) \in Slots /\ Victim(k) \in OccupiedIn(slots)
  BY VictimFacts DEF TableInv
<1>2. slots[Victim(k)] \in SlotRecords /\ slots[Victim(k)].flags = "OCCUPIED"
  BY <1>1 DEF TableInv, TypeOK, OccupiedIn
<1> QED
  BY <1>1, <1>2 DEF CountOf, SlotRecords

LEMMA EvictAndInsertKeeps ==
    ASSUME TableInv, NEW k \in Keys, EvictAndInsert(k)
    PROVE  TableInv'
<1> DEFINE i == Victim(k)
<1>1. /\ Matches(k) = {} /\ Reusable(k) = {} /\ ArenaHasRoom /\ slots' = [slots EXCEPT ![i] = Filled(k)]
      /\ key_arena_used' = key_arena_used + KEY_LEN /\ occupied_count' = occupied_count
      /\ insert_failed' = insert_failed /\ table_full' = table_full + 1 /\ tick' = tick
      /\ evicted' = evicted + slots[i].packets /\ updates' = updates + 1
  BY DEF EvictAndInsert, Offer
<1>2. /\ i \in Slots /\ i \in OccupiedIn(slots)
      /\ CountOf(slots[i]) = slots[i].packets /\ slots[i].packets \in Nat
  BY <1>1, VictimCount
<1>3. \A j \in Slots : slots[j].flags # "FREE"
  BY <1>1, FullTable DEF TableInv, OccupiedIn
<1> HIDE DEF i
<1>4. \A j \in OccupiedIn(slots) : slots[j].key # k
  BY <1>1, NotFound
<1>5. /\ slots' \in [Slots -> SlotRecords] /\ KeysApart' /\ Reachable'
      /\ OccupiedIn(slots') = OccupiedIn(slots) \cup {i} /\ Total(InTable(slots)) \in Int
      /\ Total(InTable(slots')) = Total(InTable(slots)) + (1 - slots[i].packets)
  <2>1. \A j \in Slots : slots[j].flags = "FREE" => Distance(k, i) <= Distance(k, j)
    BY <1>3
  <2>2. i \in Slots /\ CountOf(slots[i]) = slots[i].packets
    BY <1>2
  <2>3. Fills(k, i)
    BY <1>1, <1>4, <2>1 DEF Fills
  <2>4. /\ slots' \in [Slots -> SlotRecords] /\ KeysApart' /\ Reachable'
        /\ OccupiedIn(slots') = OccupiedIn(slots) \cup {i} /\ Total(InTable(slots)) \in Int
        /\ Total(InTable(slots')) = Total(InTable(slots)) + (1 - CountOf(slots[i]))
    BY <2>2, <2>3, FillKeeps
  <2> QED
    BY <2>2, <2>4
<1>6. OccupiedIn(slots') = OccupiedIn(slots)
  BY <1>2, <1>5
<1>7. TypeOK'
  BY <1>1, <1>2, <1>5, ArenaType DEF TableInv, TypeOK
<1>8. Balanced'
  BY <1>1, <1>2, <1>5 DEF TableInv, TypeOK, Balanced
<1> QED
  BY <1>1, <1>5, <1>6, <1>7, <1>8 DEF TableInv

LEMMA EvictNoArenaKeeps ==
    ASSUME TableInv, NEW k \in Keys, EvictNoArena(k)
    PROVE  TableInv'
<1> DEFINE i == Victim(k)
<1>1. /\ Reusable(k) = {} /\ ~ArenaHasRoom /\ slots' = [slots EXCEPT ![i] = GivenBack(@)]
      /\ key_arena_used' = key_arena_used /\ occupied_count' = occupied_count - 1
      /\ insert_failed' = insert_failed + 1 /\ table_full' = table_full + 1 /\ tick' = tick
      /\ evicted' = evicted + slots[i].packets /\ updates' = updates + 1
  BY DEF EvictNoArena, Offer
<1>2. /\ i \in Slots /\ i \in OccupiedIn(slots)
      /\ CountOf(slots[i]) = slots[i].packets /\ slots[i].packets \in Nat
  BY <1>1, VictimCount
<1> HIDE DEF i
<1>3. /\ slots' \in [Slots -> SlotRecords] /\ KeysApart' /\ Reachable'
      /\ OccupiedIn(slots') = OccupiedIn(slots) \ {i} /\ Total(InTable(slots)) \in Int
      /\ Total(InTable(slots')) = Total(InTable(slots)) - slots[i].packets
  <2>1. GivesBack(i)
    BY <1>1 DEF GivesBack
  <2>2. i \in Slots /\ CountOf(slots[i]) = slots[i].packets
    BY <1>2
  <2>3. /\ slots' \in [Slots -> SlotRecords] /\ KeysApart' /\ Reachable'
        /\ OccupiedIn(slots') = OccupiedIn(slots) \ {i} /\ Total(InTable(slots)) \in Int
        /\ Total(InTable(slots')) = Total(InTable(slots)) - CountOf(slots[i])
    BY <2>1, <2>2, GiveBackKeeps
  <2> QED
    BY <2>2, <2>3
<1>4. Cardinality(OccupiedIn(slots')) = Cardinality(OccupiedIn(slots)) - 1
  <2>1. IsFiniteSet(OccupiedIn(slots))
    BY OccupiedFinite
  <2>2. Cardinality(OccupiedIn(slots) \ {i}) = Cardinality(OccupiedIn(slots)) - 1
    BY <1>2, <2>1, FS_RemoveElement
  <2> QED
    BY <1>3, <2>2
<1>5. TypeOK'
  BY <1>1, <1>2, <1>3 DEF TableInv, TypeOK
<1>6. Balanced'
  BY <1>1, <1>2, <1>3 DEF TableInv, TypeOK, Balanced
<1> QED
  BY <1>1, <1>3, <1>4, <1>5, <1>6 DEF TableInv

-----------------------------------------------------------------------------
(* The invariant.                                                          *)

LEMMA TableInit ==
    ASSUME Init
    PROVE  TableInv
<1>1. /\ slots = [i \in Slots |-> Free] /\ key_arena_used = 0 /\ insert_failed = 0 /\ table_full = 0
      /\ occupied_count = 0 /\ tick = 0 /\ updates = 0 /\ evicted = 0
  BY DEF Init
<1>2. Free \in SlotRecords /\ Free.flags = "FREE"
  BY DEF Free, SlotRecords
<1>3. slots \in [Slots -> SlotRecords] /\ OccupiedIn(slots) = {}
  BY <1>1, <1>2 DEF OccupiedIn
<1>4. Total(InTable(slots)) = 0
  <2> DEFINE a == InTable(slots)
  <2>1. /\ a \in Seq(Int) /\ Len(a) = NumSlots /\ NumSlots \in Nat
    BY <1>3, InTableType, NumSlotsType
  <2>2. ASSUME NEW n \in 1..NumSlots PROVE a[n] = 0
    <3>1. n - 1 \in Slots
      BY <2>1 DEF Slots
    <3>2. slots[n - 1].flags = "FREE"
      BY <1>1, <1>2, <3>1
    <3> QED
      BY <3>2 DEF InTable, CountOf
  <2> HIDE DEF a
  <2>3. Total(a) = 0
    BY <2>1, <2>2, TotalZero
  <2> QED
    BY <2>3 DEF a
<1>5. Cardinality({}) = 0
  BY FS_EmptySet
<1>6. TypeOK
  BY <1>1, <1>3 DEF TypeOK
<1>7. KeysApart /\ Reachable
  BY <1>3 DEF KeysApart, Reachable
<1>8. Balanced
  BY <1>1, <1>4 DEF Balanced
<1>9. Cardinality(OccupiedIn(slots)) = 0
  BY <1>3, <1>5
<1> QED
  BY <1>1, <1>6, <1>7, <1>8, <1>9 DEF TableInv

LEMMA TableStep ==
    ASSUME TableInv, [Next]_vars
    PROVE  TableInv'
<1>1. ASSUME NEW k \in Keys, Hit(k) PROVE TableInv'
  BY <1>1, HitKeeps
<1>2. ASSUME NEW k \in Keys, Insert(k) PROVE TableInv'
  BY <1>2, InsertKeeps
<1>3. ASSUME NEW k \in Keys, InsertNoArena(k) PROVE TableInv'
  BY <1>3, InsertNoArenaKeeps
<1>4. ASSUME NEW k \in Keys, EvictAndInsert(k) PROVE TableInv'
  BY <1>4, EvictAndInsertKeeps
<1>5. ASSUME NEW k \in Keys, EvictNoArena(k) PROVE TableInv'
  BY <1>5, EvictNoArenaKeeps
<1>6. CASE NextFrame \/ UNCHANGED vars
  <2>1. /\ slots' = slots /\ key_arena_used' = key_arena_used /\ insert_failed' = insert_failed
        /\ table_full' = table_full /\ occupied_count' = occupied_count /\ updates' = updates
        /\ evicted' = evicted
    BY <1>6 DEF NextFrame, vars
  <2>2. tick' \in Nat
    BY <1>6 DEF NextFrame, vars, TableInv, TypeOK
  <2>3. TypeOK'
    BY <2>1, <2>2 DEF TableInv, TypeOK
  <2>4. KeysApart' /\ Balanced'
    BY <2>1 DEF TableInv, KeysApart, Balanced
  <2>5. Reachable'
    BY <2>1 DEF TableInv, Reachable, ArenaHasRoom, Distance, Home
  <2> QED
    BY <2>1, <2>3, <2>4, <2>5 DEF TableInv
<1> QED
  BY <1>1, <1>2, <1>3, <1>4, <1>5, <1>6 DEF Next

LEMMA TableInvariance == Spec => []TableInv
<1>1. Init => TableInv
  BY TableInit
<1>2. TableInv /\ [Next]_vars => TableInv'
  BY TableStep
<1> QED
  BY <1>1, <1>2, PTL DEF Spec

-----------------------------------------------------------------------------

(* No flow is in two slots: keys that collide, wrap around, replace one    *)
(* another or are cut off behind a slot given back are never stored twice. *)
THEOREM OneSlotPerKeyCorrect == Spec => []OneSlotPerKey
<1>1. ASSUME TableInv PROVE OneSlotPerKey
  <2>1. SUFFICES ASSUME NEW k \in Keys PROVE Cardinality(Holding(k)) <= 1
    BY DEF OneSlotPerKey
  <2>2. \A i, j \in Holding(k) : i = j
    BY <1>1 DEF TableInv, KeysApart, OccupiedIn, Holding, Occupied
  <2>3. CASE Holding(k) = {}
    <3>1. Cardinality({}) = 0
      BY FS_EmptySet
    <3> QED
      BY <2>3, <3>1
  <2>4. ASSUME NEW i \in Holding(k) PROVE Cardinality(Holding(k)) <= 1
    <3>1. Holding(k) = {i}
      BY <2>2
    <3>2. Cardinality({i}) = 1
      BY FS_Singleton
    <3> QED
      BY <3>1, <3>2
  <2> QED
    BY <2>3, <2>4
<1>2. TableInv => OneSlotPerKey
  BY <1>1
<1> QED
  BY <1>2, TableInvariance, PTL

(* Every packet passed to infmon_counter_table_update is in a slot, was    *)
(* lost with an evicted flow, or is in insert_failed.                      *)
THEOREM PacketsConservedCorrect == Spec => []PacketsConserved
<1>1. ASSUME TableInv PROVE PacketsConserved
  <2> DEFINE counts == [n \in 1..NumSlots |-> IF n - 1 \in Occupied THEN slots[n - 1].packets ELSE 0]
  <2>1. ASSUME NEW n \in 1..NumSlots
        PROVE  (IF n - 1 \in Occupied THEN slots[n - 1].packets ELSE 0) = CountOf(slots[n - 1])
    <3>1. n - 1 \in Slots
      BY NumSlotsType DEF Slots
    <3> QED
      BY <3>1 DEF Occupied, CountOf
  <2>2. counts = InTable(slots)
    BY <2>1 DEF InTable
  <2> HIDE DEF counts
  <2>3. updates = Total(counts) + evicted + insert_failed
    BY <1>1, <2>2 DEF TableInv, Balanced
  <2> QED
    BY <2>3 DEF PacketsConserved, counts
<1>2. TableInv => PacketsConserved
  BY <1>1
<1> QED
  BY <1>2, TableInvariance, PTL

OccupiedCountExact == occupied_count = Cardinality(Occupied)

(* occupied_count, added to on insertion and subtracted from on eviction,  *)
(* is the number of occupied slots however an update ends.                 *)
THEOREM OccupiedCountExactCorrect == Spec => []OccupiedCountExact
<1>1. ASSUME TableInv PROVE OccupiedCountExact
  <2>1. Occupied = OccupiedIn(slots)
    BY DEF Occupied, OccupiedIn
  <2> QED
    BY <1>1, <2>1 DEF TableInv, OccupiedCountExact
<1>2. TableInv => OccupiedCountExact
  BY <1>1
<1> QED
  BY <1>2, TableInvariance, PTL

Dropped(i) == slots[i].key \notin {slots'[j].key : j \in OccupiedIn(slots')}

(* Only an eviction drops a flow, and only its victim.                     *)
LEMMA OnlyVictimDropped ==
    ASSUME TableInv, [Next]_vars, NEW i \in OccupiedIn(slots), Dropped(i)
    PROVE  \E k \in Keys : Matches(k) = {} /\ Reusable(k) = {} /\ i = Victim(k) /\ latest' = k
<1>1. /\ slots \in [Slots -> SlotRecords] /\ i \in Slots /\ slots[i].flags = "OCCUPIED"
  BY DEF TableInv, TypeOK, OccupiedIn
<1>2. ~ (slots'[i].flags = "OCCUPIED" /\ slots'[i].key = slots[i].key)
  BY <1>1 DEF Dropped, OccupiedIn
<1>3. ASSUME NEW k \in Keys, EvictAndInsert(k) \/ EvictNoArena(k)
      PROVE  Matches(k) = {} /\ Reusable(k) = {} /\ i = Victim(k) /\ latest' = k
  <2>1. Matches(k) = {} /\ Reusable(k) = {} /\ latest' = k
    BY <1>3 DEF EvictAndInsert, EvictNoArena, Offer
  <2>2. \A j \in Slots : j # Victim(k) => slots'[j] = slots[j]
    BY <1>1, <1>3 DEF EvictAndInsert, EvictNoArena
  <2> QED
    BY <1>1, <1>2, <2>1, <2>2
<1>4. ASSUME NEW k \in Keys, Hit(k) PROVE FALSE
  BY <1>1, <1>2, <1>4 DEF Hit
<1>5. ASSUME NEW k \in Keys, Insert(k) \/ InsertNoArena(k) PROVE FALSE
  <2> DEFINE f == First(k, Reusable(k))
  <2>1. Reusable(k) \in SUBSET Slots /\ Reusable(k) # {}
    BY <1>5 DEF Insert, InsertNoArena, Reusable, Probed
  <2>2. f \in Reusable(k)
    BY <2>1, FirstFacts
  <2>3. f # i
    BY <1>1, <2>2 DEF Reusable
  <2>4. slots'[i] = slots[i]
    BY <1>1, <1>5, <2>3 DEF Insert, InsertNoArena
  <2> QED
    BY <1>1, <1>2, <2>4
<1>6. CASE NextFrame \/ UNCHANGED vars
  BY <1>1, <1>2, <1>6 DEF NextFrame, vars
<1> QED
  BY <1>3, <1>4, <1>5, <1>6 DEF Next

(* A flow is dropped only when every slot holds another key, and it is the *)
(* least recently updated one of the window (spec 002 6, lru_drop).        *)
THEOREM EvictionIsLastResortCorrect == Spec => EvictionIsLastResort
<1> DEFINE A == \A i \in Occupied :
                  slots[i].key \notin {slots'[j].key : j \in Occupied'}
                  => /\ Occupied = Slots /\ latest' \notin {slots[j].key : j \in Occupied}
                     /\ \A j \in Window(latest') : slots[i].last_update <= slots[j].last_update
<1>1. ASSUME TableInv, [Next]_vars PROVE A
  <2>1. Occupied = OccupiedIn(slots) /\ Occupied' = OccupiedIn(slots')
    BY DEF Occupied, OccupiedIn
  <2>2. SUFFICES ASSUME NEW i \in OccupiedIn(slots), Dropped(i)
                 PROVE  /\ OccupiedIn(slots) = Slots
                        /\ \A j \in OccupiedIn(slots) : latest' # slots[j].key
                        /\ \A j \in Window(latest') : slots[i].last_update <= slots[j].last_update
    BY <2>1 DEF Dropped
  <2>3. PICK k \in Keys : Matches(k) = {} /\ Reusable(k) = {} /\ i = Victim(k) /\ latest' = k
    BY <1>1, <2>2, OnlyVictimDropped
  <2>4. OccupiedIn(slots) = Slots
    BY <1>1, <2>3, FullTable DEF TableInv
  <2>5. \A j \in OccupiedIn(slots) : slots[j].key # k
    BY <1>1, <2>3, NotFound
  <2>6. \A j \in Window(k) : slots[i].last_update <= slots[j].last_update
    BY <1>1, <2>3, VictimFacts DEF TableInv
  <2> QED
    BY <2>3, <2>4, <2>5, <2>6
<1>2. TableInv /\ [Next]_vars => A
  BY <1>1
<1>3. TableInv /\ [Next]_vars => [A]_vars
  BY <1>2
<1> HIDE DEF A
<1>4. Spec => [][A]_vars
  BY <1>3, TableInvariance, PTL DEF Spec
<1> QED
  BY <1>4 DEF A, EvictionIsLastResort
=============================================================================
