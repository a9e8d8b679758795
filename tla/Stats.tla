------------------------------- MODULE Stats -------------------------------
(***************************************************************************)
(* What the poller takes from the backend and what becomes of it           *)
(* (vapi_stats_client.rs, poller.rs): list the rules, swap out and stream  *)
(* each rule's per-worker tables, merge the workers' entries, decode the   *)
(* keys, publish a snapshot.  Packets, rule changes and failures fall      *)
(* between any two of the calls.                                           *)
(*                                                                         *)
(* The backend's part is what its handlers do to the counters (ApiHandler, *)
(* Snapshot and CounterTable have the rest); rule ids are never reused.    *)
(* Byte counters move with the packet counters and are left out.           *)
(***************************************************************************)
EXTENDS Integers, SequencesExt, KeyDecode, Sums

CONSTANTS
    Rules,          \* flow rule ids
    Keys,           \* encoded keys, sequences of bytes
    WORKERS,        \* worker threads, each with a table per rule
    MAX_PACKETS,    \* bound: packets that match a rule
    MAX_TICKS       \* bound: snapshots asked for

ASSUME StatsAssumption ==
    /\ \A key \in Keys : Len(key) > 0
    /\ WORKERS \in Nat \ {0} /\ MAX_PACKETS \in Nat /\ MAX_TICKS \in Nat

Workers == 1..WORKERS
Sum(f) ==
    LET s == SetToSeq(DOMAIN f)
    IN Total([i \in DOMAIN s |-> f[s[i]]])

VARIABLES
    installed,  \* the rules the backend has, in its order
    removed,    \* the ones it had
    table,      \* table[r][w]: packets by key
    missed,     \* missed[r][w]: insert_failed
    poller,     \* "idle", or "dumping" the rules of todo
    todo,
    raw,        \* the descriptors of this snapshot so far
    ticks,
    published,  \* the snapshot handed to the exporters and the control server
    seen,       \* history: packets counted for a rule
    handed,     \* history: packets in the snapshots taken
    shown,      \* history: packets in the flows published
    gone        \* history: packets lost with a rule or with a failed call

counters == <<table, missed>>
vars == <<installed, removed, counters, poller, todo, raw, ticks, published,
          seen, handed, shown, gone>>

EmptyTable == [k \in {} |-> 0]
EmptyTables == [w \in Workers |-> EmptyTable]
Nothing == [w \in Workers |-> 0]

Init ==
    /\ installed = << >> /\ removed = {}
    /\ table = [r \in Rules |-> EmptyTables] /\ missed = [r \in Rules |-> Nothing]
    /\ poller = "idle" /\ todo = << >> /\ raw = << >> /\ ticks = 0
    /\ published = << >>
    /\ seen = [r \in Rules |-> 0] /\ handed = seen /\ shown = seen /\ gone = seen

Tabled(r) == Total([w \in Workers |-> Sum(table[r][w])])

\* packets more of the key k
Added(t, k, packets) ==
    [key \in DOMAIN t \cup {k} |->
        (IF key \in DOMAIN t THEN t[key] ELSE 0) + IF key = k THEN packets ELSE 0]

(***************************************************************************)
(* The data plane and the control client, beside the poller.               *)
(***************************************************************************)
Count(r, w, k) ==
    /\ r \in ToSet(installed) /\ Sum(seen) < MAX_PACKETS
    /\ table' = [table EXCEPT ![r][w] = Added(@, k, 1)]
    /\ seen' = [seen EXCEPT ![r] = @ + 1]
    /\ UNCHANGED <<installed, removed, missed, poller, todo, raw, ticks, published,
                   handed, shown, gone>>

\* no room for the packet's key
Miss(r, w) ==
    /\ r \in ToSet(installed) /\ DOMAIN table[r][w] # {} /\ missed[r][w] = 0
    /\ missed' = [missed EXCEPT ![r][w] = @ + 1]
    /\ UNCHANGED <<installed, removed, table, poller, todo, raw, ticks, published,
                   seen, handed, shown, gone>>

AddRule(r) ==
    /\ r \notin ToSet(installed) \cup removed
    /\ installed' = Append(installed, r)
    /\ UNCHANGED <<removed, counters, poller, todo, raw, ticks, published,
                   seen, handed, shown, gone>>

\* A rule takes its tables with it.
RemoveRule(r) ==
    /\ \E i \in DOMAIN installed : installed[i] = r /\ installed' = RemoveAt(installed, i)
    /\ removed' = removed \cup {r}
    /\ gone' = [gone EXCEPT ![r] = @ + Tabled(r)]
    /\ table' = [table EXCEPT ![r] = EmptyTables]
    /\ missed' = [missed EXCEPT ![r] = Nothing]
    /\ UNCHANGED <<poller, todo, raw, ticks, published, seen, handed, shown>>

(***************************************************************************)
(* snapshot_and_clear.                                                     *)
(***************************************************************************)
\* list_flow_rules; when it fails nothing was taken and the client reconnects
List ==
    /\ poller = "idle" /\ ticks < MAX_TICKS
    /\ ticks' = ticks + 1
    /\ \/ poller' = "dumping" /\ todo' = installed
       \/ UNCHANGED <<poller, todo>>
    /\ UNCHANGED <<installed, removed, counters, raw, published, seen, handed, shown, gone>>

\* The messages of a dump: the workers' tables one after the other.
Messages(t) == SetToSeq({[key |-> k, packets |-> t[k]] : k \in DOMAIN t})
Entries(r) == FlattenSeq([w \in Workers |-> Messages(table[r][w])])

\* mutant: a key of a second worker replaces the first one's count
MergeOverwrites(entries) ==
    LET merged[i \in 0..Len(entries)] ==
            IF i = 0 THEN EmptyTable
            ELSE [k \in DOMAIN merged[i - 1] \cup {entries[i].key} |->
                    IF k = entries[i].key THEN entries[i].packets ELSE merged[i - 1][k]]
    IN merged[Len(entries)]

\* merge_worker_entries, and decode_snapshot's merge after it
Merge(entries) ==
    LET merged[i \in 0..Len(entries)] ==
            IF i = 0 THEN EmptyTable
            ELSE Added(merged[i - 1], entries[i].key, entries[i].packets)
    IN merged[Len(entries)]

Swapped(r) ==
    /\ table' = [table EXCEPT ![r] = EmptyTables]
    /\ missed' = [missed EXCEPT ![r] = Nothing]

Descriptor(r, slots, drops) == [rule |-> r, slots |-> slots, drops |-> drops]

\* snapshot_inline swaps the tables and streams them; a rule without entries
\* is left out of the snapshot
Delivered ==
    /\ poller = "dumping" /\ todo # << >>
    /\ Head(todo) \in ToSet(installed)
    /\ todo' = Tail(todo)
    /\ LET r == Head(todo)
       IN /\ Swapped(r)
          /\ raw' = IF Entries(r) = << >> THEN raw
                    ELSE Append(raw, Descriptor(r, Merge(Entries(r)), Total(missed[r])))
    /\ UNCHANGED <<installed, removed, poller, ticks, published, seen, handed, shown, gone>>

\* The backend refuses - the rule is gone, the ring of retired tables is
\* full - with one entry of zeros, which has no key.
Refused ==
    /\ poller = "dumping" /\ todo # << >>
    /\ todo' = Tail(todo)
    /\ raw' = Append(raw, Descriptor(Head(todo), Merge(<<[key |-> << >>, packets |-> 0]>>), 0))
    /\ UNCHANGED <<installed, removed, counters, poller, ticks, published, seen, handed, shown, gone>>

\* The call fails before or after the backend swapped: the next rule is asked
\* for, and what was swapped out is nowhere else.
Failed ==
    /\ poller = "dumping" /\ todo # << >>
    /\ todo' = Tail(todo)
    /\ LET r == Head(todo)
       IN \/ r \in ToSet(installed) /\ Swapped(r) /\ gone' = [gone EXCEPT ![r] = @ + Tabled(r)]
          \/ UNCHANGED <<counters, gone>>
    /\ UNCHANGED <<installed, removed, poller, raw, ticks, published, seen, handed, shown>>

(***************************************************************************)
(* decode_snapshot.  The field list of a rule is not in its descriptor and *)
(* is taken to be empty; a key that does not decode is left out; the name  *)
(* is the id.                                                              *)
(***************************************************************************)
Decoded(desc) ==
    LET fields == << >>
        keys == {k \in DOMAIN desc.slots : k # << >> /\ DecodeKey(fields, k).ok}
    IN [name |-> desc.rule, drops |-> desc.drops,
        flows |-> [k \in keys |-> desc.slots[k]]]

InDescriptors(r, descs) == Total([i \in DOMAIN descs |->
                                    IF descs[i].rule = r THEN Sum(descs[i].slots) ELSE 0])
InFlows(r, rules) == Total([i \in DOMAIN rules |->
                              IF rules[i].name = r THEN Sum(rules[i].flows) ELSE 0])

Publish ==
    /\ poller = "dumping" /\ todo = << >>
    /\ poller' = "idle" /\ raw' = << >>
    /\ published' = [i \in DOMAIN raw |-> Decoded(raw[i])]
    /\ handed' = [r \in Rules |-> handed[r] + InDescriptors(r, raw)]
    /\ shown' = [r \in Rules |-> shown[r] + InFlows(r, published')]
    /\ UNCHANGED <<installed, removed, counters, todo, ticks, seen, gone>>

Next ==
    \/ \E r \in Rules, w \in Workers : Miss(r, w) \/ \E k \in Keys : Count(r, w, k)
    \/ \E r \in Rules : AddRule(r) \/ RemoveRule(r)
    \/ List \/ Delivered \/ Refused \/ Failed \/ Publish

Spec == Init /\ [][Next]_vars

(***************************************************************************)
(* Properties.                                                             *)
(***************************************************************************)
\* Every packet counted for a rule is in its tables, in the snapshot being
\* taken, in one that was taken, or lost with the rule or with a dump that
\* failed - and in one of them only, whatever changes while the poller goes
\* from rule to rule and however the packets are spread over the workers.
CountsConserved ==
    \A r \in Rules :
        seen[r] = Tabled(r) + InDescriptors(r, raw) + handed[r] + gone[r]

\* A call that fails for one rule costs the snapshot no other rule
\* (vapi_stats_client.rs:136-139): what was taken of a rule stays in the
\* snapshot until the snapshot is published.
TakenUntilPublished ==
    [][\A r \in Rules :
         InDescriptors(r, raw') < InDescriptors(r, raw)
            => handed'[r] = handed[r] + InDescriptors(r, raw)]_vars

\* The flows of a snapshot hold what was taken from the backend, "already
\* decoded from raw key bytes" (spec 005 3.2).
FlowsPublished == \A r \in Rules : shown[r] = handed[r]
=============================================================================
