----------------------------- MODULE ApiHandler -----------------------------
(***************************************************************************)
(* The control-plane context infmon_api_ctx_t and its operations:          *)
(* src/backend/src/api_handler.c over flow_rule.c and the allocation side  *)
(* of counter_table.c and snapshot.c.                                      *)
(*                                                                         *)
(* Three arrays are kept in step by hand: the rule set's rules[], the      *)
(* counter tables tables[worker][i] and the UUIDs flow_rule_ids[i].  An    *)
(* add appends to each, a delete shifts each, a snapshot replaces one      *)
(* column of tables and pins the old column in the snapshot manager's      *)
(* ring.  VPP's main thread runs one operation at a time, so each is one   *)
(* action.                                                                 *)
(*                                                                         *)
(* Counter tables are elements of Tables; heap[t] is FREE or what the      *)
(* table was created for.  Its fields name and worker are history: the C   *)
(* table does not know whose it is, which is why misplacing one would go   *)
(* unnoticed.  calloc may fail at any moment.                              *)
(***************************************************************************)
EXTENDS FlowRule, FiniteSets, Sums

CONSTANTS
    Rules,          \* the rule specifications a client may send
    Ids,            \* the non-zero UUIDs the plugin may draw
    ZERO_ID,        \* the all-zero UUID: "no ID assigned"
    NumWorkers,     \* worker_count: main thread plus VPP workers
    NumTables,      \* tables the heap has room for
    FREE,           \* not allocated
    NULL,
    MAX_RETIRED     \* INFMON_MAX_RETIRED (16), slots of the retired ring

(* The addresses malloc can return for a table, numbered.                  *)
Tables == 1..NumTables

ASSUME TablesAssumption  == NumTables \in Nat
ASSUME WorkersAssumption == NumWorkers \in Nat \ {0}
ASSUME RetiredAssumption == MAX_RETIRED \in Nat \ {0}
ASSUME NullAssumption    == NULL \notin Tables /\ FREE \notin [name : ValidNames, worker : 1..NumWorkers, generation : Nat]
ASSUME IdAssumption      == ZERO_ID \notin Ids

VARIABLES
    rule_set,       \* ctx->rule_set
    tables,         \* ctx->tables[w][i]
    flow_rule_ids,  \* ctx->flow_rule_ids[i]
    retired,        \* snap_mgr->retired: columns of tables pinned in the ring
    heap,           \* the allocator, and what each table is for
    result          \* what the last operation returned

ctxvars == <<rule_set, tables, flow_rule_ids, retired, heap>>
vars == <<ctxvars, result>>

Workers == 1..NumWorkers
Slot == 1..SET_MAX
Count == Len(rule_set.rules)

Init ==
    /\ rule_set = EmptyRuleSet
    /\ tables = [w \in Workers |-> [i \in Slot |-> NULL]]
    /\ flow_rule_ids = [i \in Slot |-> ZERO_ID]
    /\ retired = << >>
    /\ heap = [t \in Tables |-> FREE]
    /\ result = "OK"

Allocated == {t \in Tables : heap[t] # FREE}

(* One successful infmon_counter_table_create per worker.                  *)
FreshColumns ==
    {c \in [Workers -> Tables \ Allocated] :
        \A v, w \in Workers : c[v] = c[w] => v = w}

(* `column` comes back from the allocator, created for rule `name`.        *)
Allocate(column, name, generation) ==
    [t \in Tables |->
        IF \E w \in Workers : column[w] = t
        THEN [name |-> name, worker |-> CHOOSE w \in Workers : column[w] = t,
              generation |-> generation]
        ELSE heap[t]]

(* Mutant: only worker 1's table is destroyed.                             *)
DestroyFirst(column) == [heap EXCEPT ![column[1]] = FREE]

(* infmon_counter_table_destroy on every table of a column.                *)
Destroy(column) ==
    [t \in Tables |-> IF \E w \in Workers : column[w] = t THEN FREE ELSE heap[t]]

Column(i) == [w \in Workers |-> tables[w][i]]

WithColumn(i, column) ==
    [w \in Workers |-> [tables[w] EXCEPT ![i] = column[w]]]

(* Mutant: the entry at idx is not overwritten.                            *)
CompactSkipsFirst(a, idx, remaining, blank) ==
    [i \in Slot |-> IF i \in (idx + 1)..remaining THEN a[i + 1]
                    ELSE IF i = remaining + 1 THEN blank
                    ELSE a[i]]

(* The compaction loop of infmon_api_flow_rule_del: a[idx..] slides down   *)
(* one place and the place past the remaining entries becomes `blank`.     *)
Compact(a, idx, remaining, blank) ==
    [i \in Slot |-> IF i \in idx..remaining THEN a[i + 1]
                    ELSE IF i = remaining + 1 THEN blank
                    ELSE a[i]]

(***************************************************************************)
(* flow_rule_add_internal: with an id for the plugin's add, with ZERO_ID   *)
(* for infmon_api_flow_rule_add.                                           *)
(***************************************************************************)
FlowRuleAdd(rule, id) ==
    /\ AddResult(rule_set, rule) = "OK"
    /\ FreshColumns # {}
    /\ LET column == CHOOSE c \in FreshColumns : TRUE
           idx == Count + 1
       IN /\ rule_set' = WithRule(rule_set, rule)
          /\ heap' = Allocate(column, rule.name, 0)
          /\ tables' = WithColumn(idx, column)
          /\ flow_rule_ids' = [flow_rule_ids EXCEPT ![idx] = id]
    /\ result' = "OK"
    /\ UNCHANGED retired

FlowRuleAddRejected(rule) ==
    /\ AddResult(rule_set, rule) # "OK"
    /\ result' = AddResult(rule_set, rule)
    /\ UNCHANGED ctxvars

(* Mutant: the rule is not taken back out.                                 *)
FlowRuleAddNoRollback(rule, w) ==
    /\ AddResult(rule_set, rule) = "OK"
    /\ rule_set' = WithRule(rule_set, rule)
    /\ result' = "INTERNAL"
    /\ UNCHANGED <<tables, flow_rule_ids, retired, heap>>

(* The create for worker w fails: the tables of the workers before it are  *)
(* destroyed again, their entries nulled, and the rule is taken back out.  *)
FlowRuleAddAllocFails(rule, w) ==
    /\ AddResult(rule_set, rule) = "OK"
    /\ LET idx == Count + 1
       IN /\ rule_set' = WithoutRule(WithRule(rule_set, rule), idx)
          /\ tables' = [v \in Workers |->
                           IF v < w THEN [tables[v] EXCEPT ![idx] = NULL]
                           ELSE tables[v]]
    /\ result' = "INTERNAL"
    /\ UNCHANGED <<flow_rule_ids, retired, heap>>

(***************************************************************************)
(* infmon_api_flow_rule_del.                                               *)
(***************************************************************************)
FlowRuleDel(name) ==
    \E idx \in Positions(rule_set, name) :
        /\ rule_set' = WithoutRule(rule_set, idx)
        /\ heap' = Destroy(Column(idx))
        /\ tables' = [w \in Workers |-> Compact(tables[w], idx, Count - 1, NULL)]
        /\ flow_rule_ids' = Compact(flow_rule_ids, idx, Count - 1, ZERO_ID)
        /\ result' = "OK"
        /\ UNCHANGED retired

FlowRuleDelNotFound(name) ==
    /\ Positions(rule_set, name) = {}
    /\ result' = "NOT_FOUND"
    /\ UNCHANGED ctxvars

(***************************************************************************)
(* infmon_api_snapshot_and_clear and, inside it, infmon_snapshot_and_clear *)
(* on column i.  The production clock, epochs and grace period decide only *)
(* when a retired column may be freed; they are the subject of Snapshot.   *)
(***************************************************************************)
IndexOfId(id) == {i \in 1..Count : flow_rule_ids[i] = id}

SnapResult(id) ==
    IF id = ZERO_ID \/ IndexOfId(id) = {} THEN "NOT_FOUND"
    ELSE IF \E i \in IndexOfId(id) : tables[1][i] = NULL THEN "NULL_TABLE"
    ELSE IF Len(retired) >= MAX_RETIRED THEN "TOO_MANY_RETIRED"
    ELSE "OK"

SnapshotAndClear(id) ==
    /\ SnapResult(id) = "OK"
    /\ FreshColumns # {}
    /\ \E i \in IndexOfId(id) :
         LET column == CHOOSE c \in FreshColumns : TRUE
         IN /\ heap' = Allocate(column, rule_set.rules[i].name,
                                heap[tables[1][i]].generation + 1)
            /\ tables' = WithColumn(i, column)
            /\ retired' = Append(retired, Column(i))
    /\ result' = "OK"
    /\ UNCHANGED <<rule_set, flow_rule_ids>>

SnapshotRejected(id) ==
    /\ SnapResult(id) # "OK"
    /\ result' = SnapResult(id)
    /\ UNCHANGED ctxvars

(* Every replacement is allocated before the first pointer is swapped.     *)
SnapshotAllocFails(id) ==
    /\ SnapResult(id) = "OK"
    /\ result' = "ALLOC_FAILED"
    /\ UNCHANGED ctxvars

UnusedIds == {id \in Ids : \A i \in Slot : flow_rule_ids[i] # id}

Next ==
    \/ \E rule \in Rules :
         \/ \E id \in UnusedIds \cup {ZERO_ID} : FlowRuleAdd(rule, id)
         \/ FlowRuleAddRejected(rule)
         \/ \E w \in Workers : FlowRuleAddAllocFails(rule, w)
    \/ \E name \in ValidNames : FlowRuleDel(name) \/ FlowRuleDelNotFound(name)
    \/ \E id \in Ids \cup {ZERO_ID} :
         SnapshotAndClear(id) \/ SnapshotRejected(id) \/ SnapshotAllocFails(id)

Spec == Init /\ [][Next]_vars

-----------------------------------------------------------------------------

(* used_keys is always the sum of the installed rules' max_keys, within    *)
(* the budget: no rejected, rolled back or deleted rule leaves a charge    *)
(* and the unsigned subtraction in infmon_flow_rule_rm never wraps.        *)
Charges(set) == [i \in DOMAIN set.rules |-> set.rules[i].max_keys]

BudgetExact ==
    /\ rule_set.used_keys = Total(Charges(rule_set))
    /\ rule_set.used_keys \in 0..KEYS_BUDGET

(* The i-th table of each worker was created for the i-th rule and that    *)
(* worker, and the entries past the last rule are null: packets matched to *)
(* rule i are never counted for another rule after a delete has shifted    *)
(* the arrays (infmon_api_flow_rule_del step 4).                           *)
TablesFollowRules ==
    \A w \in Workers, i \in Slot :
        IF i <= Count
        THEN /\ tables[w][i] \in Allocated
             /\ heap[tables[w][i]].name = rule_set.rules[i].name
             /\ heap[tables[w][i]].worker = w
        ELSE tables[w][i] = NULL

(* A table is referred to from exactly one place: live in one cell of the  *)
(* context or retired in one cell of the ring, and every allocated table   *)
(* is in one of them.  No leak, no double free, no retired table in use.   *)
LiveCells == {c \in Workers \X Slot : tables[c[1]][c[2]] # NULL}
RetiredCells == Workers \X (1..Len(retired))

TablesOwnedOnce ==
    /\ Allocated = {tables[c[1]][c[2]] : c \in LiveCells}
                     \cup {retired[c[2]][c[1]] : c \in RetiredCells}
    /\ Cardinality(Allocated) = Cardinality(LiveCells) + Cardinality(RetiredCells)

(* An operation that does not return OK has changed nothing: an add whose  *)
(* third worker could not be served, or a snapshot that ran out of memory, *)
(* is all-or-nothing (spec 004 11, snapshot_alloc_failed).                 *)
FailureChangesNothing == [][result' # "OK" => UNCHANGED ctxvars]_vars

(* As long as an id is installed it names the same rule, and the tables    *)
(* reached through it change only by being retired: deleting or adding     *)
(* another rule never re-targets the id a client holds.                    *)
IdBindingStable ==
    [][\A i \in 1..Count, j \in 1..Count' :
         (flow_rule_ids[i] # ZERO_ID /\ flow_rule_ids[i] = flow_rule_ids'[j])
         => /\ rule_set.rules[i] = rule_set.rules'[j]
            /\ \/ \A w \in Workers : tables[w][i] = tables'[w][j]
               \/ \E n \in 1..Len(retired') :
                    \A w \in Workers : retired'[n][w] = tables[w][i]]_vars
=============================================================================
