----------------------------- MODULE DataPlane ------------------------------
(***************************************************************************)
(* The VPP plugin: the binary-API handlers (vpp/infmon_api_handlers.c) and *)
(* the debug CLI (vpp/infmon_nodes.c) on the main thread, publishing rules *)
(* and tables into infmon_plugin_main, and the flow-match and counter      *)
(* nodes of every worker (infmon_nodes.c, graph_node.c) using them.        *)
(*                                                                         *)
(* It composes ApiHandler, whose operations are the first step of each     *)
(* handler; the handler then publishes.  A refused operation changes       *)
(* nothing but its reply (FailureChangesNothing) and publishes nothing, so *)
(* the refusals of ApiHandler are not repeated here: together with the     *)
(* requests that only read they are Ensure, for each of them creates the   *)
(* context if it is the first.  The walk of the retired tables that ends   *)
(* snapshot_inline_dump only reads.  The CLI neither needs the context nor *)
(* creates it, and until some API request has, it takes the main thread    *)
(* for the only worker.                                                    *)
(*                                                                         *)
(* A worker dispatches the pending frames of one loop iteration in order.  *)
(* A flow-match frame (of one packet here) fills the worker's thread-local *)
(* scratch vector, a counter frame walks it.  Every packet matches every   *)
(* rule (v1 has no filters).                                               *)
(*                                                                         *)
(* No handler is registered mp-safe, so VPP runs each of them inside       *)
(* vlib_worker_thread_barrier_sync: workers stand between two loop         *)
(* iterations.                                                             *)
(***************************************************************************)
EXTENDS ApiHandler, RuleMessage

CONSTANTS
    MAX_FRAMES,     \* flow-match frames pending in one loop iteration
    MAX_PACKETS,    \* bound: packets in one behaviour
    MAX_ADDS        \* bound: rules ever added

ASSUME MessageAssumption ==
    \A rule \in Rules : FromMessage(rule) \in Rules /\ FromCommand(rule) \in Rules
ASSUME FramesAssumption == MAX_FRAMES \in Nat \ {0} /\ MAX_PACKETS \in Nat /\ MAX_ADDS \in Nat

VARIABLES
    num_workers,    \* pm->num_workers: 0 until the API context exists
    pm_rules,       \* pm->flow_rule_set: which rule_set_ref it points to
    ref_count,      \* .count of the API's and of the CLI's rule_set_ref
    pm_tables,      \* pm->tables[w][i]
    cli_set,        \* infmon_cli_rule_set
    publishing,     \* a handler has changed the context and not yet published
    packets,        \* packets counted in each table
    queue,          \* frames pending on each worker, in dispatch order
    scratch,        \* infmon_tls_scratch: matched rule index and (history) name
    held,           \* pointers the counter node loaded for its frame
    matched,        \* history: matches of the rules of each name
    discarded,      \* history: packets in tables destroyed with their rule
    overwritten,    \* history: scratch entries lost to a second frame's reset
    skipped,        \* history: scratch entries whose table was null
    adds,           \* history: rules added by each front end (MAX_ADDS in all)
    arrived         \* bounded by MAX_PACKETS

dpvars == <<num_workers, pm_rules, ref_count, pm_tables, cli_set, publishing,
            packets, queue, scratch, held, matched, discarded, overwritten,
            skipped, adds, arrived>>
allvars == <<vars, dpvars>>
workervars == <<queue, scratch, held, matched, overwritten, skipped, arrived>>

NoTables == [i \in Slot |-> NULL]

DPInit ==
    /\ Init
    /\ num_workers = 0
    /\ pm_rules = "none"
    /\ ref_count = [api |-> 0, cli |-> 0]
    /\ pm_tables = [w \in Workers |-> NoTables]
    /\ cli_set = EmptyRuleSet
    /\ publishing = FALSE
    /\ packets = [t \in Tables |-> 0]
    /\ queue = [w \in Workers |-> << >>]
    /\ scratch = [w \in Workers |-> << >>]
    /\ held = [w \in Workers |-> NoTables]
    /\ matched = [n \in ValidNames |-> 0]
    /\ discarded = [n \in ValidNames |-> 0]
    /\ overwritten = [n \in ValidNames |-> 0]
    /\ skipped = [n \in ValidNames |-> 0]
    /\ adds = [api |-> 0, cli |-> 0]
    /\ arrived = 0

Quiet == \A w \in Workers : queue[w] = << >>

(* Mutant: the handlers are marked mp-safe.                                *)
MainThreadMpSafe == ~publishing

(* A handler starts when the previous one is done and every worker has     *)
(* finished its loop iteration ...                                         *)
MainThreadFree == ~publishing /\ Quiet

(* ... and no worker moves until it is done.                               *)
WorkersRun == ~publishing

(* infmon_vpp_api_ctx_ensure, the first call of every API handler.         *)
Ensured == num_workers' = NumWorkers

MayAdd == adds.api + adds.cli < MAX_ADDS

(* A freshly created table is empty.                                       *)
PacketsOf(newheap) ==
    [t \in Tables |-> IF heap[t] # newheap[t] THEN 0 ELSE packets[t]]

PacketsIn(some) == Total([t \in Tables |-> IF t \in some THEN packets[t] ELSE 0])

-----------------------------------------------------------------------------
(* Handlers: the operation on the context.                                 *)
AddHandler(rule, id) ==
    /\ MainThreadFree /\ MayAdd /\ Ensured
    /\ FlowRuleAdd(FromMessage(rule), id)
    /\ packets' = PacketsOf(heap')
    /\ publishing' = TRUE
    /\ adds' = [adds EXCEPT !.api = @ + 1]
    /\ UNCHANGED <<pm_rules, ref_count, pm_tables, cli_set, discarded>>
    /\ UNCHANGED workervars

(* The id names the rule to remove.                                        *)
DelHandler(id) ==
    /\ MainThreadFree /\ Ensured
    /\ \E i \in IndexOfId(id) :
         /\ FlowRuleDel(rule_set.rules[i].name)
         /\ discarded' = [discarded EXCEPT ![rule_set.rules[i].name] = @ + PacketsIn(Range(Column(i)))]
    /\ publishing' = TRUE
    /\ UNCHANGED <<pm_rules, ref_count, pm_tables, cli_set, packets, adds>>
    /\ UNCHANGED workervars

(* snapshot_and_clear and snapshot_inline_dump.                            *)
SnapshotHandler(id) ==
    /\ MainThreadFree /\ Ensured
    /\ SnapshotAndClear(id)
    /\ packets' = PacketsOf(heap')
    /\ publishing' = TRUE
    /\ UNCHANGED <<pm_rules, ref_count, pm_tables, cli_set, discarded, adds>>
    /\ UNCHANGED workervars

(* A request that is refused, fails or only reads.  If the rule set cannot *)
(* be created there is still no context, and nothing changes.              *)
Ensure ==
    /\ MainThreadFree /\ num_workers = 0
    /\ Ensured
    /\ UNCHANGED <<vars, pm_rules, ref_count, pm_tables, cli_set, publishing,
                   packets, discarded, adds>>
    /\ UNCHANGED workervars

(* Mutant: a pointer published before is kept.                             *)
PublishOnlyMissing ==
    /\ publishing
    /\ pm_rules' = "api"
    /\ ref_count' = [ref_count EXCEPT !.api = Count]
    /\ pm_tables' = [w \in Workers |-> [i \in Slot |->
                       IF pm_tables[w][i] = NULL THEN tables[w][i] ELSE pm_tables[w][i]]]
    /\ publishing' = FALSE
    /\ UNCHANGED vars
    /\ UNCHANGED <<num_workers, cli_set, packets, discarded, adds>>
    /\ UNCHANGED workervars

(* infmon_vpp_publish_rules: the rule_set_ref is rewritten in place and    *)
(* points into the rule set itself, then every table pointer is copied.    *)
Publish ==
    /\ publishing
    /\ pm_rules' = "api"
    /\ ref_count' = [ref_count EXCEPT !.api = Count]
    /\ pm_tables' = tables
    /\ publishing' = FALSE
    /\ UNCHANGED vars
    /\ UNCHANGED <<num_workers, cli_set, packets, discarded, adds>>
    /\ UNCHANGED workervars

(***************************************************************************)
(* infmon_flow_rule_add_command_fn: a rule set of its own, tables stored   *)
(* straight into pm->tables, and its own rule_set_ref published.           *)
(***************************************************************************)
CliWorkers == 1..(IF num_workers = 0 THEN 1 ELSE num_workers)

CliPublished(rule) ==
    /\ cli_set' = WithRule(cli_set, FromCommand(rule))
    /\ ref_count' = [ref_count EXCEPT !.cli = Len(cli_set'.rules)]
    /\ pm_rules' = "cli"
    /\ adds' = [adds EXCEPT !.cli = @ + 1]
    /\ UNCHANGED <<num_workers, publishing, discarded>>
    /\ UNCHANGED workervars

(* The workers that get a table take theirs from a column of fresh ones.   *)
CliAdd(rule) ==
    /\ MainThreadFree /\ MayAdd
    /\ AddResult(cli_set, FromCommand(rule)) = "OK"
    /\ FreshColumns # {}
    /\ LET column == CHOOSE c \in FreshColumns : TRUE
           n == Len(cli_set.rules) + 1
       IN /\ heap' = [t \in Tables |->
                        IF \E w \in CliWorkers : column[w] = t
                        THEN Allocate(column, rule.name, 0)[t] ELSE heap[t]]
          /\ packets' = PacketsOf(heap')
          /\ pm_tables' = [w \in Workers |->
                             IF w \in CliWorkers THEN [pm_tables[w] EXCEPT ![n] = column[w]]
                             ELSE pm_tables[w]]
    /\ CliPublished(rule)
    /\ UNCHANGED <<rule_set, tables, flow_rule_ids, retired, result>>

(* Mutant: the entries of the destroyed tables are not nulled.             *)
CliAddAllocFailsDangling(rule, w) ==
    /\ MainThreadFree /\ MayAdd
    /\ AddResult(cli_set, FromCommand(rule)) = "OK"
    /\ FreshColumns # {}
    /\ LET n == Len(cli_set.rules) + 1
           column == CHOOSE c \in FreshColumns : TRUE
       IN pm_tables' = [v \in Workers |->
                          IF v < w THEN [pm_tables[v] EXCEPT ![n] = column[v]]
                          ELSE pm_tables[v]]
    /\ CliPublished(rule)
    /\ UNCHANGED <<vars, packets>>

(* The create for worker w fails: the earlier workers' entries are nulled  *)
(* and the rule is published all the same.                                 *)
CliAddAllocFails(rule, w) ==
    /\ MainThreadFree /\ MayAdd
    /\ AddResult(cli_set, FromCommand(rule)) = "OK"
    /\ LET n == Len(cli_set.rules) + 1
       IN pm_tables' = [v \in Workers |->
                          IF v < w THEN [pm_tables[v] EXCEPT ![n] = NULL]
                          ELSE pm_tables[v]]
    /\ CliPublished(rule)
    /\ UNCHANGED <<vars, packets>>

-----------------------------------------------------------------------------
(* The rules a worker finds through pm->flow_rule_set.  The references     *)
(* point into the live arrays; an entry past the end of an array is a      *)
(* zeroed rule, whose key width is 0, and matches nothing.                 *)
PublishedRules ==
    CASE pm_rules = "api" -> SubSeq(rule_set.rules, 1, Min({ref_count.api, Count}))
      [] pm_rules = "cli" -> cli_set.rules
      [] OTHER            -> << >>

mainvars == <<vars, num_workers, pm_rules, ref_count, pm_tables, cli_set, publishing, discarded, adds>>

(* n frames reach flow-match in one loop iteration.                        *)
Receive(w, n) ==
    /\ WorkersRun /\ queue[w] = << >>
    /\ arrived + n <= MAX_PACKETS
    /\ queue' = [queue EXCEPT ![w] = [k \in 1..n |-> "match"]]
    /\ arrived' = arrived + n
    /\ UNCHANGED mainvars
    /\ UNCHANGED <<packets, scratch, held, matched, overwritten, skipped>>

(* The entries of a scratch vector that are for a rule of name n.          *)
EntriesFor(n, entries) == {i \in DOMAIN entries : entries[i].name = n}

(* infmon_flow_match_node_fn: reset the scratch, append one entry per      *)
(* rule.  With no match the packet goes to drop.                           *)
FlowMatch(w) ==
    /\ WorkersRun /\ queue[w] # << >> /\ Head(queue[w]) = "match"
    /\ scratch' = [scratch EXCEPT ![w] =
                     [i \in DOMAIN PublishedRules |->
                        [index |-> i, name |-> PublishedRules[i].name]]]
    /\ matched' = [n \in ValidNames |->
                     IF \E r \in Range(PublishedRules) : r.name = n
                     THEN matched[n] + 1 ELSE matched[n]]
    /\ overwritten' = [n \in ValidNames |->
                         overwritten[n] + Cardinality(EntriesFor(n, scratch[w]))]
    /\ queue' = [queue EXCEPT ![w] =
                   IF PublishedRules = << >> THEN Tail(@) ELSE Append(Tail(@), "counter")]
    /\ UNCHANGED mainvars
    /\ UNCHANGED <<packets, held, skipped, arrived>>

(* infmon_counter_node_fn: load this worker's pointers, once per frame ... *)
CounterLoad(w) ==
    /\ WorkersRun /\ queue[w] # << >> /\ Head(queue[w]) = "counter"
    /\ queue' = [queue EXCEPT ![w] = <<"update">> \o Tail(@)]
    /\ held' = [held EXCEPT ![w] = pm_tables[w]]
    /\ UNCHANGED mainvars
    /\ UNCHANGED <<packets, scratch, matched, overwritten, skipped, arrived>>

(* ... then update a counter per scratch entry, skipping null tables, and  *)
(* reset the scratch (infmon_counter_update).                              *)
Target(w, entry) == held[w][entry.index]

(* The entries it skips; what they were for is history.                    *)
SkippedNow(w) ==
    [n \in ValidNames |->
        skipped[n] + Cardinality({i \in EntriesFor(n, scratch[w]) :
                                    Target(w, scratch[w][i]) = NULL})]

CounterUpdateKeepsScratch(w) ==     \* mutant: the scratch is not reset
    /\ WorkersRun /\ queue[w] # << >> /\ Head(queue[w]) = "update"
    /\ packets' = [t \in Tables |->
                     packets[t] + Cardinality({i \in DOMAIN scratch[w] :
                                                 Target(w, scratch[w][i]) = t})]
    /\ skipped' = SkippedNow(w)
    /\ queue' = [queue EXCEPT ![w] = Tail(@)]
    /\ held' = [held EXCEPT ![w] = NoTables]
    /\ UNCHANGED mainvars
    /\ UNCHANGED <<scratch, matched, overwritten, arrived>>

CounterUpdate(w) ==
    /\ WorkersRun /\ queue[w] # << >> /\ Head(queue[w]) = "update"
    /\ packets' = [t \in Tables |->
                     packets[t] + Cardinality({i \in DOMAIN scratch[w] :
                                                 Target(w, scratch[w][i]) = t})]
    /\ skipped' = SkippedNow(w)
    /\ scratch' = [scratch EXCEPT ![w] = << >>]
    /\ queue' = [queue EXCEPT ![w] = Tail(@)]
    /\ held' = [held EXCEPT ![w] = NoTables]
    /\ UNCHANGED mainvars
    /\ UNCHANGED <<matched, overwritten, arrived>>

-----------------------------------------------------------------------------
DPNext ==
    \/ \E rule \in Rules, id \in UnusedIds : AddHandler(rule, id)
    \/ \E id \in Ids : DelHandler(id) \/ SnapshotHandler(id)
    \/ \E rule \in Rules : \/ CliAdd(rule)
                           \/ \E w \in CliWorkers : CliAddAllocFails(rule, w)
    \/ Ensure \/ Publish
    \/ \E w \in Workers :
         \/ \E n \in 1..MAX_FRAMES : Receive(w, n)
         \/ FlowMatch(w) \/ CounterLoad(w) \/ CounterUpdate(w)

DPSpec == DPInit /\ [][DPNext]_allvars

-----------------------------------------------------------------------------

TablesOf(n) == {t \in Allocated : heap[t].name = n}
InScratch(n) == Total([w \in Workers |-> Cardinality(EntriesFor(n, scratch[w]))])

(* Every match of a rule is accounted for, by a table that was created for *)
(* that rule: what the workers matched is in the live and retired tables   *)
(* of the rule, went with a deleted rule, is still in a scratch vector, or *)
(* is one of the two losses the code has.  Adds, deletes and snapshots     *)
(* between any two frames neither lose a packet nor credit it to another   *)
(* rule (spec 004 7.2: "No export interval ever loses a packet to a        *)
(* snapshot").  The losses are a scratch vector reset before the counter   *)
(* node has walked it, and entries without a table; a rule that came       *)
(* through the API has a table on every worker.  It is about one front     *)
(* end: a call of the other abandons tables with what is in them.          *)
CountsConserved ==
    /\ (adds.api = 0 \/ adds.cli = 0) =>
         \A n \in ValidNames :
             matched[n] = PacketsIn(TablesOf(n)) + discarded[n] + InScratch(n)
                            + overwritten[n] + skipped[n]
    /\ adds.cli = 0 => \A n \in ValidNames : skipped[n] = 0

(* What no mixture of the front ends can break: a match may be credited to *)
(* another rule or go to an abandoned table, but every match there was is  *)
(* in some table, went with a rule, waits, or is one of the two losses.    *)
SumOver(f) == FoldFunction(+, 0, f)

NoMatchVanishes ==
    SumOver(matched) = PacketsIn(Allocated) + SumOver(discarded)
                         + SumOver([n \in ValidNames |-> InScratch(n)])
                         + SumOver(overwritten) + SumOver(skipped)

(* The workers index two arrays that are published separately.  Once       *)
(* nothing is left to publish, the i-th published table of every worker    *)
(* was created for that worker and for the i-th published rule.  While the *)
(* CLI's rules are published it may also be null, or the table of the      *)
(* API's i-th rule: the two front ends write one array of tables for two   *)
(* sets of rules (infmon_nodes.c:555), so with both in use a packet may be *)
(* counted for another rule, but only for the API's of the same index.     *)
CreatedFor(t, name, w) ==
    t \in Allocated /\ heap[t].name = name /\ heap[t].worker = w

PublishedTablesMatchRules ==
    ~publishing =>
        \A w \in Workers, i \in DOMAIN PublishedRules :
            \/ CreatedFor(pm_tables[w][i], PublishedRules[i].name, w)
            \/ /\ pm_rules = "cli"
               /\ \/ pm_tables[w][i] = NULL
                  \/ i <= Count /\ CreatedFor(pm_tables[w][i], rule_set.rules[i].name, w)

(* No worker updates a table that a delete has destroyed.                  *)
UpdatesReachLiveTables ==
    \A w \in Workers : (queue[w] # << >> /\ Head(queue[w]) = "update") =>
        \A i \in DOMAIN scratch[w] :
            Target(w, scratch[w][i]) # NULL => Target(w, scratch[w][i]) \in Allocated

(* A table handed out as retired is not counted into any more: what the    *)
(* dump streams is final (spec 004 7.2: "the retired table is immutable    *)
(* from that instant").                                                    *)
RetiredTablesImmutable ==
    [][~publishing => \A n \in 1..Len(retired), w \in Workers :
         packets'[retired[n][w]] = packets[retired[n][w]]]_allvars

=============================================================================
