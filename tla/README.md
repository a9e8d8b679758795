# InFMon: TLA+ verification

TLA+ specifications of InFMon's own logic, TLC configurations that check them
on small instances, and TLAPS proofs of results that should hold for every
instance. Paths below are relative to the repository; `tla/PROJECT.json` maps
every definition to the lines it stands for.

    tlc -config MCSnapshot.cfg MCSnapshot      # model-check one run
    tlapm SnapshotProofs.tla                   # check the proofs

## 1. The system and its parts

InFMon counts flows in mirrored traffic. A VPP plugin (C, `src/backend`)
parses ERSPAN III packets, matches them against *flow rules* and counts each
match in a per-worker, per-rule *counter table*. A frontend (Rust,
`src/frontend`) manages the rules over VPP's binary API, periodically takes a
*snapshot and clear* of every rule and hands the snapshots to exporters. A
command line client (`src/cli`) installs the frontend and talks to it over a
socket.

| part | state | operations | what is hard | what makes it correct |
|---|---|---|---|---|
| flow rules, `flow_rule.c` | rule array, `used_keys` | validate, encode_key, add, rm, find | width table and encoder written twice; unsigned budget | budget exact, key decodable by the other side |
| control-plane context, `api_handler.c` | rule set, `tables[w][i]`, `flow_rule_ids[i]` | add, add with id, del, snapshot_and_clear, list, get | three arrays shifted by hand, allocation failing half-way | arrays agree, nothing leaks, a failed call changes nothing |
| snapshot manager, `snapshot.c` | retired ring, `retired_count`, epochs | snapshot_and_clear, retire_poll, epoch_bump | pointers swapped under running workers; reclamation | no freed table in use, every table has one owner, retired columns are freed |
| counter table, `counter_table.c` | slots, key arena, counters, seqlocks | create, update, read_slot, iterate | probing, eviction, arena exhaustion | packets conserved, one slot per key, LRU eviction only when full |
| plugin, `vpp/infmon_api_handlers.c`, `vpp/infmon_nodes.c`, `graph_node.c` | `infmon_plugin_main`, thread-local scratch vector, CLI rule set | API handlers, CLI commands, flow-match and counter nodes | two arrays published in place, two rule sets, frames in flight | every match counted once, for its own rule, in a live table |
| poller, `poller.rs`, `vapi_stats_client.rs` | connection, backoff, pull queue, descriptors of the snapshot | run_loop, snapshot_and_clear, merge, decode | reconnects, queues at their limit, a dump that fails | snapshots delivered in order, a pull answered or refused, no packet counted twice |
| lifecycle, `lifecycle.rs`, `main.rs` | threads and channels | start, stop, drop | start that fails half way, drop order, signals during start | start and shutdown terminate |
| exporters, `exporter.rs`, `otlp.rs` | queue, cached connection, counters | exporter loop; cap, slice, send, retry | failures and a deadline in the middle of anything | queue drained at shutdown, cap respected, never claims more than was accepted |
| control server, `control.rs`, `vapi_control_client.rs` | rule list, `rule_id_map`, latest snapshot | add, rm, list, show, stats_pull | lost replies, clients that give up, restarts | an atomic list of rules |
| configuration, `validate.rs`, `crud.rs`, `model.rs` | a `FlowRuleSet` | validate, add, remove, parse durations | the backend's rules decided a second time, in another language | both sides decide alike, an accepted configuration starts |
| command line client, `cli/main.rs`, `control_client.rs` | files of the host | install, start, stop, status, flow-rule | killed at any step, half-written files | install can be repeated |

Each is a component of `PROJECT.json`, with the ones that are not modelled.

How they interact: VPP's main thread runs the API handlers and CLI commands one
at a time. A handler changes the context and then *publishes*: it rewrites
`pm->flow_rule_set` and copies every table pointer to `pm->tables`. Workers read
both without a lock, once per frame. `snapshot_and_clear` replaces the tables
of one rule by empty ones and pins the old ones in a ring, from which
`infmon_retire_poll` frees them. The frontend's poller calls it for every rule
of every worker and fans one snapshot out through bounded channels, to the
exporters and to the control server; the control server serves one client
connection at a time and forwards what changes the rules to the backend.

## 2. Modules

| module | models | extends |
|---|---|---|
| `FlowRule` | `flow_rule.c` as operators; no variables | `Sums` |
| `FrontendConfig` | the configuration: validation, rule set, durations | `FlowRule` |
| `KeyDecode` | `decode.rs`, and the attributes of a data point | |
| `ConfigRules` | a rule, a pair of rule sets or a configuration being written | `FrontendConfig`, `KeyDecode` |
| `RuleMessage` | what the add handler and the CLI's add make of a rule | `FlowRule` |
| `Sums` | the sum of a sequence of numbers | |
| `ApiHandler` | `infmon_api_ctx_t`, one action per operation and outcome | `FlowRule`, `Sums` |
| `Snapshot` | `infmon_snapshot_mgr_t` against running workers | |
| `CounterTable` | one `infmon_counter_table_t` and its only writer | `Sums` |
| `DataPlane` | the plugin: handlers, CLI, publication, graph nodes | `ApiHandler`, `RuleMessage` |
| `Stats` | what a snapshot takes, loses and contains | `KeyDecode`, `Sums` |
| `Pipeline` | the frontend's threads: poller, exporters, forwarding, control server, shutdown | |
| `OtlpExport` | the OTLP exporter under its dispatch thread | `Sums` |
| `RuleRegistry` | abstract: one list of rules with atomic commands | |
| `ControlRules` | clients, control server and backend; implements `RuleRegistry` | `RuleMessage` |
| `Service` | infmonctl install/start/stop/status, systemd, the frontend's start | |
| `ListLemmas` | lemmas about sums, `RemoveAt`, `SubSeq`, `FlattenSeq`, least elements | `Sums` |
| `CounterTableProofs`, `ControlRulesProofs` | theorems | the module, `ListLemmas` |
| `FrontendProofs` | theorems of `Stats`, of `OtlpExport` and of `ConfigRules` | these three, `ListLemmas` |
| `DataPlaneProofs` | theorems of `ApiHandler` and of `DataPlane` | `DataPlane`, `ListLemmas` |
| `SnapshotProofs`, `PipelineProofs`, `ServiceProofs` | theorems | the module, `TLAPS` |
| `MC...` | an instance of the module for TLC | the module |

**FlowRule.** A rule is `[name, fields, max_keys]`, the rule array is a
sequence, so "add appends, rm shifts down and zeroes the last" becomes `Append`
and `RemoveAt`. `AddResult` gives the result code in the order of the C checks.
A key byte is `<<field, n>>`, "byte n of that field", so a key shows which parts
of a packet it depends on.

**FrontendConfig, KeyDecode, ConfigRules.** The frontend decides in Rust what
the backend decides in C. A validator is an operator that returns the first error
in the order of the code. Durations are texts `[number, unit]`; the
arithmetic is done modulo `WORD`, because `validate_duration_suffix` multiplies
without a check. `ConfigRules` is the machine that feeds both sides the same
rules, field by field, and every section of a configuration.

**ApiHandler.** C's index `i` is position `i + 1`. The heap is a function from
addresses to what a table was created for (rule name, worker, generation); name
and worker are history the C struct does not have, and allow the invariants to
say that a table sits where it belongs. Each operation has one action per way
it returns: `FlowRuleAdd`, `FlowRuleAddRejected` (all of
`infmon_flow_rule_add`'s refusals), `FlowRuleAddAllocFails(rule, w)` (the create
for worker `w` fails, everything before it is rolled back), `FlowRuleDel`,
`FlowRuleDelNotFound`, `SnapshotAndClear`, `SnapshotRejected`,
`SnapshotAllocFails`. Which free address malloc returns does not matter to any
property, so the choice is `CHOOSE`; addresses are the numbers 1 to `NumTables`,
so that what the tables hold can be summed as a sequence (`Total`).

**Snapshot.** The control thread's `infmon_snapshot_and_clear` is split where
another thread can come between: `Prepare` (checks, allocation, clock, epoch),
`Swap` once per worker (the release store), `Enqueue` (ring slot). Workers run
`FrameBegin` (load the pointers) and `FrameEnd` (bump the epoch), `Tick`
advances the clock. Times are kept as ages, which saturate just past the grace
period; epochs saturate just past the largest `swap_epoch`. This module is about
the protocol `snapshot.h` documents, without a barrier.

**CounterTable.** Each worker writes only its own tables (spec 004 section 5),
so an update is one step: `Hit`, `Insert`, `InsertNoArena`, `EvictAndInsert`,
`EvictNoArena`. Phase 1's search, `evict_lru`'s window and the second scan are
sets of slots ordered by distance from the key's home slot; the CAS cannot fail
with one writer. Three history variables count the updates, name the key of the
latest one and count the packets of evicted flows.

**RuleMessage.** Between a client's rule and the backend's rule set there is a
message with room for eight fields and a struct with room for seven, and 0 stands
for 65536 keys. `FromMessage` is the handler's conversion, `FromCommand` the
debug CLI's; neither is the identity, and both come before the validation.

**DataPlane.** A handler is two steps, the operation on the context (of the rule
`FromMessage` gives) and `Publish`; `CliAdd` and `CliAddAllocFails` are the debug
CLI's add with its own rule set. The API context is created by the first API
request (`Ensured`), also by one that is refused or only reads (`Ensure`), and
with it `num_workers`, by which the CLI's add decides how many workers get a table
(`CliWorkers`): one, as long as there was no API request. Both front ends may be
used in any order. A worker dispatches a queue of frames, up to `MAX_FRAMES` of
which reach flow-match in one loop iteration: `Receive`, `FlowMatch`,
`CounterLoad`, `CounterUpdate`. Handlers that are refused change nothing
(checked for `ApiHandler` as `FailureChangesNothing`) and publish nothing. History
variables follow each match: `matched`, `discarded` with its rule, `overwritten`
by a second frame's reset, `skipped` for want of a table. `CountsConserved` balances
them name by name as long as one front end is used. With both in use a packet may be
credited to another rule: `PublishedTablesMatchRules` says to which, and
`NoMatchVanishes` balances the sums over all names, tables that no rule owns any more
included.

**Stats.** One snapshot is a `List` and then, rule by rule, a dump that is
`Delivered`, `Refused` by the backend, or `Failed` (before the backend swapped the
tables, or after); `Publish` merges and decodes. Packets, insert failures and
rule changes come between any two of them. Four history variables follow the
packets of a rule: counted, handed over, shown as a flow, gone.

**Pipeline.** A snapshot is its `tick_id`. Every thread has a variable for where
it stands: `poller` walks `run_loop` (`Connect`, `TakeSnapshot`, `SendNext` once
per channel, `FanoutDone`, `DrainPull` once per request, `PullSnapshot`, `Reply`
once per waiter, `Wake`), `thread[c]` the reader of channel `c` (the exporters
are channels 1 to `EXPORTERS`, the snapshot-to-control thread reads `FORWARD`),
`control` the accept loop and `handle_stats_pull`, `main` the joins of
`Frontend::stop`. Rust's ownership is state here: a channel is `Closed` when the
poller has ended and main has cleared `exporter_senders`, a request is dropped
with the poller's receiver or with `pull_waiters` at the end of the loop body. An
exporter's backoff after a failed export is part of its `"export"` state, which
may last arbitrarily long. Whether the control server and the forwarding thread
could be spawned is a choice of `Init`.

**OtlpExport.** A snapshot is the sequence of its rules' flow counts. `Request`
follows `build_request` (metrics, and which points they carry), `Budgets` the
sharing of the cap, `Batches` the slicing; the machine receives a
snapshot, connects, sends batch after batch and retries. The outcome of every
await is free, a request that failed may have arrived all the same, and the
thread's own deadline may cancel the export at any await. `accepted` is what
the collector really got.

**ControlRules, RuleRegistry.** A command goes into the socket's backlog and
waits there although its client has given up. The server carries an addition
out in two steps, the backend's call and its own update, with the frontend's
possible end in between. What a removal leaves of the list is a recursive function
over its positions (`Retain`), about which the proofs can reason. The backend's rule set is `FlowRule`'s, with the ids the
plugin issues; what is added to it is the listed rule as the message handler reads it, so
that the two differ for a rule of 0 keys or of eight fields. `RuleRegistry` says what an operator of infmonctl may think: one
list of rules, commands that take effect at most once, in one step, after they were
sent, and exit codes that tell the truth. `IsRegistry` maps the listed rules,
the requests in the backlog and in the server's hand, and the waiting clients to
it; the backend's state and the ids do not show.

**Service.** A file is `none`, `partial`, `default` or `operator`; whether the
service can read its configuration is `access`, the reasons why it can. `install`
is one action per system call (user, write, chmod, chown, directories, unit).
The unit it copies is looked for in `/usr/share/infmon` and beside the binary's
directory; no package of this repository puts it there, so whether a host has it
(`bundled`) is a choice of `Init`. Without it the install skips the unit and reports
success all the same, and the operator may install the unit by hand.
The frontend's `start()` is followed exporter by exporter up to the control
server, with the order in which senders and handles are dropped when it fails.
systemd is what the unit asks of it: `Restart=on-failure`, a start timeout,
SIGTERM.

## 3. Runs

### Passing

| run | instance | shows |
|---|---|---|
| `flow_rule` | every ordered choice of distinct fields, and each extended by a duplicate or an unknown field; 0, 1, budget and budget + 1 keys; rule sets of 2 from 60 candidates; configurations section by section, durations up to 512 | the frontend decodes what the backend encodes; both validators and both rule sets decide alike, and what was accepted rule by rule loads; an accepted configuration gives exporters that can be built |
| `api_handler` | 3 names plus an invalid one, 5 rule specifications, 3 rule slots, 3 ids, 2 workers, 8 tables, ring of 1 | key budget exact; tables follow the rules through every delete; no table leaks or has two owners; a failed call changes nothing; an id never re-targets |
| `snapshot` | 2 workers, 1 rule, 6 tables, ring of 2, 3 snapshots, grace 3 > frame 1 + call 1 | no use after free; one owner per table; `retired_count` exact; generations advance one by one; every retired column is freed while the poll is called |
| `counter_table` | 4 slots, 6 keys with overlapping and wrapping probes, keys of 3 bytes in an arena for 4 keys of 4, window 3, 7 updates, 3 frames | one slot per key; packets conserved; a flow is evicted only from a full table, least recently updated first |
| `data_plane` | 2 rules, one of which may ask for 0 keys, 2 workers, ring of 1, 6 tables, up to 2 flow-match frames per iteration, 4 packets, 3 adds through either front end; the ids are interchangeable (symmetry) | every match of rules managed by one front end is counted once for its rule, or lost in one of two ways; with both in use a published rule indexes its own table, none, or the API's of the same index, and no match vanishes; updates reach live tables; retired tables are final |
| `stats` | 2 rules, 2 workers, 2 keys, 3 packets, 2 snapshots | every packet is in one place, and only a removed rule or a dump that failed after the swap loses any; a failed rule costs the others nothing |
| `pipeline` | 1 exporter with a queue of 1 (from `queue_depth` 0) and the forwarding thread, pull channel of 1, 3 snapshots, 2 pulls | distinct snapshots in order at every reader; a pull gets a snapshot newer than itself; queues drain at shutdown; the poller never blocks; shutdown ends |
| `otlp_export` | cap 64, batches of 18, 3 retries, up to 7 batches begun; snapshots below the cap, above it with and without a rule that has no flows, and of 13 rules that alone exceed it | the cap holds for flows and is used up; slicing loses, repeats and reorders nothing; the counters never claim more than the collector got; every export ends |
| `control_rules` | 2 clients, 3 commands about 3 rules (two of one name, of which one has eight fields, and one of 0 keys), one lost reply and one restart of either program | ids name their rule; list and backend differ by at most one name per lost reply; nothing older of a client takes effect after an answer; the refinement of `RuleRegistry`; every request is handled |
| `service` | 2 exporters, 3 infmonctl runs, 2 kills or failed writes; a host with or without a unit to install | an install with `--force` repairs what earlier ones left; a start that fails ends; a stop during the start is not lost |

Why the bounds are enough. Three rules make a delete shift zero, one or two
entries. Two workers are enough for one to be ahead of the other, and the
properties relate two workers at most. A ring of two columns and three
snapshots let the second slot be pending while the first is reused. Four
slots with six keys fill the table, evict, and reach the end of the arena with
all five outcomes of an update; the evict window is smaller than the table, as
32 is smaller than a real one. Four packets on two workers put two frames
in flight on one of them or on each, and leave two for after a handler; two
pending flow-match frames are the least that overwrite a scratch vector. An exporter and the forwarding
thread are two readers of which one may hang while the other runs; three
snapshots (ticks, or pulls following ticks, with reconnects between) are one in
its hands, one in its queue and one that finds the queue full; two pulls are
one that times out and its retry, on a channel the first can fill. The OTLP
snapshots put a metric across a batch boundary, a cap above and below the
reserved points, and a remainder that goes to a rule without flows. Three
commands of two clients are an abandoned one, its repetition and another
client's between them. Three runs of infmonctl are an install that dies, one that
repairs and a start. `WORD` = 512 lets `number * 86400` wrap.

`CHECK_DEADLOCK FALSE` is set where the bounds on packets, updates, fields,
commands or snapshots end a behaviour, or where the program ends (`pipeline`:
main has returned).

### Violated: where the code departs from its documentation

| run | property | what the run shows |
|---|---|---|
| `stats_flows` | `FlowsPublished` | A snapshot's flows are "already decoded from raw key bytes" (spec 005:109). The descriptor does not carry the rule's field list, so every key is decoded with an empty one, all its bytes are trailing, and the flow is left out: no snapshot ever has a flow. |
| `service_start` | `ShippedServiceStarts` | "infmon-frontend implements sd-notify" (`deploy/infmon.service:16`). The unit passes `--config PATH`, of which `main()` takes the first argument for the path, fails and is restarted for ever; and nothing sends `READY=1`. |

### Divergences found while modelling, not behind a run

Backend. A table holds up to the next power of two of `max_keys` keys
(`counter_table.c:91`, spec 002 section 6 says `max_keys`). `snapshot.h:112`
documents a grace period of "0 = use default" where `snapshot.c:36` uses no
grace at all; the plugin's grace period is 1 s where spec 004 says 5 s. "All
workers have advanced past the swap epoch" (`snapshot.c:188`) compares a count of
dispatches with a count of swaps, so it is true after a few frames whoever
still holds the tables: safety rests on the grace period alone, which is what
`NoUseAfterFreeCorrect` assumes. Nothing in the plugin calls
`infmon_retire_poll` or bumps an epoch: after 16 snapshots every further one is
refused, and the handler's comment that the tables stay pinned until
`infmon_api_snap_release()` "called below" names a call that is not there. The arena holds
one key per slot and is never reclaimed: with full-width keys the first
eviction destroys a flow and refuses the new key (spec 002:210 promises to insert
it). A CLI add whose tables could not be allocated says "Added flow rule"
(`infmon_nodes.c:572`). "The global API context, shared between binary API handlers
and CLI" (`infmon_api_handlers.c:56`; lines 641-643 tell the CLI to use it) is not:
the CLI has a rule set of its own and writes the same `pm->tables` from index 0, so
that after an add through each a published rule may be counted in the other's table
(the second disjunct of `PublishedTablesMatchRules`). "num_workers is latched [...]
during infmon_vpp_api_ctx_ensure, which runs post-worker-init" (`infmon_nodes.c:545`):
it runs at the first API request, and until then a rule the CLI adds has a table on
the main thread only, and what the other workers match is not counted (`skipped`).
The counter node "Walks the scratch vector and, for each entry, issues one update"
(spec 004:100), and "No export interval ever loses a packet to a snapshot" (spec 004
section 7.2) holds; but of two flow-match frames pending in one loop iteration the
second resets the vector before the counter node has walked the first one's entries
(`overwritten`). "The backend MUST reject" a rule whose `max_keys` is zero or whose
fields contain duplicates (spec 002:185-190, `invalid_spec` at 285): the add handler
makes 65536 of the zero and cuts an eighth field, which can only be a duplicate,
before it validates (`infmon_api_handlers.c:178-187`), and nobody before it refuses
the rule. It is installed as another one than is listed, which is how
`IdsNameTheirRule` states it. Spec 004 section 8 says rules
are retired "explicitly **not**" with the worker barrier, but `flow_rule_del`
destroys tables at once and is safe only because of that barrier.
`infmon_extract_flow_fields` never fills the ports that spec 002 offers as key fields. When
`arena_alloc` fails after an eviction, the victim's slot becomes FREE in the
middle of other keys' probe sequences (`counter_table.c:317`), against "FREE -
key definitely doesn't exist in the table" (`counter_table.c:227`).

Poller and lifecycle. "Also update latest_snapshot so subsequent stats show
picks it up" (`control.rs:521`), but the forwarding thread may overwrite it with the
tick before it. `exporter.shutdown()` is awaited without a bound, where
`exporter.rs:164` says "Bounded by `shutdown_grace_ms`" (validated and never
read). A failed snapshot reconnects at once with the backoff reset
(`poller.rs:333-337`), where `poller.rs:9` says the poller "skips the tick and
reconnects with exponential backoff". With a polling interval of 5 s or more,
which validation accepts, a pull can wait for the whole interval and time out.
A stop that arrives during a tick still lets a pending pull take a new snapshot
(spec 005 section 9.3: "do not begin a new snapshot"). A dump the backend refuses
is shown as one all-zero rule; one that fails after the swap loses its counts.
The snapshot names rules by their id, so `control.rs`'s lookups by rule name
find nothing and show zeros.

Control. Configured rules are listed and never added to the backend
(`lifecycle.rs:162`, spec 005:445-447). After a lost reply to a removal the rule
cannot be removed any more: the backend's "not found" becomes an error until the
frontend restarts. After a restart of the frontend the backend's rules are
orphans, and after one of VPP the control handle is never connected again. A read
timeout exits with 1 where spec 007:384 says 4; a repeated key in a rule's
specification is accepted where spec 007:254 says exit 2; `flow-rule rm` takes
names only. `FlowRuleSet` is not used by the daemon.

OTLP. A failed export is counted twice (`exporter.rs:412` and
`otlp.rs:920-935`). The exporter's own metrics are outside the cap, and the rules' points
alone can exceed it (spec 006:391-411). A permanent error stops the thread, where
spec 006:352-353 promises that there is no poison pill. The thread's deadline
(800 ms) ends before the first backoff (2 s), so in the default configuration
nothing is retried. A full queue drops the newest snapshot where the spec drops
the oldest. Sums are labelled cumulative and hold one tick's delta.

Service. `install` "Enables the `infmon-frontend.service` systemd unit" (spec 007:161). It looks for the unit to
copy in `/usr/share/infmon` and in `<prefix>/deploy`, "the standard layout from
`cargo install` or the .deb package" (`main.rs:266-268`); the Debian packaging of this
repository installs it at neither place, so that, as shipped, `install` prints that the unit is
skipped, says "completed successfully" and exits 0 with no unit (`main.rs:307-315`), or with the
half-written one an earlier install left. `InstallCompletes` promises a unit only on
hosts that have one to copy. Dirty state without `--force` should exit with 6 (spec 007:163-167); the
code skips a file that exists, even one half written, and exits with 0. The mode is
tightened to 0640 before the owner is changed, and a `chown` that fails is a
warning: until the next step, or for good, the service cannot read its
configuration. Signals are acted on only once `start()` has returned. With
`RestartSec=2s` the start limit is never hit. The unit is `infmon.service`, not
spec 007's `infmon-frontend.service`; `init_logging` is never called.

### Environment and fairness

The **worker barrier**: VPP runs a binary-API handler or CLI command that is not
marked mp-safe inside `vlib_worker_thread_barrier_sync`, and the plugin marks
none. `DataPlane` therefore lets a handler start only between loop iterations
and no worker run until it has published. `Snapshot` assumes no barrier. The barrier
is all that `DataPlane` assumes: which front ends are used, in which order, and how
many frames are pending (up to the bound) is free.

**Timing** in `Snapshot`: a frame ends within `MAX_FRAME` ticks and a call of
`snapshot_and_clear` within `MAX_CALL`. The code does not enforce either. It
relies on them: with a grace period shorter than both together a table is freed
under a running frame.

**Fairness.** `Snapshot!FairSpec`: weak fairness of the control thread's steps
(`Swap`, `Enqueue`, `RetirePoll`: VPP's main loop always returns), of each
worker's `FrameBegin` and `FrameEnd` (polling input nodes dispatch forever), and
of `Tick`; none of `Prepare`, since nobody must take snapshots. That `RetirePoll`
is called at all is an assumption the shipped plugin does not meet (above):
`RetiredAreFreed` is about the manager used as `snapshot.h` documents.
`Pipeline!FairSpec`: weak fairness of each thread's steps that wait for
nothing outside the program (the poller's VAPI calls return, with or without
success; a 5 s or 10 s timeout ends the control server's waits; a channel's reader
is woken), of main's joins, and of `accept()` once `ControlHandle::shutdown` has
connected to its own socket. None of clients, of the signal that stops the
program, or of an exporter's `export()` and `shutdown()`: `ShutdownTerminates`
names their return as its hypothesis, `PollerNeverBlocks` does without it.
`OtlpExport`: the export's own steps, since connecting and exporting have
timeouts; neither the deadline nor the arrival of snapshots. `ControlRules`: the
server's steps, whose waits are bounded, and the frontend's start, because systemd
restarts it; not clients, not faults. `Service`: the command that runs, the steps
of `start()`, and systemd's restart and stop; not the operator, VPP or new
commands.

## 4. Proofs

For any constants that satisfy the assumptions their module states:

| theorem | states |
|---|---|
| `SnapshotProofs!TypeCorrect` | `Spec => []TypeOK` |
| `SnapshotProofs!RetiredCountCorrect` | `Spec => []RetiredCountExact` |
| `SnapshotProofs!NoUseAfterFreeCorrect` | `GRACE > MAX_FRAME + MAX_CALL` implies `Spec => []NoUseAfterFree` |
| `SnapshotProofs!EveryTableHasOneOwnerCorrect` | `Spec => []EveryTableHasOneOwner` |
| `SnapshotProofs!GenerationAdvancesCorrect` | `Spec => GenerationAdvances` |
| `PipelineProofs!ChannelsInOrderCorrect` | `Spec => []ChannelsInOrder` |
| `PipelineProofs!DrainedOnShutdownCorrect` | `Spec => []DrainedOnShutdown` |
| `PipelineProofs!FreshReplyCorrect` | `Spec => []FreshReply` |
| `ServiceProofs!InstallCompletesCorrect` | `Spec => InstallCompletes` |
| `DataPlaneProofs!TypeCorrect` | the rule set, the arrays and the ring are well formed |
| `DataPlaneProofs!BudgetExactCorrect` | `Spec => []BudgetExact` |
| `DataPlaneProofs!TablesFollowRulesCorrect` | `Spec => []TablesFollowRules` |
| `DataPlaneProofs!TablesOwnedOnceCorrect` | `Spec => []TablesOwnedOnce` |
| `DataPlaneProofs!FailureChangesNothingCorrect` | `Spec => FailureChangesNothing` |
| `DataPlaneProofs!IdBindingStableCorrect` | `Spec => IdBindingStable` |
| `CounterTableProofs!OneSlotPerKeyCorrect` | `Spec => []OneSlotPerKey` |
| `CounterTableProofs!PacketsConservedCorrect` | `Spec => []PacketsConserved` |
| `CounterTableProofs!EvictionIsLastResortCorrect` | `Spec => EvictionIsLastResort` |
| `CounterTableProofs!OccupiedCountExactCorrect` | `occupied_count` is the number of occupied slots |
| `DataPlaneProofs!PublishedTablesMatchRulesCorrect` | `DPSpec => []PublishedTablesMatchRules` |
| `DataPlaneProofs!UpdatesReachLiveTablesCorrect` | `DPSpec => []UpdatesReachLiveTables` |
| `DataPlaneProofs!RetiredTablesImmutableCorrect` | `DPSpec => RetiredTablesImmutable` |
| `DataPlaneProofs!CountsConservedCorrect` | `DPSpec => []CountsConserved` |
| `FrontendProofs!CountsConservedCorrect` | `Spec => []CountsConserved` |
| `FrontendProofs!TakenUntilPublishedCorrect` | `Spec => TakenUntilPublished` |
| `FrontendProofs!CapRespectedCorrect` | `ExportSpec => []CapRespected` |
| `FrontendProofs!BatchesCarryRequestCorrect` | `ExportSpec => []BatchesCarryRequest` |
| `FrontendProofs!ReportsNoMoreThanAcceptedCorrect` | `ExportSpec => []ReportsNoMoreThanAccepted` |
| `FrontendProofs!DecodeInvertsEncodeCorrect` | `ConfigSpec => []DecodeInvertsEncode` |
| `FrontendProofs!ValidatorsAgreeCorrect` | `ConfigSpec => []ValidatorsAgree` |
| `FrontendProofs!SetsAgreeCorrect` | `ConfigSpec => []SetsAgree` |
| `FrontendProofs!AcceptedConfigStartsCorrect` | `ConfigSpec => []AcceptedConfigStarts` |
| `ControlRulesProofs!IdsNameTheirRuleCorrect` | `Spec => []IdsNameTheirRule` |
| `ControlRulesProofs!ListFollowsBackendCorrect` | `Spec => []ListFollowsBackend` |
| `ControlRulesProofs!NothingLeftBehindCorrect` | `Spec => []NothingLeftBehind` |
| `ControlRulesProofs!IsRegistryCorrect` | `Spec => IsRegistry`: `ControlRules` implements `RuleRegistry` |

**Snapshot.** Assumptions: at least one worker and one ring slot, `NULL` is not a
table, `EMPTY` is neither an entry nor a call. None of the properties is inductive:
to know that a poll frees nothing a frame holds one has to know where the
pointers a frame holds can be. `Owned` says how pointers relate: live tables are
pairwise distinct (`LiveOwned`), a ring entry's tables are allocated, not live
and in no other entry (`RingOwned`), and those of a call in progress are live
exactly as far as the stores have got (`CallOwned`). `FramesHold` adds that a
running frame holds what is live, or what the call in progress has swapped out,
or what is in a ring entry not older than the frame by more than `MAX_CALL`: the
call read the clock before the store, the frame began before the store. So an
entry a frame holds is at most `MAX_FRAME + MAX_CALL` ticks old, and a longer
grace period keeps the poll away from it. The epochs are not used, and could not be.
`OwnedStep` shows both preserved with one lemma per action; only
`RetirePollStep` needs the assumption about the grace period. `NoLeak` turns
`Owned` around: every allocated table is in one of the places it speaks of. It
needs `RetiredCountExact`, without which the enqueue loop might find no slot.
`NextGeneration` says that a call in progress holds, for each worker, a table one
generation ahead of the one it replaces, which makes the action property a
consequence of each store.

**Pipeline.** No queue is longer than it is deep, but order does not follow from
one channel alone: the fan-out visits the channels one after the other. `OrderInv`
says of each channel that it is ordered, holds nothing newer than `tick`, and
nothing newer than `tick - 1` where the fan-out in progress has yet to come by.
`DrainInv` says that a thread that left its loop without being disabled did so
with an empty queue *and* after the poller had ended, so that nothing is added
later. `FreshInv` follows a request from its sending (its number is larger than
that of anything queued or waiting) to the moment replies are sent, when the tick
has passed the one at which it was sent.

**Service.** `InstallProgress` says, per step of an install, what the earlier
steps have made true and that no kill, operator or systemd action of the
environment takes it back. That an install leaves a unit is proved where there is
one to install (`bundled`); elsewhere it is false, and the
property promises only the other files and the user.

**ApiHandler** (in `DataPlaneProofs`). Assumptions: at least one worker, one rule slot and one ring slot,
`NULL` is not an address, `ZERO_ID` not an id. `TablesFollowRules` does not survive a
delete alone: it must be known that the tables destroyed with one rule are no
other rule's and not in the ring (`OneOwner`), and that no id is bound twice
(`IdsBound`). `CtxInv` joins these with a rule set in which names are distinct and
`used_keys` is the sum of the `max_keys`, within the budget (`RuleSetCorrect`).
The rule array shifts by `RemoveAt`, whose elements and sum are lemmas
of `ListLemmas`, the two others by `Compact`, which does the same to them.
`NoLeak`, for `TablesOwnedOnce`, is the converse of `OneOwner`: every allocated
table is in a cell.

**CounterTable.** Assumptions: a key is at least one and at most `KEY_WIDTH` bytes, the
window at least one slot. The argument turns on where FREE slots can be. While
the arena has room, a claimed slot is filled, so no slot becomes FREE again and
no FREE slot lies before a key on its probe sequence (`Reachable`): a key that phase 1
does not find is nowhere, and may be inserted. Once the arena has no room it never
has any again, and nothing is inserted any more, so that the FREE slots then given
back in the middle of probe sequences cannot lead to a second copy. A probe that
finds nothing to reuse has met no FREE slot, so the table is full and the home slot
is in the window: there is a victim. The sum over the slots changes with
one of them (`TotalChanged`). That `NumSlots` is a positive number is proved from
the recursion that computes it.

**DataPlane.** Assumptions: those of `ApiHandler`, and that the rules considered include
what the two conversions make of them. `PlaneInv` extends `CtxInv` by what is published. Between two
handlers the published pointers are in use, neither destroyed nor in the ring
(`PublishedInUse`), and a frame in the counter node holds the published ones, because
nothing is published while a frame is under way (`Frames`). This holds with both
front ends in use, and suffices for `UpdatesReachLiveTables` and
`RetiredTablesImmutable`. An API call publishes what the context holds, over every
entry the CLI may have stored; the CLI stores only at the index of the rule it adds. So a
published pointer that is not the context's is that of the CLI's rule of that index
(`CliUndisturbed`), which with `TablesFollowRules` is `PublishedTablesMatchRules`,
whatever the front ends did before.
For `CountsConserved`, `Accounts` states the balance (`Balanced`) for one front end.
It rests on `ScratchCurrent`: a worker between flow-match and counter node has entries of the
published rules, since nothing is published while it has. A name is therefore matched
once per packet, and an entry's target is that rule's own table or null. An update moves a
worker's entries to tables or to `skipped`, a second flow-match frame moves what it
finds in the vector to `overwritten`, a delete moves what its tables hold to `discarded`, a
new table begins with nothing. `FrontEnds` says that a front end that has added nothing
has nothing: with the CLI unused no published entry is null, so nothing is skipped.
There is no assumption on how many frames are pending or which front end is used; that
the balance is about one of them is part of the property.

**Stats.** Assumptions: a key is not empty, there is a worker. `CountsConserved` is
inductive once it is known that a table is a finite function from keys to numbers
(`StatsType`): a dump that is delivered moves what the tables held to the
descriptors (`SwappedFacts`, `JoinConserves`), one that fails after the swap and a
removal move it to `gone`, and publishing turns descriptors into flows. `Sum` adds
a table's values in the order `SetToSeq` happens to choose, so that its lemmas rest on the fact that
a sum does not depend on the order (`TotalPermuted`); a dump's messages count for
what the tables hold (`EntriesFacts`), and merging them by key loses and makes up nothing
(`MergeFacts`). `TakenUntilPublished` follows
since no descriptor counts less than nothing; no run checks it, the theorem does.

**OtlpExport** (in `FrontendProofs`, whence the names `ExportInit`, `ExportNext`, `ExportSpec`). Assumptions: snapshots are
sequences of natural numbers, the four limits are natural numbers. Most of it is
about what the code computes before it sends. A share is `cap * n div total`, so
the shares sum to at most the cap and fall short of it by at most one per rule
(`SharesFacts`, from two sums over all rules and one division); the first rules get
that rest, of which only a rule without flows has no use (`Emitted`). The cuts of a
metric tile its points (`CutFacts`, `PiecesFacts`), adding a piece to the batches
appends it to what is in them (`AddPieceFacts`), so that the batches flatten to the pieces
(`SliceFacts`). Which points come under a name is a sum of lists, like the number of
points is a sum of numbers: it distributes over flattening (`CarriedFlatten`), slicing
changes it for no name (`NamedSliced`), and no two metrics of a request share one
(`RequestDistinct`). The state needs `ExportInv`: as long as no batch has failed,
`points` is the sum of the batches before this one, which is what allows
`points_built` to be counted at the end: the request has that many points and the
exporter's own ten; and a batch that arrived but was not yet counted is
allowed for in both counters (`Counted`).

**ConfigRules** (in `FrontendProofs`). Assumptions: what a client writes has the
types the parsers give it (any name, any sequence of fields, any natural numbers;
durations and kinds are any texts), the limits are natural numbers, words have at
least one value, and the default configuration is accepted. `ConfigInv` says that
the backend's set is the frontend's list with its sum of keys, and that the list is
one of accepted rules (`Accepted`). Removal rests on names being distinct: the first
rule of a name, which the frontend removes, is the one the backend finds. The
validators agree although only one of them limits the number of fields, because
distinct fields are at most seven (`DistinctFieldsFit`), and although only one of them
demands a key of at least one byte, because each field has one (`SameKeyWidth`). A
list that lists were joined into gives each of them back when it is cut where
their lengths add up to (`FlattenParts`), which is what `decode_key` does to a key
(`DecodedKey`). A timeout may wrap around to zero; but if the seconds do, so do the
milliseconds, which are a multiple of them (`ProductWraps`), and those the validator
has refused.

**ControlRules.** `CtlInv` says where requests may be (in order in the backlog,
the one in hand before all of them, a waiting client's newest among them), that
list and map agree on names, that backend rules and ids are one for one and ids
never reused, that an id the frontend holds is that of what the add handler made of the rule it lists
under that name (`Ids`), and, between the backend's answer and the
frontend's update, what the answer implies (`Answered`). `Follows` bounds the names
in which list and backend differ by the replies lost, counting the answer in
hand as recorded. A configured rule is listed and never added, and so does not
count as missing. The refinement is proved action by action: `Commit` is the
registry's command, an answer is its answer, everything else a stutter; `ListFollowsBackend`
and the refinement use `Retain`'s lemmas (what it keeps, in which order, and the names left).
The clients are not called `"none"`, as the idle request's client is; the configured
rules are a sequence of rules with distinct names.

**Induction and sums.** The induction theorems of the library take an operator as
parameter and cannot be used. `ListLemmas` instead derives from the well-foundedness of `<`
that a non-empty set of naturals has a least element (`Minimum`), and induction over
a *set* of numbers (`NatInductive`). This is enough for what recursive functions
over positions compute: `Total` (it exists, is unique, is added to by appending,
subtracted from by removing, linear, changed by one term, indifferent to the order),
`FlattenSeq` (what the lists of a list count for, or carry, is what their elements do), the batches being filled, `Retain`,
`infmon_next_pow2`. Sums are therefore stated as `Total` over numbered tables, workers
and slots, not with the community modules' folds, about which nothing can be proved here.

**Only model-checked.** All liveness (the proof system supports neither
fairness nor `ENABLED`). Every invariant and every action property of the runs is a
theorem but one: `NoMatchVanishes` sums over the names, which are no numbers, with a
fold, and about folds nothing can be proved here. What `MCFlowRule` adds to the theorems of `ConfigRules` is that the
enumerated cases occur: rejected and accepted rules, durations that wrap around.

## 5. Not modelled, and the roadmap

Left out for good: the wire format of OTLP, configuration parsing and IPC
(de)serialisation, output formatting of the command line client and its stubs
(`uninstall`, `config`, `flow`, `log`, `health`), both sides' logging, packaging,
truncation of long strings and the instance id file of the OTLP exporter,
`reload()` (it validates and changes nothing). Context and manager teardown happen
once, when no worker runs. The stats segment registry has no reader in the
sources.

Planned, in this order:

1. `PacketFields`: the decisions of the ERSPAN parser and of
   `infmon_extract_flow_fields` as operators over abstract packets. Property:
   every IP packet the parser accepts is extracted, with all its fields (the
   ports are not, see section 3).
2. Concurrent writers and readers of one counter table: the CAS from FREE to
   INSERTING (a second writer may store the same key in another slot,
   `counter_table.c:217`), the seqlock shared by a group
   (`counter_table.c:270`), a slot evicted between match and update
   (`counter_table.c:207`). The shipped plugin has one writer per table and reads
   under the barrier, so none of this happens in it.
3. An abstract specification of counting (a bag of matches per rule, a snapshot
   empties it) that `DataPlane` and `Stats` implement.
4. A refinement proof for item 3.
