----------------------------- MODULE OtlpExport -----------------------------
(***************************************************************************)
(* The OTLP exporter (otlp.rs) under its dispatch thread (exporter.rs): a  *)
(* snapshot becomes one request of grouped metrics, cut down to the cap on *)
(* points, sliced into batches that are sent one after the other with      *)
(* retries, while the thread's own deadline may cancel the whole export at *)
(* any await.                                                              *)
(*                                                                         *)
(* A snapshot is the sequence of its rules' flow counts.  A data point is  *)
(* <<rule, flow>>; flow 0 stands for the rule and rule 0 for the exporter  *)
(* itself.  What connecting and exporting return is chosen freely, and a   *)
(* request that failed may have reached the collector all the same.        *)
(***************************************************************************)
EXTENDS Integers, SequencesExt, Sums

CONSTANTS
    Snapshots,          \* the snapshots a tick may bring
    MAX_EXPORT_POINTS,  \* max_export_points_per_tick
    MAX_BATCH_POINTS,   \* max_batch_points
    MAX_RETRIES,
    MAX_BATCHES         \* bound: batches begun

ASSUME OtlpAssumption ==
    /\ Snapshots \subseteq Seq(Nat)
    /\ {MAX_EXPORT_POINTS, MAX_BATCH_POINTS, MAX_RETRIES, MAX_BATCHES} \subseteq Nat

POINTS_PER_FLOW == 3
POINTS_PER_FLOW_RULE == 5

Least(a, b) == IF a < b THEN a ELSE b

(***************************************************************************)
(* build_request                                                           *)
(***************************************************************************)
EffectiveCap(snap) ==
    LET reserved == Len(snap) * POINTS_PER_FLOW_RULE
    IN IF MAX_EXPORT_POINTS < reserved THEN 0
       ELSE (MAX_EXPORT_POINTS - reserved) \div POINTS_PER_FLOW

\* mutant: the remainder is rounded up for every rule
BudgetsRoundedUp(snap) ==
    LET cap == EffectiveCap(snap)
        total == Total(snap)
    IN IF total <= cap THEN snap
       ELSE [r \in DOMAIN snap |-> (cap * snap[r] + total - 1) \div total]

\* Each rule's share of the cap; the first rules get what rounding left.
Budgets(snap) ==
    LET cap == EffectiveCap(snap)
        total == Total(snap)
        share == [r \in DOMAIN snap |-> (cap * snap[r]) \div total]
        rest == cap - Total(share)
    IN IF total <= cap THEN snap
       ELSE [r \in DOMAIN snap |-> share[r] + IF r <= rest THEN 1 ELSE 0]

FlowsEmitted(snap) == [r \in DOMAIN snap |-> Least(Budgets(snap)[r], snap[r])]

PointsDropped(snap) ==
    POINTS_PER_FLOW * (Total(snap) - Total(FlowsEmitted(snap)))

\* points_built: the exporter's own points are not in it
PointsBuilt(snap) ==
    POINTS_PER_FLOW * Total(FlowsEmitted(snap)) + POINTS_PER_FLOW_RULE * Len(snap)

FlowMetrics == <<"flow.packets", "flow.bytes", "flow.last_seen">>
RuleMetrics == <<"flow-rule.flows", "flow-rule.evictions", "flow-rule.drops",
                 "flow-rule.packets", "flow-rule.bytes">>

Metrics(names, points) ==
    IF points = << >> THEN << >>
    ELSE [i \in DOMAIN names |-> [name |-> names[i], points |-> points]]

SelfMetrics ==
    Metrics(<<"ticks_dropped", "batches_sent", "batches_dropped">>, << <<0, 1>> >>)
    \o Metrics(<<"batches_failed">>, << <<0, 1>>, <<0, 2>> >>)
    \o Metrics(<<"points_emitted", "points_dropped", "attrs_truncated",
                 "export_duration", "queue_depth">>, << <<0, 1>> >>)

Request(snap) ==
    LET flows == FlattenSeq([r \in DOMAIN snap |->
                               [f \in 1..FlowsEmitted(snap)[r] |-> <<r, f>>]])
    IN Metrics(FlowMetrics, flows)
       \o Metrics(RuleMetrics, [r \in DOMAIN snap |-> <<r, 0>>])
       \o SelfMetrics

(***************************************************************************)
(* slice_into_batches.  A metric that fits a batch is one piece; a batch   *)
(* is closed by the piece that does not fit it.                            *)
(***************************************************************************)
PointsOf(metrics) == Total([i \in DOMAIN metrics |-> Len(metrics[i].points)])

\* split_metric_data_points
Pieces(metric) ==
    LET n == Len(metric.points)
        count == (n + MAX_BATCH_POINTS - 1) \div MAX_BATCH_POINTS
    IN [i \in 1..count |->
          [metric EXCEPT !.points =
             SubSeq(@, (i - 1) * MAX_BATCH_POINTS + 1, Least(i * MAX_BATCH_POINTS, n))]]

\* mutant: the piece that does not fit is dropped with the flush
AddPieceLost(batches, piece) ==
    IF batches # << >> /\ PointsOf(Last(batches)) + Len(piece.points) <= MAX_BATCH_POINTS
    THEN Front(batches) \o << Append(Last(batches), piece) >>
    ELSE IF batches = << >> THEN << <<piece>> >>
    ELSE batches

\* the last batch is the one being filled
AddPiece(batches, piece) ==
    IF batches # << >> /\ PointsOf(Last(batches)) + Len(piece.points) <= MAX_BATCH_POINTS
    THEN Front(batches) \o << Append(Last(batches), piece) >>
    ELSE Append(batches, <<piece>>)

Slice(request) ==
    IF MAX_BATCH_POINTS = 0 \/ PointsOf(request) <= MAX_BATCH_POINTS THEN <<request>>
    ELSE LET pieces == FlattenSeq([i \in DOMAIN request |-> Pieces(request[i])])
             filled[i \in 0..Len(pieces)] ==
                IF i = 0 THEN << >> ELSE AddPiece(filled[i - 1], pieces[i])
         IN filled[Len(pieces)]

Batches(snap) == Slice(Request(snap))

\* what export() has computed of a snapshot before it sends anything
Prepared ==
    {[snap |-> s, dropped |-> PointsDropped(s), built |-> PointsBuilt(s),
      batch_points |-> LET batches == Batches(s)
                       IN [b \in DOMAIN batches |-> PointsOf(batches[b])]] : s \in Snapshots}
NoExport == [snap |-> << >>, dropped |-> 0, built |-> 0, batch_points |-> << >>]

(***************************************************************************)
(* The thread and the export in progress.                                  *)
(***************************************************************************)
VARIABLES
    thread,     \* "recv", "export", or "exited"
    client,     \* the cached connection is there
    export,     \* the snapshot being exported, prepared
    batch,      \* the batch being sent
    attempt,    \* and which attempt at it this is
    failed,     \* an earlier batch failed
    points,     \* points_emitted of export(): points of the batches sent
    metrics,    \* ExporterMetrics
    tried,      \* history: batches begun
    accepted,   \* history: batches and points that reached the collector
    reached     \* history: the batch being sent is one of them

exportvars == <<export, batch, attempt, failed, points>>
otlpvars == <<thread, client, exportvars, metrics, tried, accepted, reached>>

ExportInit ==
    /\ thread = "recv" /\ client = FALSE
    /\ export = NoExport /\ batch = 0 /\ attempt = 0 /\ failed = FALSE
    /\ points = 0
    /\ metrics = [sent |-> 0, non_retryable |-> 0, transient |-> 0,
                  emitted |-> 0, dropped |-> 0]
    /\ tried = 0
    /\ accepted = [batches |-> 0, points |-> 0] /\ reached = FALSE

Receive(prepared) ==
    /\ thread = "recv"
    /\ tried + Len(prepared.batch_points) <= MAX_BATCHES
    /\ thread' = "export" /\ export' = prepared
    /\ batch' = 1 /\ attempt' = 0 /\ failed' = FALSE /\ points' = 0
    /\ tried' = tried + 1 /\ reached' = FALSE
    /\ metrics' = [metrics EXCEPT !.dropped = @ + prepared.dropped]
    /\ UNCHANGED <<client, accepted>>

Ends(state) ==
    /\ thread' = state
    /\ export' = NoExport /\ batch' = 0 /\ attempt' = 0
    /\ failed' = FALSE /\ points' = 0 /\ reached' = FALSE
    /\ UNCHANGED tried

\* mutant: when some batches failed, all of the request counts as emitted
FinishOptimist(fail, sum, m) ==
    /\ Ends("recv")
    /\ metrics' = [m EXCEPT !.emitted = @ + export.built,
                            !.transient = @ + IF fail THEN 1 ELSE 0]

\* export() returns, and the thread counts the error it returns once more
Finish(fail, sum, m) ==
    /\ Ends("recv")
    /\ metrics' = IF fail
                  THEN [m EXCEPT !.emitted = @ + sum, !.transient = @ + 1]
                  ELSE [m EXCEPT !.emitted = @ + export.built]

\* The loop over the batches goes on after a batch that failed.
NextBatch(fail, sum, m) ==
    \/ /\ batch = Len(export.batch_points)
       /\ Finish(fail, sum, m)
    \/ /\ batch < Len(export.batch_points)
       /\ batch' = batch + 1 /\ attempt' = 0 /\ failed' = fail /\ points' = sum
       /\ metrics' = m
       /\ tried' = tried + 1 /\ reached' = FALSE
       /\ UNCHANGED <<thread, export>>

\* mutant: a batch is retried for as long as its errors are transient
TryAgainForever(arrived) ==
    /\ attempt' = IF attempt < MAX_RETRIES THEN attempt + 1 ELSE attempt
    /\ reached' = arrived
    /\ UNCHANGED <<thread, export, batch, failed, points, metrics, tried>>

TryAgain(arrived) ==
    \/ /\ attempt < MAX_RETRIES
       /\ attempt' = attempt + 1
       /\ reached' = arrived
       /\ UNCHANGED <<thread, export, batch, failed, points, metrics, tried>>
    \/ /\ attempt = MAX_RETRIES
       /\ NextBatch(TRUE, points, [metrics EXCEPT !.transient = @ + 1])

\* get_client
Connect ==
    /\ thread = "export" /\ ~client
    /\ \/ /\ client' = TRUE
          /\ UNCHANGED <<thread, exportvars, metrics, tried, reached>>
       \/ client' = FALSE /\ TryAgain(reached)
    /\ UNCHANGED accepted

\* The collector gets the batch, which a retry may make it get again.
Reaches ==
    accepted' = IF reached THEN accepted
                ELSE [batches |-> accepted.batches + 1,
                      points |-> accepted.points + export.batch_points[batch]]

Sent ==
    /\ thread = "export" /\ client
    /\ Reaches
    /\ NextBatch(failed, points + export.batch_points[batch],
                 [metrics EXCEPT !.sent = @ + 1])
    /\ UNCHANGED client

\* A retryable status, or export_timeout: the connection is given up.
Retryable ==
    /\ thread = "export" /\ client
    /\ client' = FALSE
    /\ \/ Reaches /\ TryAgain(TRUE)
       \/ UNCHANGED accepted /\ TryAgain(reached)

CountPermanent ==
    metrics' = [metrics EXCEPT !.emitted = @ + points, !.non_retryable = @ + 2]

\* Any other status ends the export, and then the thread, which closes the
\* connection; both count it.
Permanent ==
    /\ thread = "export" /\ client
    /\ CountPermanent /\ Ends("exited")
    /\ client' = FALSE
    /\ UNCHANGED accepted

\* The thread's deadline drops export() at an await: the batch in flight may
\* have arrived, and what export() had yet to count is not counted.
Cancel ==
    /\ thread = "export"
    /\ metrics' = [metrics EXCEPT !.transient = @ + 1]
    /\ \/ client /\ Reaches
       \/ UNCHANGED accepted
    /\ Ends("recv")
    /\ UNCHANGED client

\* the senders are gone: shutdown()
Shutdown ==
    /\ thread = "recv"
    /\ thread' = "exited" /\ client' = FALSE
    /\ UNCHANGED <<exportvars, metrics, tried, accepted, reached>>

Exporting == Connect \/ Sent \/ Retryable \/ Permanent \/ Cancel
ExportNext == Exporting \/ Shutdown \/ \E prepared \in Prepared : Receive(prepared)

\* Every await of export() ends: connecting and exporting have timeouts.
ExportSpec == ExportInit /\ [][ExportNext]_otlpvars /\ WF_otlpvars(Exporting)

(***************************************************************************)
(* Properties.                                                             *)
(***************************************************************************)
\* The first snapshot, which may be any, is prepared.
SettingOut == tried = 1 /\ thread = "export" /\ attempt = 0 /\ ~client

\* A tick's points stay within the cap, which only the rules' own points may
\* exceed; a snapshot above it uses the cap up, but for what rounding gave to
\* rules without flows; and every flow is emitted or counted as dropped
\* (build_request's three computations of one number).
CapRespected ==
    SettingOut =>
    LET snap == export.snap
        emitted == Total(FlowsEmitted(snap))
        empty == Total([r \in DOMAIN snap |-> IF snap[r] = 0 THEN 1 ELSE 0])
    IN /\ export.built <= MAX_EXPORT_POINTS \/ emitted = 0
       /\ emitted + empty >= Least(Total(snap), EffectiveCap(snap))
       /\ PointsOf(Request(snap)) = export.built + PointsOf(SelfMetrics)
       /\ export.built + export.dropped
             = POINTS_PER_FLOW * Total(snap) + POINTS_PER_FLOW_RULE * Len(snap)

PointsNamed(name, ms) ==
    FlattenSeq([i \in DOMAIN ms |-> IF ms[i].name = name THEN ms[i].points ELSE << >>])

\* Slicing loses, repeats and reorders no point of any metric, makes no batch
\* larger than max_export.batch_points and none that is empty.
BatchesCarryRequest ==
    SettingOut =>
    LET snap == export.snap
        request == Request(snap)
        batches == Batches(snap)
        sent == FlattenSeq(batches)
    IN /\ \A i \in DOMAIN request :
            PointsNamed(request[i].name, sent) = request[i].points
       /\ PointsOf(sent) = PointsOf(request)
       /\ \A b \in DOMAIN batches :
            PointsOf(batches[b]) \in 1..(IF MAX_BATCH_POINTS = 0 THEN PointsOf(request)
                                               ELSE MAX_BATCH_POINTS)

\* What the exporter reports as sent and emitted did reach the collector, in
\* whatever order its batches failed, were retried, or were cancelled.
ReportsNoMoreThanAccepted ==
    /\ metrics.sent <= accepted.batches
    /\ metrics.emitted + points <= accepted.points

\* Every export ends although the collector may never answer and the thread's
\* deadline need not pass: retries and batches are bounded.
ExportsEnd == (thread = "export") ~> (thread # "export")
=============================================================================
