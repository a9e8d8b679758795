------------------------------ MODULE Pipeline ------------------------------
(***************************************************************************)
(* The frontend's threads (lifecycle.rs): the poller (poller.rs), which    *)
(* reads and clears the backend's counters once per tick and on demand;    *)
(* one exporter thread per configured exporter (exporter.rs); the          *)
(* snapshot-to-control thread; the control server answering stats pulls    *)
(* (control.rs); and main, which shuts them down in order.                 *)
(*                                                                         *)
(* A snapshot is its tick_id.  Channels 1..EXPORTERS lead to the exporters *)
(* and channel FORWARD to the snapshot-to-control thread; the threads are  *)
(* named by the channel they read.  Whether the backend answers, and what  *)
(* an exporter's export() returns, is chosen freely.                       *)
(***************************************************************************)
EXTENDS Naturals, Sequences

CONSTANTS
    EXPORTERS,      \* number of exporters
    QueueDepth,     \* queue_depth of each of them
    PULL_DEPTH,     \* capacity of the pull channel (4 in start())
    MAX_TICK,       \* bound: snapshots taken
    MAX_PULLS       \* bound: stats_pull requests

Exporters == 1..EXPORTERS
FORWARD == EXPORTERS + 1
Channels == 1..FORWARD

ASSUME PipelineAssumption ==
    /\ EXPORTERS \in Nat
    /\ QueueDepth \in [Exporters -> Nat]
    /\ PULL_DEPTH \in Nat \ {0}
    /\ MAX_TICK \in Nat
    /\ MAX_PULLS \in Nat

VARIABLES
    poller,         \* where run_loop stands
    connected,      \* client.is_some()
    tick,           \* tick_id
    next,           \* next sender, or next waiter, of the loop in progress
    pulling,        \* the fan-out in progress is that of a pull
    waiters,        \* pull_waiters: requests being served
    stop,           \* the poller's stop flag
    queue,          \* snapshots queued in each channel
    thread,         \* where the reader of each channel stands
    taken,          \* the snapshot it received last
    disabled,       \* it gave up on a permanent error
    senders_kept,   \* main still holds exporter_senders
    pull_queue,     \* requests in the pull channel
    control,        \* where run_server stands
    request,        \* the pull it waits for
    asked,          \* history: tick when that request was sent
    reply,          \* the snapshot in the request's reply channel (0: none)
    latest,         \* latest_snapshot (0: none)
    pulls,          \* bounded by MAX_PULLS
    control_stop,   \* the control server's stop flag
    main            \* where main stands

pollervars == <<poller, connected, tick, next, pulling, waiters, stop>>
readervars == <<queue, thread, taken, disabled>>
controlvars == <<control, request, asked, reply, pulls>>
mainvars == <<senders_kept, control_stop, main>>
vars == <<pollervars, readervars, controlvars, mainvars, pull_queue, latest>>

(***************************************************************************)
(* Channels.                                                               *)
(***************************************************************************)
Capacity(c) ==
    IF c = FORWARD THEN 1
    ELSE IF QueueDepth[c] = 0 THEN 1 ELSE QueueDepth[c]

Receiving(c) == thread[c] \notin {"exited", "absent"}

\* The poller's senders die with the poller, the exporters' second senders
\* when main clears exporter_senders.
Closed(c) == poller = "exited" /\ (c = FORWARD \/ ~senders_kept)

\* mutant: the poller waits for room instead of dropping
TrySendWaits(c, t) ==
    /\ Receiving(c) => Len(queue[c]) < Capacity(c)
    /\ queue' = IF Receiving(c) THEN [queue EXCEPT ![c] = Append(@, t)] ELSE queue

\* drop_newest: a full queue or an absent receiver loses the snapshot
TrySend(c, t) ==
    queue' = IF Receiving(c) /\ Len(queue[c]) < Capacity(c)
             THEN [queue EXCEPT ![c] = Append(@, t)]
             ELSE queue

Init ==
    /\ poller = "top" /\ connected = FALSE /\ tick = 0 /\ next = 1
    /\ pulling = FALSE /\ waiters = <<>> /\ stop = FALSE
    /\ queue = [c \in Channels |-> <<>>]
    /\ control \in {"accept", "absent"}
    /\ \E f \in {"recv", "absent"} :
          /\ control = "absent" => f = "absent"
          /\ thread = [c \in Channels |-> IF c = FORWARD THEN f ELSE "recv"]
    /\ taken = [c \in Channels |-> 0]
    /\ disabled = [c \in Channels |-> FALSE]
    /\ senders_kept = TRUE /\ pull_queue = <<>>
    /\ request = 0 /\ asked = 0 /\ reply = 0
    /\ latest = 0 /\ pulls = 0
    /\ control_stop = FALSE /\ main = "running"

(***************************************************************************)
(* The poller: run_loop.                                                   *)
(***************************************************************************)
\* Leaving the loop drops its senders and the pull channel with its contents.
PollerExit ==
    /\ poller = "top" /\ stop
    /\ poller' = "exited"
    /\ pull_queue' = <<>>
    /\ UNCHANGED <<connected, tick, next, pulling, waiters, stop, readervars,
                   controlvars, mainvars, latest>>

Connect ==
    /\ poller = "top" /\ ~stop
    /\ \/ connected /\ UNCHANGED connected /\ poller' = "snapshot"
       \/ ~connected /\ connected' = TRUE /\ poller' = "snapshot"
       \/ ~connected /\ UNCHANGED connected /\ poller' = "backoff"
    /\ UNCHANGED <<tick, next, pulling, waiters, stop, readervars,
                   controlvars, mainvars, pull_queue, latest>>

\* mutant: the pull's snapshot reuses the number of the tick
FanoutPullSameTick(pull) ==
    /\ tick < MAX_TICK
    /\ tick' = IF pull THEN tick ELSE tick + 1
    /\ poller' = "fanout" /\ next' = 1 /\ pulling' = pull

Fanout(pull) ==
    /\ tick < MAX_TICK
    /\ tick' = tick + 1
    /\ poller' = "fanout" /\ next' = 1 /\ pulling' = pull

TakeSnapshot ==
    /\ poller = "snapshot"
    /\ \/ Fanout(FALSE) /\ UNCHANGED connected
       \/ /\ connected' = FALSE /\ poller' = "top"
          /\ UNCHANGED <<tick, next, pulling>>
    /\ UNCHANGED <<waiters, stop, readervars, controlvars, mainvars,
                   pull_queue, latest>>

SendNext ==
    /\ poller = "fanout" /\ next \in Channels
    /\ TrySend(next, tick)
    /\ next' = next + 1
    /\ UNCHANGED <<poller, connected, tick, pulling, waiters, stop, thread,
                   taken, disabled, controlvars, mainvars, pull_queue, latest>>

FanoutDone ==
    /\ poller = "fanout" /\ next \notin Channels
    /\ poller' = IF pulling THEN "reply" ELSE "drain"
    /\ next' = 1 /\ pulling' = FALSE
    /\ UNCHANGED <<connected, tick, waiters, stop, readervars, controlvars,
                   mainvars, pull_queue, latest>>

DrainPull ==
    /\ poller = "drain" /\ pull_queue # <<>>
    /\ waiters' = Append(waiters, Head(pull_queue))
    /\ pull_queue' = Tail(pull_queue)
    /\ UNCHANGED <<poller, connected, tick, next, pulling, stop, readervars,
                   controlvars, mainvars, latest>>

DrainDone ==
    /\ poller = "drain" /\ pull_queue = <<>>
    /\ poller' = IF waiters = <<>> THEN "sleep" ELSE "pull"
    /\ UNCHANGED <<connected, tick, next, pulling, waiters, stop, readervars,
                   controlvars, mainvars, pull_queue, latest>>

\* mutant: the pull is served with the tick's snapshot
PullSnapshotCached ==
    /\ poller = "pull"
    /\ poller' = "reply"
    /\ UNCHANGED <<tick, next, pulling, connected, waiters, stop, readervars,
                   controlvars, mainvars, pull_queue, latest>>

\* A failed pull keeps the connection; its waiters are left to time out.
PullSnapshot ==
    /\ poller = "pull"
    /\ \/ Fanout(TRUE)
       \/ poller' = "sleep" /\ UNCHANGED <<tick, next, pulling>>
    /\ UNCHANGED <<connected, waiters, stop, readervars, controlvars,
                   mainvars, pull_queue, latest>>

\* The send fails when the requester has given up and dropped its receiver.
Reply ==
    /\ poller = "reply" /\ next \in 1..Len(waiters)
    /\ reply' = IF control = "waiting" /\ request = waiters[next]
                THEN tick ELSE reply
    /\ next' = next + 1
    /\ UNCHANGED <<poller, connected, tick, pulling, waiters, stop, readervars,
                   control, request, asked, pulls, mainvars,
                   pull_queue, latest>>

ReplyDone ==
    /\ poller = "reply" /\ next > Len(waiters)
    /\ poller' = "sleep" /\ next' = 1
    /\ UNCHANGED <<connected, tick, pulling, waiters, stop, readervars,
                   controlvars, mainvars, pull_queue, latest>>

\* pull_waiters lives to the end of the loop body, past the sleep.
Wake ==
    /\ poller \in {"sleep", "backoff"}
    /\ poller' = "top"
    /\ waiters' = <<>>
    /\ UNCHANGED <<connected, tick, next, pulling, stop, readervars,
                   controlvars, mainvars, pull_queue, latest>>

Poller ==
    \/ PollerExit \/ Connect \/ TakeSnapshot \/ SendNext \/ FanoutDone
    \/ DrainPull \/ DrainDone \/ PullSnapshot \/ Reply \/ ReplyDone \/ Wake

(***************************************************************************)
(* The readers: an exporter thread, and the snapshot-to-control thread.    *)
(***************************************************************************)
readerUnchanged == UNCHANGED <<pollervars, controlvars, mainvars, pull_queue>>

Receive(c) ==
    /\ thread[c] = "recv" /\ queue[c] # <<>>
    /\ taken' = [taken EXCEPT ![c] = Head(queue[c])]
    /\ queue' = [queue EXCEPT ![c] = Tail(@)]
    /\ thread' = [thread EXCEPT ![c] = "export"]
    /\ readerUnchanged /\ UNCHANGED <<disabled, latest>>

\* mutant: the exporter leaves as soon as its channel is closed
ReceiveFailsAtOnce(c) ==
    /\ thread[c] = "recv" /\ Closed(c)
    /\ thread' = [thread EXCEPT ![c] = IF c = FORWARD THEN "exited" ELSE "flush"]
    /\ readerUnchanged /\ UNCHANGED <<queue, taken, disabled, latest>>

\* recv() fails once every sender is gone and the queue is empty.
ReceiveFails(c) ==
    /\ thread[c] = "recv" /\ queue[c] = <<>> /\ Closed(c)
    /\ thread' = [thread EXCEPT ![c] = IF c = FORWARD THEN "exited" ELSE "flush"]
    /\ readerUnchanged /\ UNCHANGED <<queue, taken, disabled, latest>>

\* export() succeeds, fails or passes its deadline (after a backoff the thread
\* goes on with the next snapshot, never with this one), or fails permanently
Export(c) ==
    /\ thread[c] = "export" /\ c # FORWARD
    /\ \/ thread' = [thread EXCEPT ![c] = "recv"] /\ UNCHANGED disabled
       \/ /\ thread' = [thread EXCEPT ![c] = "flush"]
          /\ disabled' = [disabled EXCEPT ![c] = TRUE]
    /\ readerUnchanged /\ UNCHANGED <<queue, taken, latest>>

\* exporter.shutdown() returns and the thread ends
Flush(c) ==
    /\ thread[c] = "flush"
    /\ thread' = [thread EXCEPT ![c] = "exited"]
    /\ readerUnchanged /\ UNCHANGED <<queue, taken, disabled, latest>>

UpdateSnapshot ==
    /\ thread[FORWARD] = "export"
    /\ latest' = taken[FORWARD]
    /\ thread' = [thread EXCEPT ![FORWARD] = "recv"]
    /\ readerUnchanged /\ UNCHANGED <<queue, taken, disabled>>

Reader(c) == Receive(c) \/ ReceiveFails(c)

(***************************************************************************)
(* The control server, one connection at a time, and handle_stats_pull.    *)
(***************************************************************************)
controlUnchanged == UNCHANGED <<pollervars, readervars, mainvars>>

Accept ==
    /\ control = "accept"
    /\ control' = IF control_stop THEN "exited" ELSE "read"
    /\ controlUnchanged
    /\ UNCHANGED <<request, asked, reply, pulls, pull_queue, latest>>

\* no request, one that is refused, or one that is not a pull
OtherRequest ==
    /\ control = "read"
    /\ control' = "accept"
    /\ controlUnchanged
    /\ UNCHANGED <<request, asked, reply, pulls, pull_queue, latest>>

StatsPull ==
    /\ control = "read" /\ pulls < MAX_PULLS
    /\ pulls' = pulls + 1
    /\ IF poller # "exited" /\ Len(pull_queue) < PULL_DEPTH
       THEN /\ pull_queue' = Append(pull_queue, pulls + 1)
            /\ request' = pulls + 1 /\ asked' = tick
            /\ control' = "waiting"
       ELSE /\ control' = "accept"
            /\ UNCHANGED <<pull_queue, request, asked>>
    /\ controlUnchanged /\ UNCHANGED <<reply, latest>>

PullReturns ==
    /\ control = "waiting" /\ reply # 0
    /\ latest' = reply
    /\ control' = "accept" /\ request' = 0 /\ asked' = 0 /\ reply' = 0
    /\ controlUnchanged /\ UNCHANGED <<pulls, pull_queue>>

\* Five seconds passed, or the poller dropped the request.
PullFails ==
    /\ control = "waiting" /\ reply = 0
    /\ control' = "accept" /\ request' = 0 /\ asked' = 0
    /\ controlUnchanged /\ UNCHANGED <<reply, pulls, pull_queue, latest>>

Control == OtherRequest \/ PullReturns \/ PullFails

(***************************************************************************)
(* Main: Frontend::stop.                                                   *)
(***************************************************************************)
mainUnchanged == UNCHANGED <<readervars, controlvars, pull_queue, latest>>

Shutdown ==
    /\ main = "running"
    /\ stop' = TRUE /\ main' = "poller"
    /\ mainUnchanged
    /\ UNCHANGED <<poller, connected, tick, next, pulling, waiters,
                   senders_kept, control_stop>>

JoinPoller ==
    /\ main = "poller" /\ poller = "exited"
    /\ main' = "forward"
    /\ mainUnchanged /\ UNCHANGED <<pollervars, senders_kept, control_stop>>

\* mutant: stop() joins the exporters before it drops their senders
JoinForwardKeepsSenders ==
    /\ main = "forward" /\ ~Receiving(FORWARD)
    /\ main' = "exporters"
    /\ mainUnchanged /\ UNCHANGED <<pollervars, senders_kept, control_stop>>

JoinForward ==
    /\ main = "forward" /\ ~Receiving(FORWARD)
    /\ senders_kept' = FALSE
    /\ main' = "exporters"
    /\ mainUnchanged /\ UNCHANGED <<pollervars, control_stop>>

JoinExporters ==
    /\ main = "exporters" /\ \A c \in Exporters : thread[c] = "exited"
    /\ control_stop' = TRUE
    /\ main' = "control"
    /\ mainUnchanged /\ UNCHANGED <<pollervars, senders_kept>>

JoinControl ==
    /\ main = "control" /\ control \in {"exited", "absent"}
    /\ main' = "done"
    /\ mainUnchanged /\ UNCHANGED <<pollervars, senders_kept, control_stop>>

Join == JoinPoller \/ JoinForward \/ JoinExporters \/ JoinControl

Next ==
    \/ Poller
    \/ \E c \in Channels : Reader(c)
    \/ \E c \in Exporters : Export(c) \/ Flush(c)
    \/ UpdateSnapshot
    \/ Accept \/ StatsPull \/ Control
    \/ Shutdown \/ Join

Spec == Init /\ [][Next]_vars

\* Threads that can run do run, a wait with a timeout ends, and the connection
\* ControlHandle::shutdown makes to itself wakes accept().  Nothing is assumed
\* of clients, of the signal that stops the program, or of an exporter's
\* export() and shutdown().
FairSpec ==
    /\ Spec
    /\ WF_vars(Poller)
    /\ \A c \in Channels : WF_vars(Reader(c))
    /\ WF_vars(UpdateSnapshot)
    /\ WF_vars(Control)
    /\ WF_vars(control_stop /\ Accept)
    /\ WF_vars(Join)
-----------------------------------------------------------------------------
InTransit(c) == <<taken[c]>> \o queue[c]

(***************************************************************************)
(* Every reader receives distinct snapshots in the order they were taken,  *)
(* though a tick and the pull that follows it fan out through the same     *)
(* queues and any of them may be dropped at any queue: an exporter of      *)
(* delta counters would otherwise report a tick twice.  (poller.rs,        *)
(* run_loop: both fan-outs.)                                               *)
(***************************************************************************)
ChannelsInOrder ==
    \A c \in Channels : \A i, j \in 1..Len(InTransit(c)) :
        i < j => InTransit(c)[i] < InTransit(c)[j]

(***************************************************************************)
(* A pull is answered with a snapshot taken after it was sent, never with  *)
(* that of a tick in progress when it arrived, nor with the answer to an   *)
(* earlier pull that timed out.  (run_loop drains the pull channel before  *)
(* the snapshot that serves it; handle_stats_pull makes a reply channel    *)
(* per request.)                                                           *)
(***************************************************************************)
FreshReply == reply # 0 => asked < reply

(***************************************************************************)
(* Every snapshot queued when the program is stopped is handed to its      *)
(* exporter (and to the control server) before its thread ends, unless a   *)
(* permanent error had disabled it.  (Frontend::stop closes the channels   *)
(* "so exporters drain".)                                                  *)
(***************************************************************************)
DrainedOnShutdown ==
    \A c \in Channels :
        thread[c] = "exited" /\ ~disabled[c] => queue[c] = <<>>

(***************************************************************************)
(* The poller always comes back to the top of its loop, though exporters   *)
(* may hang in export() for ever and pull requesters give up at any time.  *)
(* (run_loop: try_send to exporters, one-shot reply channels.)             *)
(***************************************************************************)
PollerNeverBlocks == []<>(poller \in {"top", "exited"})

(***************************************************************************)
(* Once asked to stop, main joins every thread and returns, provided no    *)
(* exporter hangs in export() or shutdown(): no thread waits for a channel *)
(* another still holds open.  (Frontend::stop and the shutdown contract of *)
(* ExporterHandle.)                                                        *)
(***************************************************************************)
ShutdownTerminates ==
    (\A c \in Exporters : []<>(thread[c] \notin {"export", "flush"}))
        => (main # "running" ~>
              /\ main = "done" /\ poller = "exited"
              /\ \A c \in Channels : ~Receiving(c))
=============================================================================
