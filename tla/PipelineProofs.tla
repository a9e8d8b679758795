--------------------------- MODULE PipelineProofs ---------------------------
(***************************************************************************)
(* Proofs about Pipeline, for any number of exporters, queue depths, ticks *)
(* and pulls: the order in the channels, the freshness of the answer to a  *)
(* pull, and that nothing queued is lost when the program stops.           *)
(***************************************************************************)
EXTENDS Pipeline, TLAPS

(***************************************************************************)
(* The channels.  What is queued or was received is no newer than the last *)
(* snapshot, and older where the fan-out in progress has yet to send it.   *)
(***************************************************************************)
Typed ==
    /\ tick \in Nat /\ next \in Nat
    /\ queue \in [Channels -> Seq(Nat)]
    /\ taken \in [Channels -> Nat]
    /\ thread \in [Channels -> {"recv", "export", "flush", "exited", "absent"}]
    /\ disabled \in [Channels -> BOOLEAN]

Older(c, t) ==
    taken[c] <= t /\ \A i \in 1..Len(queue[c]) : queue[c][i] <= t

QueueOrdered(c) ==
    /\ \A i \in 1..Len(queue[c]) : taken[c] < queue[c][i]
    /\ \A i, j \in 1..Len(queue[c]) : i < j => queue[c][i] < queue[c][j]

Ordered(c) ==
    /\ QueueOrdered(c)
    /\ Older(c, tick)
    /\ poller = "fanout" /\ next <= c => tick > 0 /\ Older(c, tick - 1)

OrderInv == Typed /\ \A c \in Channels : Ordered(c)

LEMMA OrderInit == Init => OrderInv
<1> SUFFICES ASSUME Init PROVE OrderInv
  OBVIOUS
<1>1. Typed
  BY DEF Init, Typed, Channels
<1>2. \A c \in Channels : Ordered(c)
  BY DEF Init, Ordered, QueueOrdered, Older
<1> QED
  BY <1>1, <1>2 DEF OrderInv

\* Steps that leave the channels alone and do not begin or continue a fan-out.
LEMMA OrderKept ==
    ASSUME OrderInv, UNCHANGED <<tick, queue, taken>>, Typed',
           poller' = "fanout" => poller = "fanout" /\ next' = next
    PROVE  OrderInv'
  BY DEF OrderInv, Ordered, QueueOrdered, Older

\* A new fan-out: every channel is older than its snapshot.
LEMMA OrderFanout ==
    ASSUME OrderInv, NEW pull \in BOOLEAN, Fanout(pull), UNCHANGED readervars
    PROVE  OrderInv'
<1>1. Typed'
  BY DEF OrderInv, Typed, Fanout, readervars
<1>2. ASSUME NEW c \in Channels PROVE Ordered(c)'
  BY DEF OrderInv, Typed, Ordered, QueueOrdered, Older, Fanout, readervars
<1> QED
  BY <1>1, <1>2 DEF OrderInv

\* One send: it appends the snapshot to a queue of older ones, or drops it.
LEMMA OrderSend == OrderInv /\ SendNext => OrderInv'
<1> SUFFICES ASSUME OrderInv, SendNext PROVE OrderInv'
  OBVIOUS
<1>1. /\ Typed /\ next \in Channels /\ poller = "fanout" /\ poller' = poller
      /\ next' = next + 1 /\ UNCHANGED <<tick, taken, thread, disabled>>
      /\ TrySend(next, tick)
  BY DEF OrderInv, SendNext
<1>2. queue' \in [Channels -> Seq(Nat)]
  BY <1>1 DEF Typed, TrySend
<1>3. Typed'
  BY <1>1, <1>2 DEF Typed
<1>4. ASSUME NEW c \in Channels PROVE Ordered(c)'
  <2>1. Ordered(c)
    BY DEF OrderInv
  <2>2. CASE queue'[c] = queue[c]
    BY <1>1, <2>1, <2>2 DEF Ordered, QueueOrdered, Older, Typed, Channels
  <2>3. CASE c = next /\ queue'[c] = Append(queue[c], tick)
    <3>1. queue[c] \in Seq(Nat) /\ taken[c] \in Nat /\ tick \in Nat
      BY <1>1 DEF Typed
    <3>2. Older(c, tick - 1) /\ QueueOrdered(c)
      BY <1>1, <2>1, <2>3 DEF Ordered, Typed, Channels
    <3>3. /\ Len(queue'[c]) = Len(queue[c]) + 1
          /\ \A i \in 1..Len(queue[c]) : queue'[c][i] = queue[c][i] /\ queue[c][i] \in Nat
          /\ queue'[c][Len(queue[c]) + 1] = tick
      BY <2>3, <3>1
    <3> DEFINE n == Len(queue[c])
    <3>4. n \in Nat /\ taken'[c] = taken[c] /\ taken[c] < tick /\ tick' = tick
      BY <1>1, <3>1, <3>2 DEF Older
    <3>5. ASSUME NEW i \in 1..Len(queue'[c])
          PROVE  /\ taken'[c] < queue'[c][i] /\ queue'[c][i] <= tick
                 /\ \A j \in 1..Len(queue'[c]) : i < j => queue'[c][i] < queue'[c][j]
      <4>1. CASE i \in 1..n
        <5>1. queue'[c][i] = queue[c][i] /\ queue[c][i] \in Nat /\ queue[c][i] < tick
          BY <3>1, <3>2, <3>3, <4>1 DEF Older
        <5>2. ASSUME NEW j \in 1..n, i < j PROVE queue'[c][i] < queue'[c][j]
          BY <3>2, <3>3, <4>1, <5>2 DEF QueueOrdered
        <5>3. \A j \in 1..(n + 1) : j \in 1..n \/ j = n + 1
          BY <3>4
        <5>4. taken[c] < queue[c][i]
          BY <3>2, <4>1 DEF QueueOrdered
        <5>5. queue'[c][i] < queue'[c][n + 1] /\ queue'[c][i] <= tick
          BY <3>1, <3>3, <5>1
        <5> HIDE DEF n
        <5> QED
          BY <3>3, <3>4, <5>1, <5>2, <5>3, <5>4, <5>5 DEF n
      <4>2. CASE i = n + 1
        BY <3>1, <3>3, <3>4, <4>2
      <4> QED
        BY <3>3, <3>4, <4>1, <4>2
    <3>6. QueueOrdered(c)'
      BY <3>5 DEF QueueOrdered
    <3>7. Older(c, tick)'
      BY <3>1, <3>4, <3>5 DEF Older
    <3> QED
      BY <1>1, <2>3, <3>6, <3>7 DEF Ordered, Channels
  <2>4. queue'[c] = queue[c] \/ (c = next /\ queue'[c] = Append(queue[c], tick))
    BY <1>1 DEF TrySend, Typed
  <2> QED
    BY <2>2, <2>3, <2>4
<1> QED
  BY <1>3, <1>4 DEF OrderInv

\* A reader takes the head of its queue.
LEMMA OrderReceive ==
    ASSUME OrderInv, NEW d \in Channels, Receive(d)
    PROVE  OrderInv'
<1>1. /\ Typed /\ queue[d] # << >> /\ queue[d] \in Seq(Nat)
      /\ taken' = [taken EXCEPT ![d] = Head(queue[d])]
      /\ queue' = [queue EXCEPT ![d] = Tail(queue[d])]
      /\ thread' = [thread EXCEPT ![d] = "export"]
      /\ UNCHANGED <<tick, next, poller, disabled>>
  BY DEF OrderInv, Typed, Receive, readerUnchanged, pollervars
<1>2. Typed'
  BY <1>1 DEF Typed
<1>3. ASSUME NEW c \in Channels PROVE Ordered(c)'
  <2>1. Ordered(c)
    BY DEF OrderInv
  <2>2. CASE c # d
    BY <1>1, <2>1, <2>2 DEF Ordered, QueueOrdered, Older, Typed
  <2>3. CASE c = d
    <3>1. /\ taken'[c] = queue[c][1] /\ Len(queue'[c]) = Len(queue[c]) - 1
          /\ Len(queue[c]) \in Nat \ {0}
          /\ \A i \in 1..Len(queue'[c]) : queue'[c][i] = queue[c][i + 1]
      BY <1>1, <2>3 DEF Typed
    <3>2. QueueOrdered(c)'
      <4>1. ASSUME NEW i \in 1..Len(queue'[c])
            PROVE  i + 1 \in 1..Len(queue[c]) /\ 1 \in 1..Len(queue[c]) /\ 1 < i + 1
        BY <3>1
      <4>2. ASSUME NEW i \in 1..Len(queue'[c]) PROVE taken'[c] < queue'[c][i]
        BY <2>1, <3>1, <4>1 DEF Ordered, QueueOrdered
      <4>3. ASSUME NEW i \in 1..Len(queue'[c]), NEW j \in 1..Len(queue'[c]), i < j
            PROVE  queue'[c][i] < queue'[c][j]
        <5>1. i + 1 < j + 1
          BY <4>3
        <5> QED
          BY <2>1, <3>1, <4>1, <5>1 DEF Ordered, QueueOrdered
      <4> QED
        BY <4>2, <4>3 DEF QueueOrdered
    <3>3. \A t \in Nat : Older(c, t) => Older(c, t)'
      BY <3>1 DEF Older
    <3>4. Older(c, tick)'
      BY <1>1, <2>1, <3>1 DEF Older, Ordered
    <3>5. (poller = "fanout" /\ next <= c => tick > 0 /\ Older(c, tick - 1))'
      BY <1>1, <2>1, <3>1 DEF Older, Ordered
    <3> QED
      BY <3>2, <3>4, <3>5 DEF Ordered
  <2> QED
    BY <2>2, <2>3
<1> QED
  BY <1>2, <1>3 DEF OrderInv

LEMMA OrderStep == OrderInv /\ [Next]_vars => OrderInv'
<1> SUFFICES ASSUME OrderInv, [Next]_vars PROVE OrderInv'
  OBVIOUS
<1>1. Typed
  BY DEF OrderInv
<1>2. ASSUME UNCHANGED <<tick, queue, taken, thread, disabled>>, next' \in Nat,
             poller' = "fanout" => poller = "fanout" /\ next' = next
      PROVE  OrderInv'
  BY <1>1, <1>2, OrderKept DEF Typed
<1>3. CASE PollerExit \/ Connect \/ DrainPull \/ DrainDone \/ Wake
  BY <1>1, <1>2, <1>3 DEF PollerExit, Connect, DrainPull, DrainDone, Wake, readervars, Typed
<1>4. CASE FanoutDone \/ Reply \/ ReplyDone
  BY <1>1, <1>2, <1>4 DEF FanoutDone, Reply, ReplyDone, readervars, Typed
<1>5. CASE TakeSnapshot \/ PullSnapshot
  <2>1. CASE Fanout(TRUE) \/ Fanout(FALSE)
    BY <1>5, <2>1, OrderFanout DEF TakeSnapshot, PullSnapshot
  <2>2. CASE poller' \in {"top", "sleep"} /\ UNCHANGED <<tick, next>>
    BY <1>1, <1>2, <1>5, <2>2 DEF TakeSnapshot, PullSnapshot, readervars, Typed
  <2> QED
    BY <1>5, <2>1, <2>2 DEF TakeSnapshot, PullSnapshot
<1>6. CASE SendNext
  BY <1>6, OrderSend
<1>7. CASE \E c \in Channels : Receive(c)
  BY <1>7, OrderReceive
<1>8. ASSUME NEW c \in Channels, ReceiveFails(c) \/ Export(c) \/ Flush(c) PROVE OrderInv'
  <2>1. Typed' /\ UNCHANGED <<tick, next, poller, queue, taken>>
    BY <1>1, <1>8 DEF ReceiveFails, Export, Flush, readerUnchanged, pollervars, Typed
  <2> QED
    BY <2>1, OrderKept
<1>9. CASE UpdateSnapshot
  <2>1. Typed' /\ UNCHANGED <<tick, next, poller, queue, taken>>
    BY <1>1, <1>9 DEF UpdateSnapshot, readerUnchanged, pollervars, Typed
  <2> QED
    BY <2>1, OrderKept
<1>10. CASE Accept \/ StatsPull \/ Control
  BY <1>1, <1>2, <1>10 DEF Accept, StatsPull, Control, OtherRequest, PullReturns, PullFails,
                      controlUnchanged, pollervars, readervars, Typed
<1>11. CASE Shutdown \/ Join
  BY <1>1, <1>2, <1>11 DEF Shutdown, Join, JoinPoller, JoinForward, JoinExporters, JoinControl,
                      mainUnchanged, pollervars, readervars, Typed
<1>12. CASE UNCHANGED vars
  BY <1>1, <1>2, <1>12 DEF vars, pollervars, readervars, Typed
<1>13. Exporters \subseteq Channels
  BY PipelineAssumption DEF Exporters, Channels, FORWARD
<1> QED
  BY <1>3, <1>4, <1>5, <1>6, <1>7, <1>8, <1>9, <1>10, <1>11, <1>12, <1>13
     DEF Next, Poller, Reader

(***************************************************************************)
(* Every reader gets distinct snapshots in the order they were taken,      *)
(* whatever is dropped at full queues (run_loop's two fan-outs).           *)
(***************************************************************************)
THEOREM ChannelsInOrderCorrect == Spec => []ChannelsInOrder
<1>1. ASSUME OrderInv PROVE ChannelsInOrder
  <2> SUFFICES ASSUME NEW c \in Channels,
                      NEW i \in 1..Len(InTransit(c)), NEW j \in 1..Len(InTransit(c)), i < j
               PROVE  InTransit(c)[i] < InTransit(c)[j]
    BY DEF ChannelsInOrder
  <2>1. queue[c] \in Seq(Nat) /\ taken[c] \in Nat /\ QueueOrdered(c)
    BY <1>1 DEF OrderInv, Typed, Ordered
  <2>2. /\ Len(InTransit(c)) = Len(queue[c]) + 1
        /\ InTransit(c)[1] = taken[c]
        /\ \A k \in 1..Len(queue[c]) : InTransit(c)[k + 1] = queue[c][k]
    BY <2>1 DEF InTransit
  <2>3. j - 1 \in 1..Len(queue[c]) /\ InTransit(c)[j] = queue[c][j - 1]
    BY <2>1, <2>2
  <2>4. CASE i = 1
    BY <2>1, <2>2, <2>3, <2>4 DEF QueueOrdered
  <2>5. CASE i # 1
    <3>1. i - 1 \in 1..Len(queue[c]) /\ InTransit(c)[i] = queue[c][i - 1]
      BY <2>1, <2>2, <2>5
    <3>2. i - 1 < j - 1
      BY <2>2
    <3> QED
      BY <2>1, <2>3, <3>1, <3>2 DEF QueueOrdered
  <2> QED
    BY <2>4, <2>5
<1> QED
  BY <1>1, OrderInit, OrderStep, PTL DEF Spec
-----------------------------------------------------------------------------
(***************************************************************************)
(* Shutdown.  A thread leaves its loop on a permanent error, or when its   *)
(* channel is empty and closed; closed, nothing is added to it again.      *)
(***************************************************************************)
DrainInv ==
    /\ thread \in [Channels -> {"recv", "export", "flush", "exited", "absent"}]
    /\ disabled \in [Channels -> BOOLEAN]
    /\ queue \in [Channels -> Seq(Nat)] /\ tick \in Nat
    /\ \A c \in Channels :
          thread[c] \in {"flush", "exited"} /\ ~disabled[c]
              => queue[c] = << >> /\ poller = "exited"

LEMMA DrainInit == Init => DrainInv
  BY DEF Init, DrainInv, Channels

LEMMA DrainStep == DrainInv /\ [Next]_vars => DrainInv'
<1> SUFFICES ASSUME DrainInv, [Next]_vars PROVE DrainInv'
  OBVIOUS
<1>1. ASSUME UNCHANGED <<queue, thread, disabled>>, tick' \in Nat,
             poller = "exited" => poller' = "exited"
      PROVE  DrainInv'
  BY <1>1 DEF DrainInv
<1>2. CASE PollerExit \/ Connect \/ FanoutDone \/ DrainPull \/ DrainDone
  BY <1>1, <1>2 DEF DrainInv, PollerExit, Connect, FanoutDone, DrainPull, DrainDone, readervars
<1>3. CASE TakeSnapshot \/ PullSnapshot \/ Reply \/ ReplyDone \/ Wake
  BY <1>1, <1>3 DEF DrainInv, TakeSnapshot, PullSnapshot, Fanout, Reply, ReplyDone, Wake, readervars
<1>4. CASE SendNext
  <2>1. /\ next \in Channels /\ poller = "fanout" /\ UNCHANGED <<poller, tick, thread, disabled>>
        /\ \/ queue' = queue
           \/ queue' = [queue EXCEPT ![next] = Append(@, tick)]
    BY <1>4 DEF SendNext, TrySend
  <2>2. queue' \in [Channels -> Seq(Nat)]
    BY <1>4 DEF DrainInv, SendNext, TrySend
  <2> QED
    BY <2>1, <2>2 DEF DrainInv
<1>5. ASSUME NEW c \in Channels, Receive(c) PROVE DrainInv'
  BY <1>5 DEF DrainInv, Receive, readerUnchanged, pollervars
<1>6. ASSUME NEW c \in Channels, ReceiveFails(c) PROVE DrainInv'
  BY <1>6 DEF DrainInv, ReceiveFails, Closed, readerUnchanged, pollervars
<1>7. ASSUME NEW c \in Channels, Export(c) \/ Flush(c) PROVE DrainInv'
  BY <1>7 DEF DrainInv, Export, Flush, readerUnchanged, pollervars
<1>8. CASE UpdateSnapshot
  BY <1>8 DEF DrainInv, UpdateSnapshot, readerUnchanged, pollervars
<1>9. CASE Accept \/ StatsPull \/ Control
  BY <1>1, <1>9 DEF DrainInv, Accept, StatsPull, Control, OtherRequest, PullReturns, PullFails,
                    controlUnchanged, pollervars, readervars
<1>10. CASE Shutdown \/ Join
  BY <1>1, <1>10 DEF DrainInv, Shutdown, Join, JoinPoller, JoinForward, JoinExporters,
                     JoinControl, mainUnchanged, pollervars, readervars
<1>11. CASE UNCHANGED vars
  BY <1>1, <1>11 DEF DrainInv, vars, pollervars, readervars
<1>12. Exporters \subseteq Channels
  BY PipelineAssumption DEF Exporters, Channels, FORWARD
<1> QED
  BY <1>2, <1>3, <1>4, <1>5, <1>6, <1>7, <1>8, <1>9, <1>10, <1>11, <1>12
     DEF Next, Poller, Reader

(***************************************************************************)
(* Nothing queued when the program is stopped is lost, unless a permanent  *)
(* error had disabled the exporter (Frontend::stop, the exporter's loop).  *)
(***************************************************************************)
THEOREM DrainedOnShutdownCorrect == Spec => []DrainedOnShutdown
<1>1. DrainInv => DrainedOnShutdown
  BY DEF DrainInv, DrainedOnShutdown
<1> QED
  BY <1>1, DrainInit, DrainStep, PTL DEF Spec
-----------------------------------------------------------------------------
(***************************************************************************)
(* Pulls.  A request among the waiters was sent before the snapshot that   *)
(* is taken for it: by the time the replies are sent, tick has passed it.  *)
(***************************************************************************)
Serving == poller = "reply" \/ (poller = "fanout" /\ pulling)

FreshInv ==
    /\ tick \in Nat /\ asked \in Nat /\ reply \in Nat /\ next \in Nat
    /\ pulls \in Nat /\ request \in Nat
    /\ waiters \in Seq(Nat) /\ pull_queue \in Seq(Nat)
    /\ \A i \in 1..Len(waiters) : waiters[i] <= pulls
    /\ \A i \in 1..Len(pull_queue) : pull_queue[i] <= pulls
    /\ request <= pulls /\ asked <= tick
    /\ reply # 0 => control = "waiting" /\ asked < reply
    /\ (\E i \in 1..Len(waiters) : control = "waiting" /\ waiters[i] = request)
          => (Serving => asked < tick)

LEMMA FreshInit == Init => FreshInv
  BY DEF Init, FreshInv

\* Steps that touch neither the requests nor the snapshot count.
LEMMA FreshKept ==
    ASSUME FreshInv, UNCHANGED <<tick, controlvars, waiters, pull_queue>>,
           next' \in Nat, Serving' => Serving
    PROVE  FreshInv'
  BY DEF FreshInv, Serving, controlvars

LEMMA FreshPoller == FreshInv /\ Poller => FreshInv'
<1> SUFFICES ASSUME FreshInv, Poller PROVE FreshInv'
  OBVIOUS
<1>1. CASE Connect \/ DrainDone \/ FanoutDone \/ ReplyDone \/ SendNext
  <2>1. UNCHANGED <<tick, controlvars, waiters, pull_queue>> /\ next' \in Nat
    BY <1>1 DEF FreshInv, Connect, DrainDone, FanoutDone, ReplyDone, SendNext
  <2>2. Serving' => Serving
    BY <1>1 DEF Connect, DrainDone, FanoutDone, ReplyDone, SendNext, Serving
  <2> QED
    BY <2>1, <2>2, FreshKept
<1>2. CASE PollerExit
  BY <1>2 DEF FreshInv, PollerExit, Serving, controlvars
<1>3. CASE Wake
  BY <1>3 DEF FreshInv, Wake, Serving, controlvars
<1>4. CASE DrainPull
  <2>1. /\ pull_queue \in Seq(Nat) /\ pull_queue # << >> /\ waiters \in Seq(Nat)
        /\ waiters' = Append(waiters, Head(pull_queue)) /\ pull_queue' = Tail(pull_queue)
        /\ ~Serving' /\ UNCHANGED <<tick, next, controlvars>>
    BY <1>4 DEF FreshInv, DrainPull, Serving
  <2>2. waiters' \in Seq(Nat) /\ \A i \in 1..Len(waiters') : waiters'[i] <= pulls
    <3>1. Head(pull_queue) \in Nat /\ Head(pull_queue) <= pulls
      BY <2>1 DEF FreshInv
    <3> QED
      BY <2>1, <3>1 DEF FreshInv
  <2>3. pull_queue' \in Seq(Nat) /\ \A i \in 1..Len(pull_queue') : pull_queue'[i] <= pulls
    BY <2>1 DEF FreshInv
  <2> QED
    BY <2>1, <2>2, <2>3 DEF FreshInv, controlvars
<1>5. CASE TakeSnapshot \/ PullSnapshot
  <2>1. UNCHANGED <<controlvars, waiters, pull_queue>>
    BY <1>5 DEF TakeSnapshot, PullSnapshot
  <2>2. \/ tick' = tick + 1 /\ next' = 1
        \/ tick' = tick /\ next' = next /\ ~Serving'
    BY <1>5 DEF TakeSnapshot, PullSnapshot, Fanout, Serving
  <2> QED
    BY <2>1, <2>2 DEF FreshInv, controlvars
<1>6. CASE Reply
  BY <1>6 DEF FreshInv, Reply, Serving
<1> QED
  BY <1>1, <1>2, <1>3, <1>4, <1>5, <1>6 DEF Poller

LEMMA FreshStep == FreshInv /\ [Next]_vars => FreshInv'
<1> SUFFICES ASSUME FreshInv, [Next]_vars PROVE FreshInv'
  OBVIOUS
<1>1. CASE Poller
  BY <1>1, FreshPoller
<1>2. ASSUME UNCHANGED <<pollervars, controlvars, pull_queue>> PROVE FreshInv'
  BY <1>2, FreshKept DEF FreshInv, Serving, pollervars
<1>3. ASSUME NEW c \in Channels, Reader(c) \/ Export(c) \/ Flush(c) PROVE FreshInv'
  BY <1>2, <1>3 DEF Reader, Receive, ReceiveFails, Export, Flush, readerUnchanged
<1>4. CASE UpdateSnapshot
  BY <1>2, <1>4 DEF UpdateSnapshot, readerUnchanged
<1>5. CASE Accept \/ OtherRequest \/ PullReturns \/ PullFails
  BY <1>5 DEF FreshInv, Accept, OtherRequest, PullReturns, PullFails, controlUnchanged,
              pollervars, Serving
<1>6. CASE StatsPull
  <2>1. CASE UNCHANGED <<pull_queue, request, asked>>
    BY <1>6, <2>1 DEF FreshInv, StatsPull, controlUnchanged, pollervars, Serving
  <2>2. CASE /\ pull_queue' = Append(pull_queue, pulls + 1)
             /\ request' = pulls + 1 /\ asked' = tick
    <3>1. /\ pulls' = pulls + 1 /\ reply' = reply /\ control = "read"
          /\ UNCHANGED pollervars
      BY <1>6 DEF StatsPull, controlUnchanged
    <3>2. pull_queue' \in Seq(Nat) /\ \A i \in 1..Len(pull_queue') : pull_queue'[i] <= pulls'
      BY <2>2, <3>1 DEF FreshInv
    <3>3. \A i \in 1..Len(waiters') : waiters'[i] < request'
      BY <2>2, <3>1 DEF FreshInv, pollervars
    <3> QED
      BY <2>2, <3>1, <3>2, <3>3 DEF FreshInv, pollervars
  <2> QED
    BY <1>6, <2>1, <2>2 DEF StatsPull
<1>7. CASE Shutdown
  BY <1>7, FreshKept DEF FreshInv, Shutdown, mainUnchanged, Serving
<1>8. CASE Join
  BY <1>2, <1>8 DEF Join, JoinPoller, JoinForward, JoinExporters, JoinControl, mainUnchanged
<1>9. CASE UNCHANGED vars
  BY <1>2, <1>9 DEF vars
<1>10. Exporters \subseteq Channels
  BY PipelineAssumption DEF Exporters, Channels, FORWARD
<1> QED
  BY <1>1, <1>3, <1>4, <1>5, <1>6, <1>7, <1>8, <1>9, <1>10 DEF Next, Control

(***************************************************************************)
(* A pull is answered with a snapshot newer than itself, never with the    *)
(* answer to an earlier one that timed out (run_loop, handle_stats_pull).  *)
(***************************************************************************)
THEOREM FreshReplyCorrect == Spec => []FreshReply
<1>1. FreshInv => FreshReply
  BY DEF FreshInv, FreshReply
<1> QED
  BY <1>1, FreshInit, FreshStep, PTL DEF Spec
=============================================================================
