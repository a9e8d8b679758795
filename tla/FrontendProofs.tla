--------------------------- MODULE FrontendProofs ---------------------------
(***************************************************************************)
(* Proofs about what the frontend makes of a snapshot and of what it is    *)
(* told, for every number of rules and flows.                              *)
(*                                                                         *)
(* OtlpExport, for every cap, batch size and number of retries: a tick's   *)
(* points stay within the cap, slicing loses, repeats and reorders none of *)
(* them, and what is reported as sent did arrive.                          *)
(*                                                                         *)
(* ConfigRules, for every rule and configuration and all limits: both      *)
(* languages accept the same rules, a decoded key is the one encoded, and  *)
(* a configuration that is accepted starts.                                *)
(*                                                                         *)
(* Stats, for every set of rules and keys, every number of workers and     *)
(* snapshots of any length: the packets counted for a rule are accounted   *)
(* for, whatever falls between the poller's calls.                         *)
(***************************************************************************)
EXTENDS Stats, OtlpExport, ConfigRules, ListLemmas, FiniteSetTheorems

-----------------------------------------------------------------------------
(* A rule's share of the cap: at most its part of it, and less than one    *)
(* short of it; a rule with flows gets fewer points than it has.           *)
Share(q, cap, total, n) ==
    /\ q \in Nat /\ total * q <= cap * n /\ cap * n <= total * q + (total - 1)
    /\ n = 0 => q = 0
    /\ n # 0 => q < n

(* Dividing the cap in proportion gives such a share.                      *)
LEMMA ShareFacts ==
    ASSUME NEW cap \in Nat, NEW total \in Nat, cap < total, NEW n \in Nat,
           NEW q, q = (cap * n) \div total
    PROVE  Share(q, cap, total, n)
<1>1. cap * n \in Nat /\ total \in Nat /\ total > 0
  OBVIOUS
<1> DEFINE a == cap * n
<1>2. a \in Nat
  BY <1>1
<1>3. n = 0 => a = 0
  OBVIOUS
<1>4. n # 0 => a < total * n
  <2>1. SUFFICES ASSUME n > 0 PROVE cap * n < total * n
    OBVIOUS
  <2>2. (total - cap) * n = total * n - cap * n /\ (total - cap) * n > 0
    BY <2>1
  <2> QED
    BY <1>1, <2>2
<1>5. q = a \div total
  OBVIOUS
<1> HIDE DEF a
<1>6. q \in Int /\ total * q <= a /\ a < total * q + total
  BY <1>1, <1>2, <1>5
<1>7. q \in Nat
  BY ONLY <1>1, <1>2, <1>6
<1>8. n = 0 => q = 0
  BY <1>1, <1>3, <1>6, <1>7
<1>9. n # 0 => q < n
  <2>1. SUFFICES ASSUME n # 0, q >= n PROVE FALSE
    BY <1>7
  <2>2. total * (q - n) >= 0
    BY <1>1, <1>7, <2>1
  <2>3. total * (q - n) = total * q - total * n
    BY <1>7
  <2>4. total * q \in Int /\ total * n \in Int
    BY <1>7
  <2> QED
    BY <1>2, <1>4, <1>6, <2>1, <2>2, <2>3, <2>4
<1>10. a <= total * q + (total - 1)
  BY <1>2, <1>6, <1>7
<1> QED
  BY <1>6, <1>7, <1>8, <1>9, <1>10 DEF a, Share

(* The flows' cap is a number, and unless it is 0 it keeps the points of a *)
(* tick within max_export.points_per_tick.                                 *)
LEMMA CapFacts ==
    ASSUME NEW snap \in Seq(Nat)
    PROVE  /\ EffectiveCap(snap) \in Nat
           /\ \/ EffectiveCap(snap) = 0
              \/ POINTS_PER_FLOW * EffectiveCap(snap) + POINTS_PER_FLOW_RULE * Len(snap)
                   <= MAX_EXPORT_POINTS
<1> DEFINE n == Len(snap)
           m == MAX_EXPORT_POINTS
           d == (m - n * 5) \div 3
<1>1. m \in Nat /\ n \in Nat
  BY OtlpAssumption
<1>2. EffectiveCap(snap) = IF m < n * 5 THEN 0 ELSE d
  BY DEF EffectiveCap, POINTS_PER_FLOW, POINTS_PER_FLOW_RULE
<1> HIDE DEF n, m
<1>3. m >= n * 5 => d \in Nat /\ 3 * d <= m - n * 5
  BY <1>1
<1> HIDE DEF d
<1>4. EffectiveCap(snap) \in Nat /\ (EffectiveCap(snap) = 0 \/ 3 * EffectiveCap(snap) + 5 * n <= m)
  BY <1>1, <1>2, <1>3
<1> QED
  BY <1>4 DEF POINTS_PER_FLOW, POINTS_PER_FLOW_RULE, n, m

(* What of the shares is given out and what the rounding left.             *)
LEMMA SharesFacts ==
    ASSUME NEW cap \in Nat, NEW snap \in Seq(Nat), cap < Total(snap),
           NEW share, share = [r \in DOMAIN snap |-> (cap * snap[r]) \div Total(snap)]
    PROVE  /\ share \in Seq(Nat) /\ Len(share) = Len(snap)
           /\ \A r \in 1..Len(snap) : IF snap[r] = 0 THEN share[r] = 0 ELSE share[r] < snap[r]
           /\ cap - Total(share) \in 0..Len(snap)
<1> DEFINE n == Len(snap)
           total == Total(snap)
<1>1. /\ n \in Nat /\ DOMAIN snap = 1..n /\ \A r \in 1..n : snap[r] \in Nat
      /\ snap \in Seq(Int)
  OBVIOUS
<1>2. total \in Nat /\ cap < total
  BY TotalNat
<1> HIDE DEF n, total
<1>3. ASSUME NEW r \in 1..n
      PROVE  /\ share[r] \in Nat
             /\ total * share[r] <= cap * snap[r]
             /\ cap * snap[r] <= total * share[r] + (total - 1)
             /\ IF snap[r] = 0 THEN share[r] = 0 ELSE share[r] < snap[r]
  <2>1. PICK k \in Nat : k = snap[r]
    BY <1>1
  <2>2. PICK q : q = (cap * k) \div total
    OBVIOUS
  <2>3. share[r] = q
    BY <1>1, <2>1, <2>2 DEF total
  <2>4. Share(q, cap, total, k)
    BY <1>2, <2>2, ShareFacts
  <2> QED
    BY ONLY <2>1, <2>3, <2>4 DEF Share
<1>4. share \in Seq(Nat) /\ Len(share) = n
  BY <1>1, <1>3
<1>5. share \in Seq(Int) /\ Total(share) \in Nat
  BY <1>4, TotalNat
<1> DEFINE scaled == [r \in 1..n |-> total * share[r]]
           part == [r \in 1..n |-> cap * snap[r]]
           more == [r \in 1..n |-> total * share[r] + (total - 1)]
           rest == [r \in 1..n |-> total - 1]
<1>6. /\ scaled \in Seq(Int) /\ Len(scaled) = n /\ \A r \in 1..n : scaled[r] = total * share[r]
      /\ part \in Seq(Int) /\ Len(part) = n /\ \A r \in 1..n : part[r] = cap * snap[r]
  <2>1. \A r \in 1..n : total * share[r] \in Int /\ cap * snap[r] \in Int
    BY <1>1, <1>2, <1>3
  <2> QED
    BY <1>1, <2>1
<1>7. /\ rest \in Seq(Int) /\ Len(rest) = n /\ \A r \in 1..n : rest[r] = total - 1
  BY <1>1, <1>2
<1>8. more \in Seq(Int) /\ Len(more) = n /\ \A r \in 1..n : more[r] = scaled[r] + rest[r]
  <2>1. ASSUME NEW r \in 1..n PROVE total * share[r] + (total - 1) \in Int
    <3>1. share[r] \in Nat
      BY <1>3
    <3>2. total * share[r] \in Int
      BY <1>2, <3>1
    <3> QED
      BY <1>2, <3>2
  <2> QED
    BY <1>1, <1>6, <1>7, <2>1
<1>9. \A r \in 1..n : scaled[r] <= part[r] /\ part[r] <= more[r]
  BY <1>3
<1> HIDE DEF scaled, part, more, rest
<1>10. Total(scaled) = total * Total(share)
  <2>1. /\ share \in Seq(Int) /\ scaled \in Seq(Int) /\ total \in Int /\ Len(scaled) = Len(share)
        /\ \A r \in 1..Len(share) : scaled[r] = total * share[r]
    BY <1>2, <1>4, <1>5, <1>6
  <2> QED
    BY ONLY <2>1, TotalScaled
<1>11. Total(part) = cap * total
  <2>1. /\ snap \in Seq(Int) /\ part \in Seq(Int) /\ cap \in Int /\ Len(part) = Len(snap)
        /\ \A r \in 1..Len(snap) : part[r] = cap * snap[r]
    BY <1>1, <1>6 DEF n
  <2>2. Total(part) = cap * Total(snap)
    BY ONLY <2>1, TotalScaled
  <2> QED
    BY <2>2 DEF total
<1>12. Total(rest) = n * (total - 1)
  <2>1. PICK c \in Int : c = total - 1
    BY <1>2
  <2>2. rest \in Seq(Int) /\ Len(rest) = n /\ \A r \in 1..Len(rest) : rest[r] = c
    BY <1>7, <2>1
  <2>3. Total(rest) = Len(rest) * c
    BY ONLY <2>1, <2>2, TotalConst
  <2> QED
    BY ONLY <2>1, <2>2, <2>3
<1>13. Total(more) = Total(scaled) + Total(rest)
  <2>1. /\ scaled \in Seq(Int) /\ rest \in Seq(Int) /\ more \in Seq(Int)
        /\ Len(rest) = Len(scaled) /\ Len(more) = Len(scaled)
        /\ \A r \in 1..Len(scaled) : more[r] = scaled[r] + rest[r]
    BY <1>6, <1>7, <1>8
  <2> QED
    BY ONLY <2>1, TotalPlus
<1>14. Total(scaled) <= Total(part) /\ Total(part) <= Total(more)
  BY <1>6, <1>8, <1>9, TotalMonotone
<1> DEFINE x == Total(share)
<1>15. x \in Nat /\ total * x <= cap * total /\ cap * total <= total * x + n * (total - 1)
  BY <1>5, <1>10, <1>11, <1>12, <1>13, <1>14
<1> HIDE DEF x
<1>16. x <= cap
  <2>1. SUFFICES ASSUME x >= cap + 1 PROVE FALSE
    BY <1>15
  <2>2. total * x >= total * (cap + 1)
    BY <1>2, <1>15, <2>1
  <2>3. total * (cap + 1) = cap * total + total
    BY <1>2
  <2>4. total * x \in Int /\ cap * total \in Int
    BY <1>2, <1>15
  <2> QED
    BY <1>2, <1>15, <2>2, <2>3, <2>4
<1>17. cap - x <= n
  <2>1. SUFFICES ASSUME cap - x >= n + 1 PROVE FALSE
    BY <1>1, <1>15
  <2>2. total * (cap - x) >= total * (n + 1)
    BY <1>1, <1>2, <1>15, <2>1
  <2>3. /\ total * (cap - x) = cap * total - total * x
        /\ total * (n + 1) = n * total + total
        /\ n * (total - 1) = n * total - n
    BY <1>1, <1>2, <1>15
  <2>4. PICK p \in Int, q \in Int, m \in Int : p = total * x /\ q = cap * total /\ m = n * total
    BY <1>1, <1>2, <1>15
  <2>5. q - p >= m + total /\ q <= p + (m - n)
    BY ONLY <1>15, <2>2, <2>3, <2>4
  <2> QED
    BY ONLY <1>1, <1>2, <2>4, <2>5
<1>18. cap - x \in 0..n
  BY <1>1, <1>15, <1>16, <1>17
<1> QED
  BY <1>3, <1>4, <1>18 DEF n, x

(* A one for every rule without flows.                                     *)
Empties(snap) == [r \in DOMAIN snap |-> IF snap[r] = 0 THEN 1 ELSE 0]

(* What build_request emits of a snapshot: no more flows than there are and*)
(* than the cap allows, and no fewer, but for the rules without flows.     *)
Emission(snap) ==
    /\ FlowsEmitted(snap) \in Seq(Nat) /\ Len(FlowsEmitted(snap)) = Len(snap)
    /\ Total(FlowsEmitted(snap)) \in Nat /\ Total(snap) \in Nat
    /\ Total(FlowsEmitted(snap)) <= EffectiveCap(snap)
    /\ Total(FlowsEmitted(snap)) <= Total(snap)
    /\ Total(FlowsEmitted(snap)) + Total(Empties(snap)) >= Least(Total(snap), EffectiveCap(snap))

(* A rule without flows is worth one.                                      *)
LEMMA EmptiesFacts ==
    ASSUME NEW snap \in Seq(Nat)
    PROVE  /\ Empties(snap) \in Seq(Nat) /\ Len(Empties(snap)) = Len(snap)
           /\ Total(Empties(snap)) \in Nat
           /\ \A r \in 1..Len(snap) : Empties(snap)[r] = IF snap[r] = 0 THEN 1 ELSE 0
<1>1. DOMAIN snap = 1..Len(snap) /\ Len(snap) \in Nat
  OBVIOUS
<1>2. /\ Empties(snap) \in Seq(Nat) /\ Len(Empties(snap)) = Len(snap)
      /\ \A r \in 1..Len(snap) : Empties(snap)[r] = IF snap[r] = 0 THEN 1 ELSE 0
  BY <1>1 DEF Empties
<1> QED
  BY <1>2, TotalNat

(* Below the cap every flow is emitted.                                    *)
LEMMA EmittedBelow ==
    ASSUME NEW snap \in Seq(Nat), Total(snap) <= EffectiveCap(snap)
    PROVE  Emission(snap)
<1>1. Budgets(snap) = snap
  BY DEF Budgets
<1>2. FlowsEmitted(snap) = snap
  <2>1. \A r \in DOMAIN snap : Least(snap[r], snap[r]) = snap[r]
    BY DEF Least
  <2> QED
    BY <1>1, <2>1 DEF FlowsEmitted
<1>3. Total(snap) \in Nat /\ Total(Empties(snap)) \in Nat /\ EffectiveCap(snap) \in Nat
  BY TotalNat, EmptiesFacts, CapFacts
<1>4. Least(Total(snap), EffectiveCap(snap)) <= Total(snap)
  BY <1>3 DEF Least
<1>5. Least(Total(snap), EffectiveCap(snap)) \in Nat
  BY <1>3 DEF Least
<1> QED
  BY <1>2, <1>3, <1>4, <1>5 DEF Emission

(* Above it the shares are, and what is left goes to the first rules; only *)
(* a rule without flows cannot use it.                                     *)
LEMMA EmittedAbove ==
    ASSUME NEW snap \in Seq(Nat), ~ (Total(snap) <= EffectiveCap(snap))
    PROVE  Emission(snap)
<1> DEFINE n == Len(snap)
           cap == EffectiveCap(snap)
           total == Total(snap)
           share == [r \in DOMAIN snap |-> (cap * snap[r]) \div total]
           rest == cap - Total(share)
           extra == [r \in 1..n |-> IF r <= rest THEN 1 ELSE 0]
           budgets == Budgets(snap)
           emitted == FlowsEmitted(snap)
           empties == Empties(snap)
<1>1. cap \in Nat /\ total \in Nat /\ cap < total
  BY CapFacts, TotalNat
<1>2. n \in Nat /\ DOMAIN snap = 1..n /\ \A r \in 1..n : snap[r] \in Nat
  OBVIOUS
<1>3. /\ share \in Seq(Nat) /\ Len(share) = n
      /\ \A r \in 1..n : IF snap[r] = 0 THEN share[r] = 0 ELSE share[r] < snap[r]
      /\ rest \in 0..n
  <2>1. PICK c \in Nat : c = cap
    BY <1>1
  <2>2. c < Total(snap)
    BY <1>1, <2>1
  <2>3. PICK q : q = [r \in DOMAIN snap |-> (c * snap[r]) \div Total(snap)]
    OBVIOUS
  <2>4. /\ q \in Seq(Nat) /\ Len(q) = Len(snap)
        /\ \A r \in 1..Len(snap) : IF snap[r] = 0 THEN q[r] = 0 ELSE q[r] < snap[r]
        /\ c - Total(q) \in 0..Len(snap)
    BY ONLY snap \in Seq(Nat), c \in Nat, <2>2, <2>3, SharesFacts
  <2>5. q = share
    BY <2>1, <2>3
  <2> HIDE DEF share, cap
  <2> QED
    BY <2>1, <2>4, <2>5
<1>4. \A r \in 1..n : budgets[r] = share[r] + IF r <= rest THEN 1 ELSE 0
  <2>1. budgets = [r \in DOMAIN snap |-> share[r] + IF r <= rest THEN 1 ELSE 0]
    BY DEF Budgets
  <2> HIDE DEF budgets, share, rest
  <2> QED
    BY <1>2, <2>1
<1>5. budgets = [r \in 1..n |-> share[r] + IF r <= rest THEN 1 ELSE 0]
  <2>1. budgets = [r \in DOMAIN snap |-> share[r] + IF r <= rest THEN 1 ELSE 0]
    BY DEF Budgets
  <2> HIDE DEF budgets, share, rest
  <2> QED
    BY <1>2, <2>1
<1>6. emitted = [r \in 1..n |-> Least(budgets[r], snap[r])]
  BY <1>2 DEF FlowsEmitted
<1>7. /\ empties \in Seq(Nat) /\ Len(empties) = n /\ Total(empties) \in Nat
      /\ \A r \in 1..n : empties[r] = IF snap[r] = 0 THEN 1 ELSE 0
  BY EmptiesFacts
<1> HIDE DEF n, total, cap, share, budgets, emitted, empties
<1>8. extra \in Seq(Int) /\ Len(extra) = n /\ \A r \in 1..n : extra[r] = IF r <= rest THEN 1 ELSE 0
  BY <1>2
<1>9. rest \in Int /\ Total(share) \in Nat /\ rest + Total(share) = cap
  BY <1>1, <1>3, TotalNat
<1> HIDE DEF extra, rest
<1>10. Total(extra) = rest
  BY <1>3, <1>8, TotalFirst
<1>11. budgets \in Seq(Nat) /\ Len(budgets) = n
  <2>1. \A r \in 1..n : share[r] + (IF r <= rest THEN 1 ELSE 0) \in Nat
    BY <1>3
  <2> QED
    BY <1>2, <1>5, <2>1
<1>12. Total(budgets) = cap
  <2>1. /\ share \in Seq(Int) /\ extra \in Seq(Int) /\ budgets \in Seq(Int)
        /\ Len(extra) = Len(share) /\ Len(budgets) = Len(share)
        /\ \A r \in 1..Len(share) : budgets[r] = share[r] + extra[r]
    <3>1. share \in Seq(Int) /\ budgets \in Seq(Int)
      BY <1>3, <1>11
    <3>2. \A r \in 1..n : budgets[r] = share[r] + extra[r]
      BY ONLY <1>4, <1>8
    <3> QED
      BY ONLY <1>3, <1>8, <1>11, <3>1, <3>2
  <2>2. Total(budgets) = Total(share) + Total(extra)
    BY ONLY <2>1, TotalPlus
  <2> QED
    BY <1>1, <1>9, <1>10, <2>2
<1>13. ASSUME NEW r \in 1..n
       PROVE  /\ emitted[r] \in Nat /\ emitted[r] <= budgets[r] /\ emitted[r] <= snap[r]
              /\ budgets[r] <= emitted[r] + empties[r]
  <2>1. emitted[r] = Least(budgets[r], snap[r])
    BY <1>6
  <2>2. budgets[r] \in Nat /\ snap[r] \in Nat /\ share[r] \in Nat
    BY <1>2, <1>3, <1>11
  <2>3. budgets[r] = share[r] \/ budgets[r] = share[r] + 1
    BY <1>4, <2>2
  <2>4. IF snap[r] = 0 THEN share[r] = 0 ELSE share[r] < snap[r]
    BY <1>3
  <2>5. empties[r] = IF snap[r] = 0 THEN 1 ELSE 0
    BY <1>7
  <2> QED
    BY ONLY <2>1, <2>2, <2>3, <2>4, <2>5 DEF Least
<1>14. emitted \in Seq(Nat) /\ Len(emitted) = n
  BY <1>2, <1>6, <1>13
<1>15. Total(emitted) \in Nat
  BY <1>14, TotalNat
<1>16. Total(emitted) <= Total(budgets)
  <2>1. /\ emitted \in Seq(Int) /\ budgets \in Seq(Int) /\ Len(budgets) = Len(emitted)
        /\ \A r \in 1..Len(emitted) : emitted[r] <= budgets[r]
    BY <1>11, <1>13, <1>14
  <2> QED
    BY ONLY <2>1, TotalMonotone
<1>17. Total(emitted) <= total
  <2>1. /\ emitted \in Seq(Int) /\ snap \in Seq(Int) /\ Len(snap) = Len(emitted)
        /\ \A r \in 1..Len(emitted) : emitted[r] <= snap[r]
    BY <1>13, <1>14 DEF n
  <2>2. Total(emitted) <= Total(snap)
    BY ONLY <2>1, TotalMonotone
  <2> QED
    BY <2>2 DEF total
<1> DEFINE both == [r \in 1..n |-> emitted[r] + empties[r]]
<1>18. both \in Seq(Int) /\ Len(both) = n /\ \A r \in 1..n : both[r] = emitted[r] + empties[r]
  <2>1. \A r \in 1..n : emitted[r] + empties[r] \in Int
    BY <1>7, <1>13
  <2> QED
    BY <1>2, <2>1
<1> HIDE DEF both
<1>19. Total(both) = Total(emitted) + Total(empties)
  <2>1. /\ emitted \in Seq(Int) /\ empties \in Seq(Int) /\ both \in Seq(Int)
        /\ Len(empties) = Len(emitted) /\ Len(both) = Len(emitted)
        /\ \A r \in 1..Len(emitted) : both[r] = emitted[r] + empties[r]
    BY <1>7, <1>14, <1>18
  <2> QED
    BY ONLY <2>1, TotalPlus
<1>20. Total(budgets) <= Total(both)
  <2>1. /\ budgets \in Seq(Int) /\ both \in Seq(Int) /\ Len(both) = Len(budgets)
        /\ \A r \in 1..Len(budgets) : budgets[r] <= both[r]
    BY <1>11, <1>13, <1>18
  <2> QED
    BY ONLY <2>1, TotalMonotone
<1>21. Least(total, cap) = cap
  BY <1>1 DEF Least
<1>22. /\ Total(emitted) <= cap /\ Total(emitted) <= total
       /\ Total(emitted) + Total(empties) >= Least(total, cap)
  <2> DEFINE c == cap
             l == Least(total, cap)
             e == Total(emitted)
             m == Total(empties)
  <2>1. c \in Nat /\ l = c /\ e \in Nat /\ m \in Nat /\ e <= c /\ e <= total /\ c <= e + m
    BY <1>1, <1>7, <1>12, <1>15, <1>16, <1>17, <1>19, <1>20, <1>21
  <2> HIDE DEF c, l, e, m
  <2>2. e <= c /\ e <= total /\ e + m >= l
    BY <2>1
  <2> QED
    BY <2>2 DEF c, l, e, m
<1> QED
  BY <1>1, <1>14, <1>15, <1>22 DEF Emission, n, total, cap, emitted, empties

(* So it does, below the cap and above it.                                 *)
LEMMA Emitted == ASSUME NEW snap \in Seq(Nat) PROVE Emission(snap)
BY EmittedBelow, EmittedAbove

-----------------------------------------------------------------------------
(* Metrics and their points.                                               *)
DataPoints == Nat \X Nat
MetricNames ==
    {"flow.packets", "flow.bytes", "flow.last_seen",
     "flow-rule.flows", "flow-rule.evictions", "flow-rule.drops",
     "flow-rule.packets", "flow-rule.bytes",
     "ticks_dropped", "batches_sent", "batches_dropped", "batches_failed",
     "points_emitted", "points_dropped", "attrs_truncated",
     "export_duration", "queue_depth"}
MetricRecords == [name : MetricNames, points : Seq(DataPoints)]
Sizes == [x \in MetricRecords |-> Len(x.points)]

(* The number of points of metrics is a sum over them...                   *)
LEMMA PointsMeasured ==
    ASSUME NEW ms \in Seq(MetricRecords)
    PROVE  /\ PointsOf(ms) = Total(Measured(Sizes, ms))
           /\ [i \in DOMAIN ms |-> Len(ms[i].points)] \in Seq(Nat)
           /\ Len([i \in DOMAIN ms |-> Len(ms[i].points)]) = Len(ms)
           /\ PointsOf(ms) \in Nat
<1> DEFINE c == [i \in DOMAIN ms |-> Len(ms[i].points)]
<1>1. DOMAIN ms = 1..Len(ms) /\ Len(ms) \in Nat /\ \A i \in DOMAIN ms : ms[i] \in MetricRecords
  OBVIOUS
<1>2. \A x \in MetricRecords : Len(x.points) \in Nat /\ Sizes[x] = Len(x.points)
  <2>1. ASSUME NEW x \in MetricRecords PROVE Len(x.points) \in Nat
    <3>1. x.points \in Seq(DataPoints)
      BY DEF MetricRecords
    <3> QED
      BY <3>1
  <2> QED
    BY <2>1 DEF Sizes
<1>3. \A i \in DOMAIN ms : c[i] = Len(ms[i].points) /\ c[i] \in Nat
  BY <1>1, <1>2
<1>4. c \in Seq(Nat) /\ Len(c) = Len(ms)
  BY <1>1, <1>2
<1>5. Measured(Sizes, ms) = c
  BY <1>1, <1>2 DEF Measured
<1>6. Total(c) \in Nat
  BY <1>4, TotalNat
<1>7. PointsOf(ms) = Total(c)
  BY DEF PointsOf
<1> QED
  BY <1>4, <1>5, <1>6, <1>7

(* Each has a number of them.                                              *)
LEMMA SizesInt ==
    Sizes \in [MetricRecords -> Int] /\ \A x \in MetricRecords : Sizes[x] = Len(x.points) /\ Sizes[x] \in Nat
<1>1. ASSUME NEW x \in MetricRecords PROVE Len(x.points) \in Nat
  <2>1. x.points \in Seq(DataPoints)
    BY DEF MetricRecords
  <2> QED
    BY <2>1
<1> QED
  BY <1>1 DEF Sizes

(* ... and so is that of two lists of them...                              *)
LEMMA PointsConcat ==
    ASSUME NEW s \in Seq(MetricRecords), NEW t \in Seq(MetricRecords)
    PROVE  s \o t \in Seq(MetricRecords) /\ PointsOf(s \o t) = PointsOf(s) + PointsOf(t)
<1>1. s \o t \in Seq(MetricRecords)
  BY ConcatFacts
<1>2. Total(Measured(Sizes, s \o t)) = Total(Measured(Sizes, s)) + Total(Measured(Sizes, t))
  <2>1. Sizes \in [MetricRecords -> Int] /\ s \in Seq(MetricRecords) /\ t \in Seq(MetricRecords)
    BY SizesInt
  <2> QED
    BY ONLY <2>1, MeasuredConcat
<1>3. /\ PointsOf(s) = Total(Measured(Sizes, s)) /\ PointsOf(t) = Total(Measured(Sizes, t))
      /\ PointsOf(s \o t) = Total(Measured(Sizes, s \o t))
  BY <1>1, PointsMeasured
<1> QED
  BY <1>1, <1>2, <1>3

(* ... and of a list of lists.                                             *)
LEMMA PointsFlatten ==
    ASSUME NEW mss \in Seq(Seq(MetricRecords))
    PROVE  /\ FlattenSeq(mss) \in Seq(MetricRecords)
           /\ PointsOf(FlattenSeq(mss)) = Total([j \in 1..Len(mss) |-> PointsOf(mss[j])])
<1>1. /\ FlattenSeq(mss) \in Seq(MetricRecords)
      /\ Total(Measured(Sizes, FlattenSeq(mss)))
           = Total([j \in 1..Len(mss) |-> Total(Measured(Sizes, mss[j]))])
  <2>1. Sizes \in [MetricRecords -> Int] /\ mss \in Seq(Seq(MetricRecords))
    BY SizesInt
  <2> QED
    BY ONLY <2>1, FlattenTotal
<1>2. \A j \in 1..Len(mss) : mss[j] \in Seq(MetricRecords)
  OBVIOUS
<1>3. \A j \in 1..Len(mss) : PointsOf(mss[j]) = Total(Measured(Sizes, mss[j]))
  BY <1>2, PointsMeasured
<1>4. [j \in 1..Len(mss) |-> PointsOf(mss[j])] = [j \in 1..Len(mss) |-> Total(Measured(Sizes, mss[j]))]
  BY <1>3
<1> QED
  BY <1>1, <1>4, PointsMeasured

(* The same points under several names.                                    *)
LEMMA MetricsFacts ==
    ASSUME NEW names \in Seq(MetricNames), NEW pts \in Seq(DataPoints)
    PROVE  /\ Metrics(names, pts) \in Seq(MetricRecords)
           /\ PointsOf(Metrics(names, pts)) = Len(names) * Len(pts)
<1> DEFINE ms == Metrics(names, pts)
<1>1. Len(names) \in Nat /\ DOMAIN names = 1..Len(names) /\ Len(pts) \in Nat
  OBVIOUS
<1>2. CASE pts = << >>
  <2>1. ms = << >> /\ Len(pts) = 0
    BY <1>2 DEF Metrics
  <2>2. << >> \in Seq(MetricRecords)
    OBVIOUS
  <2>3. PointsOf(<< >>) = 0
    <3>1. [i \in DOMAIN << >> |-> Len(<< >>[i].points)] = << >>
      OBVIOUS
    <3> QED
      BY <3>1, TotalEmpty DEF PointsOf
  <2>4. Len(names) * 0 = 0
    BY <1>1
  <2> QED
    BY <2>1, <2>2, <2>3, <2>4
<1>3. CASE pts # << >>
  <2>1. ms = [i \in 1..Len(names) |-> [name |-> names[i], points |-> pts]]
    BY <1>1, <1>3 DEF Metrics
  <2>2. \A i \in 1..Len(names) : [name |-> names[i], points |-> pts] \in MetricRecords
    BY DEF MetricRecords
  <2>3. ms \in Seq(MetricRecords) /\ Len(ms) = Len(names)
    BY <1>1, <2>1, <2>2
  <2>4. \A i \in 1..Len(names) : ms[i].points = pts
    BY <2>1
  <2> HIDE DEF ms
  <2> DEFINE c == [i \in DOMAIN ms |-> Len(ms[i].points)]
  <2>5. c \in Seq(Nat) /\ Len(c) = Len(ms)
    BY <2>3, PointsMeasured
  <2>6. \A i \in 1..Len(c) : c[i] = Len(pts)
    <3>1. DOMAIN ms = 1..Len(names)
      BY <2>3
    <3> QED
      BY <2>3, <2>4, <2>5, <3>1
  <2>7. PointsOf(ms) = Total(c)
    BY DEF PointsOf
  <2> HIDE DEF c
  <2>8. Total(c) = Len(c) * Len(pts)
    <3>1. PICK k \in Int : k = Len(pts)
      BY <1>1
    <3>2. c \in Seq(Int) /\ \A i \in 1..Len(c) : c[i] = k
      BY <2>5, <2>6, <3>1
    <3>3. Total(c) = Len(c) * k
      BY ONLY <3>1, <3>2, TotalConst
    <3> QED
      BY <3>1, <3>3
  <2>9. PointsOf(ms) = Len(names) * Len(pts)
    BY ONLY <2>3, <2>5, <2>7, <2>8
  <2> QED
    BY <2>3, <2>9 DEF ms
<1> QED
  BY <1>2, <1>3

(* The points of the flows that are emitted.                               *)
FlowPoints(snap) ==
    FlattenSeq([r \in DOMAIN snap |-> [f \in 1..FlowsEmitted(snap)[r] |-> <<r, f>>]])

(* There is one for each of them.                                          *)
LEMMA FlowPointsFacts ==
    ASSUME NEW snap \in Seq(Nat)
    PROVE  /\ FlowPoints(snap) \in Seq(DataPoints)
           /\ Len(FlowPoints(snap)) = Total(FlowsEmitted(snap))
<1> DEFINE e == FlowsEmitted(snap)
           n == Len(snap)
           list(r) == [f \in 1..e[r] |-> <<r, f>>]
           lists == [r \in 1..n |-> list(r)]
<1>1. n \in Nat /\ DOMAIN snap = 1..n
  OBVIOUS
<1>2. e \in Seq(Nat) /\ Len(e) = n
  BY Emitted DEF Emission
<1> HIDE DEF e, n
<1>3. \A r \in 1..n : e[r] \in Nat
  BY <1>2
<1>4. ASSUME NEW r \in 1..n
      PROVE  list(r) \in Seq(DataPoints) /\ Len(list(r)) = e[r]
  <2>1. PICK k \in Nat : k = e[r]
    BY <1>3
  <2>2. \A f \in 1..k : <<r, f>> \in DataPoints
    BY <1>1 DEF DataPoints
  <2>3. [f \in 1..k |-> <<r, f>>] \in Seq(DataPoints) /\ Len([f \in 1..k |-> <<r, f>>]) = k
    BY <2>2
  <2> QED
    BY <2>1, <2>3
<1>5. /\ lists \in Seq(Seq(DataPoints)) /\ Len(lists) = n /\ DOMAIN lists = 1..n
      /\ \A r \in 1..n : Len(lists[r]) = e[r]
  <2> HIDE DEF list
  <2> QED
    BY <1>1, <1>4
<1>6. FlowPoints(snap) = FlattenSeq(lists)
  BY <1>1 DEF FlowPoints, e
<1> HIDE DEF lists
<1>7. FlattenSeq(lists) \in Seq(DataPoints)
  BY <1>5, JoinsExist
<1>8. Len(FlattenSeq(lists)) = Total([r \in DOMAIN lists |-> Len(lists[r])])
  BY ONLY <1>5, FlattenLen
<1>9. [r \in DOMAIN lists |-> Len(lists[r])] = e
  <2>1. DOMAIN e = 1..n /\ e = [r \in 1..n |-> e[r]]
    BY <1>2
  <2>2. [r \in DOMAIN lists |-> Len(lists[r])] = [r \in 1..n |-> e[r]]
    BY <1>5
  <2> QED
    BY <2>1, <2>2
<1> QED
  BY <1>6, <1>7, <1>8, <1>9 DEF e

(* The points of a rule.                                                   *)
LEMMA RulePointsFacts ==
    ASSUME NEW snap \in Seq(Nat)
    PROVE  /\ [r \in DOMAIN snap |-> <<r, 0>>] \in Seq(DataPoints)
           /\ Len([r \in DOMAIN snap |-> <<r, 0>>]) = Len(snap)
<1>1. DOMAIN snap = 1..Len(snap) /\ Len(snap) \in Nat
  OBVIOUS
<1>2. \A r \in 1..Len(snap) : <<r, 0>> \in DataPoints
  BY DEF DataPoints
<1> QED
  BY <1>1, <1>2

(* The exporter's own metrics.                                             *)
LEMMA SelfFacts ==
    SelfMetrics \in Seq(MetricRecords) /\ PointsOf(SelfMetrics) \in Nat
<1> DEFINE one == << <<0, 1>> >>
           two == << <<0, 1>>, <<0, 2>> >>
           a == <<"ticks_dropped", "batches_sent", "batches_dropped">>
           b == <<"batches_failed">>
           c == <<"points_emitted", "points_dropped", "attrs_truncated",
                  "export_duration", "queue_depth">>
<1>1. one \in Seq(DataPoints) /\ two \in Seq(DataPoints)
  <2>1. <<0, 1>> \in DataPoints /\ <<0, 2>> \in DataPoints
    BY DEF DataPoints
  <2> QED
    BY <2>1
<1>2. a \in Seq(MetricNames) /\ b \in Seq(MetricNames) /\ c \in Seq(MetricNames)
  BY DEF MetricNames
<1>3. SelfMetrics = Metrics(a, one) \o Metrics(b, two) \o Metrics(c, one)
  BY DEF SelfMetrics
<1> HIDE DEF one, two, a, b, c
<1>4. /\ Metrics(a, one) \in Seq(MetricRecords) /\ Metrics(b, two) \in Seq(MetricRecords)
      /\ Metrics(c, one) \in Seq(MetricRecords)
  BY <1>1, <1>2, MetricsFacts
<1>5. Metrics(a, one) \o Metrics(b, two) \in Seq(MetricRecords)
  BY ONLY <1>4, PointsConcat
<1>6. SelfMetrics \in Seq(MetricRecords)
  BY ONLY <1>3, <1>4, <1>5, PointsConcat
<1> QED
  BY <1>6, PointsMeasured

(* A request carries what points_built says, and the exporter's own points.*)
LEMMA RequestFacts ==
    ASSUME NEW snap \in Seq(Nat)
    PROVE  /\ Request(snap) \in Seq(MetricRecords)
           /\ PointsOf(Request(snap)) = PointsBuilt(snap) + PointsOf(SelfMetrics)
           /\ PointsBuilt(snap) \in Nat
<1> DEFINE flows == FlowPoints(snap)
           tallies == [r \in DOMAIN snap |-> <<r, 0>>]
           a == Metrics(FlowMetrics, flows)
           b == Metrics(RuleMetrics, tallies)
<1>1. Request(snap) = a \o b \o SelfMetrics
  BY DEF Request, FlowPoints
<1>2. flows \in Seq(DataPoints) /\ Len(flows) = Total(FlowsEmitted(snap))
  BY FlowPointsFacts
<1>3. tallies \in Seq(DataPoints) /\ Len(tallies) = Len(snap)
  BY RulePointsFacts
<1>4. /\ FlowMetrics \in Seq(MetricNames) /\ Len(FlowMetrics) = 3
      /\ RuleMetrics \in Seq(MetricNames) /\ Len(RuleMetrics) = 5
  BY DEF FlowMetrics, RuleMetrics, MetricNames
<1> HIDE DEF flows, tallies
<1>5. /\ a \in Seq(MetricRecords) /\ PointsOf(a) = Len(FlowMetrics) * Len(flows)
      /\ b \in Seq(MetricRecords) /\ PointsOf(b) = Len(RuleMetrics) * Len(tallies)
  BY ONLY <1>2, <1>3, <1>4, MetricsFacts
<1> HIDE DEF a, b
<1>6. a \o b \in Seq(MetricRecords) /\ PointsOf(a \o b) = PointsOf(a) + PointsOf(b)
  BY ONLY <1>5, PointsConcat
<1>7. /\ (a \o b) \o SelfMetrics \in Seq(MetricRecords)
      /\ PointsOf((a \o b) \o SelfMetrics) = PointsOf(a \o b) + PointsOf(SelfMetrics)
  <2>1. PICK s : s = a \o b
    OBVIOUS
  <2>2. s \in Seq(MetricRecords) /\ SelfMetrics \in Seq(MetricRecords)
    BY <1>6, <2>1, SelfFacts
  <2>3. s \o SelfMetrics \in Seq(MetricRecords) /\ PointsOf(s \o SelfMetrics) = PointsOf(s) + PointsOf(SelfMetrics)
    BY ONLY <2>2, PointsConcat
  <2> QED
    BY <2>1, <2>3
<1>8. PointsBuilt(snap) = PointsOf(a) + PointsOf(b) /\ PointsBuilt(snap) \in Nat
  <2>1. Total(FlowsEmitted(snap)) \in Nat /\ Len(snap) \in Nat
    BY Emitted DEF Emission
  <2>2. PointsBuilt(snap) = 3 * Total(FlowsEmitted(snap)) + 5 * Len(snap)
    BY DEF PointsBuilt, POINTS_PER_FLOW, POINTS_PER_FLOW_RULE
  <2>3. PointsOf(a) = 3 * Total(FlowsEmitted(snap)) /\ PointsOf(b) = 5 * Len(snap)
    BY <1>2, <1>3, <1>4, <1>5
  <2> QED
    BY <2>1, <2>2, <2>3
<1> QED
  BY <1>1, <1>6, <1>7, <1>8

-----------------------------------------------------------------------------
(* slice_into_batches.                                                     *)
(* Where the piece i of n points ends.                                     *)
Cut(i, n) == Least(i * MAX_BATCH_POINTS, n)

(* Where a metric's points are cut: each piece gets at least one and at    *)
(* most a batch of them, and together they get all.                        *)
LEMMA CutFacts ==
    ASSUME MAX_BATCH_POINTS \in Nat \ {0}, NEW n \in Nat,
           NEW count, count = (n + MAX_BATCH_POINTS - 1) \div MAX_BATCH_POINTS
    PROVE  /\ count \in Nat /\ Cut(0, n) = 0 /\ Cut(count, n) = n
           /\ \A i \in 1..count :
                /\ (i - 1) * MAX_BATCH_POINTS = Cut(i - 1, n)
                /\ Cut(i - 1, n) \in Nat /\ Cut(i, n) \in Nat /\ Cut(i, n) <= n
                /\ Cut(i - 1, n) < Cut(i, n) /\ Cut(i, n) - Cut(i - 1, n) <= MAX_BATCH_POINTS
<1> DEFINE m == MAX_BATCH_POINTS
<1>1. m \in Nat /\ m > 0
  OBVIOUS
<1>2. count = (n + m - 1) \div m
  OBVIOUS
<1> HIDE DEF m
<1>3. count \in Nat /\ count * m <= n + m - 1 /\ n + m - 1 < count * m + m
  BY <1>1, <1>2
<1>4. count * m >= n
  <2>1. count * m \in Int
    BY <1>1, <1>3
  <2> QED
    BY <1>1, <1>3, <2>1
<1>5. \A i \in Int : Cut(i, n) = IF i * m < n THEN i * m ELSE n
  BY DEF Cut, Least, m
<1>6. Cut(0, n) = 0
  <2>1. 0 * m = 0 /\ Cut(0, n) = IF 0 * m < n THEN 0 * m ELSE n
    BY <1>1, <1>5
  <2> QED
    BY <2>1
<1>7. Cut(count, n) = n
  <2>1. Cut(count, n) = IF count * m < n THEN count * m ELSE n
    BY <1>3, <1>5
  <2>2. PICK k \in Int : k = count * m
    BY <1>1, <1>3
  <2> QED
    BY <1>4, <2>1, <2>2
<1>8. ASSUME NEW i \in 1..count
      PROVE  /\ (i - 1) * m = Cut(i - 1, n)
             /\ Cut(i - 1, n) \in Nat /\ Cut(i, n) \in Nat /\ Cut(i, n) <= n
             /\ Cut(i - 1, n) < Cut(i, n) /\ Cut(i, n) - Cut(i - 1, n) <= m
  <2>1. PICK k \in Int : k = (i - 1) * m
    BY <1>1, <1>3
  <2>2. i * m = k + m /\ k >= 0
    BY <1>1, <1>3, <2>1
  <2>3. k < n
    <3>1. (count - i) * m >= 0
      BY <1>1, <1>3
    <3>2. (count - i) * m = count * m - i * m
      BY <1>1, <1>3
    <3>3. PICK p \in Int : p = count * m
      BY <1>1, <1>3
    <3>4. p >= k + m
      BY <1>1, <2>2, <3>1, <3>2, <3>3
    <3>5. p <= n + m - 1
      BY <1>3, <3>3
    <3> QED
      BY ONLY <1>1, <2>1, <3>3, <3>4, <3>5, n \in Nat
  <2>4. Cut(i - 1, n) = IF k < n THEN k ELSE n
    <3>1. i - 1 \in Int
      OBVIOUS
    <3> QED
      BY <1>5, <2>1, <3>1
  <2>5. Cut(i, n) = IF k + m < n THEN k + m ELSE n
    BY <1>5, <2>2
  <2> QED
    BY <1>1, <2>1, <2>2, <2>3, <2>4, <2>5
<1> QED
  BY <1>3, <1>6, <1>7, <1>8 DEF m

(* The pieces of a metric have its name, and each a part of its points.    *)
Cutting(x) ==
    LET p == Pieces(x)
    IN /\ p \in Seq(MetricRecords)
       /\ \A i \in 1..Len(p) : p[i].name = x.name /\ Len(p[i].points) \in 1..MAX_BATCH_POINTS
       /\ FlattenSeq([i \in DOMAIN p |-> p[i].points]) = x.points
       /\ PointsOf(p) = Len(x.points)

(* split_metric_data_points cuts so.                                       *)
LEMMA PiecesFacts ==
    ASSUME MAX_BATCH_POINTS \in Nat \ {0}, NEW x \in MetricRecords
    PROVE  Cutting(x)
<1> DEFINE s == x.points
           n == Len(s)
           count == (n + MAX_BATCH_POINTS - 1) \div MAX_BATCH_POINTS
           cut(i) == Cut(i, n)
           part(i) == SubSeq(s, (i - 1) * MAX_BATCH_POINTS + 1, cut(i))
           p == Pieces(x)
<1>1. s \in Seq(DataPoints) /\ n \in Nat /\ x.name \in MetricNames
  BY DEF MetricRecords
<1>2. p = [i \in 1..count |-> [x EXCEPT !.points = part(i)]]
  BY DEF Pieces, Cut
<1>3. /\ count \in Nat /\ cut(0) = 0 /\ cut(count) = n
      /\ \A i \in 1..count :
           /\ (i - 1) * MAX_BATCH_POINTS = cut(i - 1)
           /\ cut(i - 1) \in Nat /\ cut(i) \in Nat /\ cut(i) <= n
           /\ cut(i - 1) < cut(i) /\ cut(i) - cut(i - 1) <= MAX_BATCH_POINTS
  <2>1. PICK c : c = count
    OBVIOUS
  <2>2. c = (n + MAX_BATCH_POINTS - 1) \div MAX_BATCH_POINTS
    BY <2>1
  <2> HIDE DEF count, n
  <2>3. /\ c \in Nat /\ Cut(0, n) = 0 /\ Cut(c, n) = n
        /\ \A i \in 1..c :
             /\ (i - 1) * MAX_BATCH_POINTS = Cut(i - 1, n)
             /\ Cut(i - 1, n) \in Nat /\ Cut(i, n) \in Nat /\ Cut(i, n) <= n
             /\ Cut(i - 1, n) < Cut(i, n) /\ Cut(i, n) - Cut(i - 1, n) <= MAX_BATCH_POINTS
    BY <1>1, <2>2, CutFacts
  <2> QED
    BY <2>1, <2>3
<1> HIDE DEF count, cut, p
<1>4. ASSUME NEW i \in 1..count
      PROVE  /\ part(i) = SubSeq(s, cut(i - 1) + 1, cut(i))
             /\ part(i) \in Seq(DataPoints) /\ Len(part(i)) = cut(i) - cut(i - 1)
             /\ Len(part(i)) \in 1..MAX_BATCH_POINTS
  <2>1. part(i) = SubSeq(s, cut(i - 1) + 1, cut(i))
    BY <1>3
  <2>2. PICK a \in Nat, b \in Nat : a = cut(i - 1) /\ b = cut(i)
    BY <1>3
  <2>3. a <= b /\ b <= Len(s) /\ b - a \in 1..MAX_BATCH_POINTS
    BY <1>1, <1>3, <2>2
  <2> HIDE DEF part, s
  <2>4. SubSeq(s, a + 1, b) \in Seq(DataPoints) /\ Len(SubSeq(s, a + 1, b)) = b - a
    BY ONLY <1>1, <2>2, <2>3, SubSeqFacts
  <2> QED
    BY <2>1, <2>2, <2>3, <2>4
<1> HIDE DEF part
<1>5. ASSUME NEW i \in 1..count
      PROVE  [x EXCEPT !.points = part(i)] \in MetricRecords
  <2>1. part(i) \in Seq(DataPoints)
    BY <1>4
  <2> QED
    BY <2>1 DEF MetricRecords
<1>6. ASSUME NEW i \in 1..count
      PROVE  p[i].name = x.name /\ p[i].points = part(i)
  <2>1. p[i] = [x EXCEPT !.points = part(i)]
    BY <1>2
  <2>2. "points" \in DOMAIN x /\ "name" \in DOMAIN x
    BY DEF MetricRecords
  <2> QED
    BY <2>1, <2>2
<1>7. p \in Seq(MetricRecords) /\ Len(p) = count /\ DOMAIN p = 1..count
  <2> DEFINE piece(i) == [x EXCEPT !.points = part(i)]
  <2>1. \A i \in 1..count : piece(i) \in MetricRecords
    BY <1>5
  <2>2. p = [i \in 1..count |-> piece(i)]
    BY <1>2
  <2> HIDE DEF piece
  <2> QED
    BY <1>3, <2>1, <2>2
<1> DEFINE parts == [i \in DOMAIN p |-> p[i].points]
<1>8. parts \in Seq(Seq(DataPoints)) /\ Len(parts) = count /\ \A i \in 1..count : parts[i] = part(i)
  <2>1. parts = [i \in 1..count |-> part(i)]
    BY <1>6, <1>7
  <2> HIDE DEF parts
  <2>2. \A i \in 1..count : part(i) \in Seq(DataPoints)
    BY <1>4
  <2> QED
    BY <1>3, <2>1, <2>2
<1> HIDE DEF parts
<1> DEFINE g == [i \in 0..count |-> SubSeq(s, 1, cut(i))]
<1>9. ASSUME NEW i \in 1..count PROVE g[i] = g[i - 1] \o parts[i]
  <2>1. g[i] = SubSeq(s, 1, cut(i)) /\ g[i - 1] = SubSeq(s, 1, cut(i - 1))
    <3>1. i \in 0..count /\ i - 1 \in 0..count
      BY <1>3
    <3> DEFINE pre(j) == SubSeq(s, 1, cut(j))
    <3>2. g = [j \in 0..count |-> pre(j)]
      OBVIOUS
    <3> HIDE DEF pre, g
    <3>3. g[i] = pre(i) /\ g[i - 1] = pre(i - 1)
      BY <3>1, <3>2
    <3> QED
      BY <3>3 DEF pre
  <2>2. PICK a \in Nat, b \in Nat : a = cut(i - 1) /\ b = cut(i)
    BY <1>3
  <2>3. a <= b /\ b <= Len(s)
    BY <1>1, <1>3, <2>2
  <2>4. SubSeq(s, 1, a) \o SubSeq(s, a + 1, b) = SubSeq(s, 1, b)
    <3> HIDE DEF s
    <3> QED
      BY ONLY <1>1, <2>2, <2>3, SubSeqJoin
  <2>5. parts[i] = SubSeq(s, a + 1, b)
    BY <1>4, <1>8, <2>2
  <2> HIDE DEF g
  <2> QED
    BY <2>1, <2>2, <2>4, <2>5
<1>10. g[0] = << >> /\ g[count] = s
  <2>1. g[0] = SubSeq(s, 1, 0) /\ g[count] = SubSeq(s, 1, Len(s))
    BY <1>3
  <2> HIDE DEF g, s
  <2> QED
    BY <1>1, <2>1, SubSeqEnds
<1> HIDE DEF g
<1>11. Joins(g, parts)
  BY <1>8, <1>9, <1>10 DEF Joins
<1>12. FlattenSeq(parts) = s
  BY <1>8, <1>10, <1>11, FlattenIs
<1>13. PointsOf(p) = n
  <2>1. Len(FlattenSeq(parts)) = Total([i \in DOMAIN parts |-> Len(parts[i])])
    BY ONLY <1>8, FlattenLen
  <2>2. [i \in DOMAIN parts |-> Len(parts[i])] = [i \in DOMAIN p |-> Len(p[i].points)]
    <3>1. DOMAIN parts = DOMAIN p
      BY DEF parts
    <3>2. \A i \in DOMAIN p : parts[i] = p[i].points
      BY DEF parts
    <3> QED
      BY <3>1, <3>2
  <2> QED
    BY <1>12, <2>1, <2>2 DEF PointsOf
<1>14. \A i \in 1..Len(p) : p[i].name = x.name /\ Len(p[i].points) \in 1..MAX_BATCH_POINTS
  BY <1>4, <1>6, <1>7
<1> QED
  BY <1>7, <1>12, <1>13, <1>14 DEF Cutting, p, parts

(* One metric more brings its points.                                      *)
LEMMA PointsAppend ==
    ASSUME NEW s \in Seq(MetricRecords), NEW x \in MetricRecords
    PROVE  /\ Append(s, x) \in Seq(MetricRecords) /\ <<x>> \in Seq(MetricRecords)
           /\ PointsOf(<<x>>) = Len(x.points)
           /\ PointsOf(Append(s, x)) = PointsOf(s) + Len(x.points)
<1>1. Append(s, x) = s \o <<x>> /\ <<x>> \in Seq(MetricRecords)
  OBVIOUS
<1>2. PointsOf(<<x>>) = Len(x.points)
  <2>1. PICK k \in Nat : k = Len(x.points)
    BY SizesInt
  <2>2. [i \in DOMAIN <<x>> |-> Len(<<x>>[i].points)] = <<k>>
    BY <2>1
  <2>3. Total(<<k>>) = k
    <3>1. <<k>> \in Seq(Int) /\ Len(<<k>>) = 1 /\ \A i \in 1..Len(<<k>>) : <<k>>[i] = k
      OBVIOUS
    <3> DEFINE one == <<k>>
    <3>2. one \in Seq(Int) /\ k \in Int /\ Len(one) = 1 /\ \A i \in 1..Len(one) : one[i] = k
      BY <3>1
    <3> HIDE DEF one
    <3>3. Total(one) = Len(one) * k
      BY ONLY <3>2, TotalConst
    <3>4. Total(one) = k
      BY ONLY <3>2, <3>3
    <3> QED
      BY <3>4 DEF one
  <2> QED
    BY <2>1, <2>2, <2>3 DEF PointsOf
<1> QED
  BY <1>1, <1>2, PointsConcat

(* Batches that each have at least one and at most a batch's points.       *)
Filled(batches) ==
    /\ batches \in Seq(Seq(MetricRecords))
    /\ \A b \in 1..Len(batches) : PointsOf(batches[b]) \in 1..MAX_BATCH_POINTS

(* A piece is added behind all that is in them already.                    *)
LEMMA AddPieceFacts ==
    ASSUME MAX_BATCH_POINTS \in Nat, NEW batches, Filled(batches),
           NEW piece \in MetricRecords, Len(piece.points) \in 1..MAX_BATCH_POINTS
    PROVE  /\ Filled(AddPiece(batches, piece))
           /\ FlattenSeq(AddPiece(batches, piece)) = Append(FlattenSeq(batches), piece)
<1> DEFINE R == Seq(MetricRecords)
           n == Len(batches)
<1>1. batches \in Seq(R) /\ n \in Nat /\ \A b \in 1..n : PointsOf(batches[b]) \in 1..MAX_BATCH_POINTS
  BY DEF Filled
<1>2. FlattenSeq(batches) \in R /\ <<piece>> \in R /\ PointsOf(<<piece>>) = Len(piece.points)
  <2>1. << >> \in R
    OBVIOUS
  <2> QED
    BY <1>1, <2>1, JoinsExist, PointsAppend
<1> HIDE DEF R
<1>3. CASE batches # << >> /\ PointsOf(Last(batches)) + Len(piece.points) <= MAX_BATCH_POINTS
  <2>1. PICK u \in Seq(R), x \in R : batches = Append(u, x) /\ Len(u) = n - 1
    <3>1. n # 0 /\ n - 1 \in Nat /\ n = (n - 1) + 1
      BY <1>1, <1>3
    <3> HIDE DEF n
    <3> QED
      BY <1>1, <3>1, Unappended DEF n
  <2>2. Last(batches) = x /\ Front(batches) = u
    BY <2>1, FrontLast
  <2> DEFINE y == Append(x, piece)
             more == Append(u, y)
  <2>3. y \in R /\ PointsOf(y) = PointsOf(x) + Len(piece.points) /\ PointsOf(x) \in Nat
    BY PointsAppend, PointsMeasured DEF R
  <2> HIDE DEF y
  <2>4. AddPiece(batches, piece) = more
    <3>1. u \o <<y>> = Append(u, y)
      BY <2>3
    <3> QED
      BY <1>3, <2>2, <3>1 DEF AddPiece, y
  <2>5. PointsOf(y) \in 1..MAX_BATCH_POINTS
    BY <1>3, <2>2, <2>3
  <2>6. /\ more \in Seq(R) /\ Len(more) = Len(u) + 1 /\ more[Len(u) + 1] = y
        /\ \A i \in 1..Len(u) : more[i] = u[i]
    BY <2>3, AppendElements
  <2>7. \A i \in 1..Len(u) : batches[i] = u[i] /\ i \in 1..n
    <3>1. \A i \in 1..Len(u) : Append(u, x)[i] = u[i]
      BY AppendElements
    <3> QED
      BY <1>1, <2>1, <3>1
  <2>8. FlattenSeq(more) = Append(FlattenSeq(batches), piece)
    <3>1. FlattenSeq(more) = FlattenSeq(u) \o y
      BY <2>3, FlattenAppend DEF R
    <3>2. FlattenSeq(batches) = FlattenSeq(u) \o x /\ FlattenSeq(u) \in Seq(MetricRecords)
      BY <2>1, FlattenAppend, JoinsExist DEF R
    <3>3. x \in Seq(MetricRecords)
      BY DEF R
    <3>4. FlattenSeq(u) \o Append(x, piece) = Append(FlattenSeq(u) \o x, piece)
      BY ONLY <3>2, <3>3, piece \in MetricRecords, ConcatAppend
    <3> QED
      BY <3>1, <3>2, <3>4 DEF y
  <2> HIDE DEF more, n
  <2>9. Filled(more)
    <3>1. more \in Seq(Seq(MetricRecords))
      BY <2>6 DEF R
    <3>2. ASSUME NEW b \in 1..Len(more) PROVE PointsOf(more[b]) \in 1..MAX_BATCH_POINTS
      <4>1. b \in 1..Len(u) \/ b = Len(u) + 1
        BY <2>6
      <4>2. CASE b \in 1..Len(u)
        <5>1. more[b] = batches[b] /\ b \in 1..n
          BY <2>6, <2>7, <4>2
        <5> QED
          BY <1>1, <5>1
      <4> QED
        BY <2>5, <2>6, <4>1, <4>2
    <3> QED
      BY <3>1, <3>2 DEF Filled
  <2> QED
    BY <2>4, <2>8, <2>9
<1>4. CASE ~ (batches # << >> /\ PointsOf(Last(batches)) + Len(piece.points) <= MAX_BATCH_POINTS)
  <2> DEFINE more == Append(batches, <<piece>>)
  <2>1. AddPiece(batches, piece) = more
    BY <1>4 DEF AddPiece
  <2>2. /\ more \in Seq(R) /\ Len(more) = n + 1 /\ more[n + 1] = <<piece>>
        /\ \A i \in 1..n : more[i] = batches[i]
    BY <1>1, <1>2, AppendElements
  <2>3. FlattenSeq(more) = Append(FlattenSeq(batches), piece)
    <3>1. FlattenSeq(more) = FlattenSeq(batches) \o <<piece>>
      BY <1>1, <1>2, FlattenAppend DEF R
    <3>2. PICK f \in Seq(MetricRecords) : f = FlattenSeq(batches)
      BY <1>2 DEF R
    <3>3. f \o <<piece>> = Append(f, piece)
      OBVIOUS
    <3> QED
      BY <3>1, <3>2, <3>3
  <2> HIDE DEF more, n
  <2>4. Filled(more)
    <3>1. more \in Seq(Seq(MetricRecords))
      BY <2>2 DEF R
    <3>2. ASSUME NEW b \in 1..Len(more) PROVE PointsOf(more[b]) \in 1..MAX_BATCH_POINTS
      <4>1. b \in 1..n \/ b = n + 1
        BY <1>1, <2>2
      <4> QED
        BY <1>1, <1>2, <2>2, <4>1
    <3> QED
      BY <3>1, <3>2 DEF Filled
  <2> QED
    BY <2>1, <2>3, <2>4
<1> QED
  BY <1>3, <1>4

(* The batches being filled with one piece after the other.                *)
Filling(f, pieces) ==
    f = [i \in 0..Len(pieces) |-> IF i = 0 THEN << >> ELSE AddPiece(f[i - 1], pieces[i])]

(* They exist, although the loop is a recursion...                         *)
LEMMA FillingExists ==
    ASSUME NEW pieces \in Seq(MetricRecords)
    PROVE  \E f : Filling(f, pieces)
<1> DEFINE P(f, n) == f = [i \in 0..n |-> IF i = 0 THEN << >> ELSE AddPiece(f[i - 1], pieces[i])]
           T == {n \in Nat : \E f : P(f, n)}
<1>1. 0 \in T
  <2>1. P([i \in 0..0 |-> << >>], 0)
    OBVIOUS
  <2> QED
    BY <2>1
<1>2. ASSUME NEW n \in Nat, n \in T PROVE n + 1 \in T
  <2>1. PICK f : P(f, n)
    BY <1>2
  <2> DEFINE last == AddPiece(f[n], pieces[n + 1])
             g == [i \in 0..(n + 1) |-> IF i = n + 1 THEN last ELSE f[i]]
  <2>2. P(g, n + 1)
    <3> SUFFICES ASSUME NEW i \in 0..(n + 1)
                 PROVE  g[i] = IF i = 0 THEN << >> ELSE AddPiece(g[i - 1], pieces[i])
      OBVIOUS
    <3>1. CASE i = n + 1
      <4>1. i - 1 = n /\ i # 0 /\ n \in 0..(n + 1) /\ n # n + 1
        BY <3>1
      <4>2. g[i] = last /\ g[i - 1] = f[n]
        BY <3>1, <4>1
      <4> HIDE DEF g
      <4> QED
        BY <3>1, <4>1, <4>2
    <3>2. CASE i # n + 1
      <4>1. i \in 0..n /\ i - 1 # n + 1 /\ (i # 0 => i - 1 \in 0..(n + 1))
        BY <3>2
      <4>2. g[i] = f[i] /\ (i # 0 => g[i - 1] = f[i - 1])
        BY <3>2, <4>1
      <4>3. f[i] = IF i = 0 THEN << >> ELSE AddPiece(f[i - 1], pieces[i])
        BY <2>1, <4>1
      <4> HIDE DEF g
      <4> QED
        BY <4>2, <4>3
    <3> QED
      BY <3>1, <3>2
  <2> HIDE DEF g, P
  <2> QED
    BY <2>2
<1> HIDE DEF T
<1>3. Nat \subseteq T
  BY <1>1, <1>2, NatInductive
<1>4. Len(pieces) \in T
  BY <1>3
<1> QED
  BY <1>4 DEF T, Filling

(* ... carry at any time the pieces there have been.                       *)
LEMMA FillingFacts ==
    ASSUME MAX_BATCH_POINTS \in Nat, NEW pieces \in Seq(MetricRecords),
           \A i \in 1..Len(pieces) : Len(pieces[i].points) \in 1..MAX_BATCH_POINTS,
           NEW f, Filling(f, pieces)
    PROVE  Filled(f[Len(pieces)]) /\ FlattenSeq(f[Len(pieces)]) = pieces
<1> DEFINE n == Len(pieces)
           T == {i \in Nat : i \in 0..n => Filled(f[i]) /\ FlattenSeq(f[i]) = SubSeq(pieces, 1, i)}
<1>0. n \in Nat /\ \A i \in 1..n : pieces[i] \in MetricRecords
  OBVIOUS
<1>1. f[0] = << >> /\ \A i \in 1..n : f[i] = AddPiece(f[i - 1], pieces[i])
  <2>1. f = [i \in 0..n |-> IF i = 0 THEN << >> ELSE AddPiece(f[i - 1], pieces[i])]
    BY DEF Filling
  <2>2. 0 \in 0..n /\ \A i \in 1..n : i \in 0..n /\ i # 0
    BY <1>0
  <2> HIDE DEF n
  <2> QED
    BY <2>1, <2>2
<1>2. 0 \in T
  <2>1. SubSeq(pieces, 1, 0) = << >>
    BY SubSeqEnds
  <2>2. Filled(<< >>)
    BY DEF Filled
  <2> QED
    BY <1>1, <2>1, <2>2, FlattenNone
<1>3. ASSUME NEW i \in Nat, i \in T PROVE i + 1 \in T
  <2> SUFFICES ASSUME i + 1 \in 0..n
               PROVE  Filled(f[i + 1]) /\ FlattenSeq(f[i + 1]) = SubSeq(pieces, 1, i + 1)
    OBVIOUS
  <2>1. i \in 0..n /\ i + 1 \in 1..n /\ (i + 1) - 1 = i /\ i + 1 <= n
    BY <1>0
  <2>2. Filled(f[i]) /\ FlattenSeq(f[i]) = SubSeq(pieces, 1, i)
    BY <1>3, <2>1
  <2>3. PICK x \in MetricRecords : x = pieces[i + 1]
    BY <1>0, <2>1
  <2>4. Len(x.points) \in 1..MAX_BATCH_POINTS
    BY <2>1, <2>3
  <2>5. f[i + 1] = AddPiece(f[i], x)
    BY <1>1, <2>1, <2>3
  <2> HIDE DEF T
  <2>6. /\ Filled(AddPiece(f[i], x))
        /\ FlattenSeq(AddPiece(f[i], x)) = Append(FlattenSeq(f[i]), x)
    BY <2>2, <2>4, AddPieceFacts
  <2>7. Append(SubSeq(pieces, 1, i), pieces[i + 1]) = SubSeq(pieces, 1, i + 1)
    BY <2>1, SubSeqNext
  <2> QED
    BY <2>2, <2>3, <2>5, <2>6, <2>7
<1> HIDE DEF T
<1>4. n \in T
  BY <1>0, <1>2, <1>3, NatInductive
<1>5. Filled(f[n]) /\ FlattenSeq(f[n]) = SubSeq(pieces, 1, n)
  BY <1>0, <1>4 DEF T
<1>6. SubSeq(pieces, 1, Len(pieces)) = pieces
  BY SubSeqEnds
<1> QED
  BY <1>5, <1>6

(* The pieces of all metrics of a request.                                 *)
AllPieces(request) == FlattenSeq([i \in DOMAIN request |-> Pieces(request[i])])

(* They are metrics that fit a batch and have the request's points.        *)
LEMMA AllPiecesFacts ==
    ASSUME MAX_BATCH_POINTS \in Nat \ {0}, NEW request \in Seq(MetricRecords)
    PROVE  /\ AllPieces(request) \in Seq(MetricRecords)
           /\ \A i \in 1..Len(AllPieces(request)) :
                Len(AllPieces(request)[i].points) \in 1..MAX_BATCH_POINTS
           /\ PointsOf(AllPieces(request)) = PointsOf(request)
           /\ [i \in DOMAIN request |-> Pieces(request[i])] \in Seq(Seq(MetricRecords))
<1> DEFINE R == {x \in MetricRecords : Len(x.points) \in 1..MAX_BATCH_POINTS}
           n == Len(request)
           lists == [i \in DOMAIN request |-> Pieces(request[i])]
<1>1. n \in Nat /\ DOMAIN request = 1..n /\ \A i \in 1..n : request[i] \in MetricRecords
  OBVIOUS
<1>2. ASSUME NEW i \in 1..n
      PROVE  /\ Pieces(request[i]) \in Seq(R) /\ Pieces(request[i]) \in Seq(MetricRecords)
             /\ PointsOf(Pieces(request[i])) = Len(request[i].points)
  <2>1. PICK x \in MetricRecords : x = request[i]
    BY <1>1
  <2>2. Cutting(x)
    BY PiecesFacts
  <2>3. PICK p : p = Pieces(x)
    OBVIOUS
  <2>4. /\ p \in Seq(MetricRecords) /\ PointsOf(p) = Len(x.points)
        /\ \A j \in 1..Len(p) : Len(p[j].points) \in 1..MAX_BATCH_POINTS
    BY <2>2, <2>3 DEF Cutting
  <2>5. \A j \in 1..Len(p) : p[j] \in R
    BY <2>4
  <2> HIDE DEF R
  <2>6. p \in Seq(R)
    BY <2>4, <2>5
  <2> QED
    BY <2>1, <2>3, <2>4, <2>6
<1>3. lists \in Seq(Seq(R)) /\ lists \in Seq(Seq(MetricRecords)) /\ Len(lists) = n
      /\ \A i \in 1..n : lists[i] = Pieces(request[i])
  <2> HIDE DEF R
  <2>1. lists = [i \in 1..n |-> Pieces(request[i])]
    BY <1>1
  <2> QED
    BY <1>1, <1>2, <2>1
<1>4. AllPieces(request) = FlattenSeq(lists)
  BY DEF AllPieces
<1>5. FlattenSeq(lists) \in Seq(R) /\ FlattenSeq(lists) \in Seq(MetricRecords)
  <2> HIDE DEF R, lists
  <2> QED
    BY <1>3, JoinsExist
<1>6. PointsOf(FlattenSeq(lists)) = PointsOf(request)
  <2>1. PointsOf(FlattenSeq(lists)) = Total([j \in 1..Len(lists) |-> PointsOf(lists[j])])
    <3> HIDE DEF lists
    <3> QED
      BY <1>3, PointsFlatten
  <2>2. [j \in 1..Len(lists) |-> PointsOf(lists[j])] = [i \in DOMAIN request |-> Len(request[i].points)]
    <3>1. \A j \in 1..n : PointsOf(lists[j]) = Len(request[j].points)
      BY <1>2, <1>3
    <3> HIDE DEF lists
    <3> QED
      BY <1>1, <1>3, <3>1
  <2> QED
    BY <2>1, <2>2 DEF PointsOf
<1>7. \A i \in 1..Len(FlattenSeq(lists)) : Len(FlattenSeq(lists)[i].points) \in 1..MAX_BATCH_POINTS
  <2> DEFINE p == FlattenSeq(lists)
  <2>1. p \in Seq(R)
    BY <1>5
  <2> HIDE DEF p
  <2>2. \A i \in 1..Len(p) : p[i] \in R
    <3> HIDE DEF R
    <3> QED
      BY <2>1
  <2>3. \A i \in 1..Len(p) : Len(p[i].points) \in 1..MAX_BATCH_POINTS
    BY <2>2
  <2> QED
    BY <2>3 DEF p
<1> QED
  BY <1>3, <1>4, <1>5, <1>6, <1>7

(* What slicing makes of a request: the request itself, or filled batches  *)
(* that carry its pieces.                                                  *)
Sliced(request, batches) ==
    /\ batches \in Seq(Seq(MetricRecords)) /\ Len(batches) \in Nat
    /\ \/ /\ MAX_BATCH_POINTS = 0 \/ PointsOf(request) <= MAX_BATCH_POINTS
          /\ batches = <<request>> /\ FlattenSeq(batches) = request
       \/ /\ MAX_BATCH_POINTS # 0
          /\ Filled(batches) /\ FlattenSeq(batches) = AllPieces(request)
    /\ PointsOf(FlattenSeq(batches)) = PointsOf(request)

(* That is what slice_into_batches does.                                   *)
LEMMA SliceFacts ==
    ASSUME NEW request \in Seq(MetricRecords)
    PROVE  Sliced(request, Slice(request))
<1>0. MAX_BATCH_POINTS \in Nat
  BY OtlpAssumption
<1>1. CASE MAX_BATCH_POINTS = 0 \/ PointsOf(request) <= MAX_BATCH_POINTS
  <2> DEFINE bs == <<request>>
  <2>1. Slice(request) = bs
    BY <1>1 DEF Slice
  <2>2. /\ bs \in Seq(Seq(MetricRecords)) /\ Len(bs) = 1 /\ 1 \in 1..Len(bs) /\ bs[1] = request
        /\ \A i \in 1..Len(bs) : i # 1 => bs[i] = << >>
    OBVIOUS
  <2> HIDE DEF bs
  <2>3. FlattenSeq(bs) = bs[1]
    <3>1. bs \in Seq(Seq(MetricRecords)) /\ 1 \in 1..Len(bs) /\ \A i \in 1..Len(bs) : i # 1 => bs[i] = << >>
      BY <2>2
    <3> QED
      BY ONLY <3>1, FlattenOne
  <2> QED
    BY <1>1, <2>1, <2>2, <2>3 DEF Sliced, bs
<1>2. CASE ~ (MAX_BATCH_POINTS = 0 \/ PointsOf(request) <= MAX_BATCH_POINTS)
  <2> DEFINE pieces == AllPieces(request)
             P(f) == f = [i \in 0..Len(pieces) |-> IF i = 0 THEN << >> ELSE AddPiece(f[i - 1], pieces[i])]
             h == CHOOSE f : P(f)
  <2>1. /\ pieces \in Seq(MetricRecords) /\ PointsOf(pieces) = PointsOf(request)
        /\ \A i \in 1..Len(pieces) : Len(pieces[i].points) \in 1..MAX_BATCH_POINTS
    BY <1>0, <1>2, AllPiecesFacts
  <2>2. Slice(request) = h[Len(pieces)]
    BY <1>2 DEF Slice, AllPieces
  <2> HIDE DEF pieces
  <2>3. P(h)
    <3>1. \E f : P(f)
      BY <2>1, FillingExists DEF Filling
    <3> HIDE DEF P
    <3> QED
      BY <3>1
  <2> HIDE DEF h
  <2>4. Filling(h, pieces)
    BY <2>3 DEF Filling
  <2> HIDE DEF P
  <2>5. Filled(h[Len(pieces)]) /\ FlattenSeq(h[Len(pieces)]) = pieces
    BY <1>0, <2>1, <2>4, FillingFacts
  <2> DEFINE bs == h[Len(pieces)]
  <2>6. Filled(bs) /\ FlattenSeq(bs) = pieces /\ bs \in Seq(Seq(MetricRecords))
    BY <2>5 DEF Filled
  <2>7. Slice(request) = bs
    BY <2>2
  <2> HIDE DEF bs
  <2>8. Len(bs) \in Nat
    BY <2>6
  <2> QED
    BY <1>2, <2>1, <2>6, <2>7, <2>8 DEF Sliced, pieces
<1> QED
  BY <1>1, <1>2

-----------------------------------------------------------------------------
(* The points a metric has under a name.                                   *)
Named(name) == [x \in MetricRecords |-> IF x.name = name THEN x.points ELSE << >>]

(* They are its own or none.                                               *)
LEMMA NamedFacts ==
    ASSUME NEW name
    PROVE  /\ Carries(Named(name), MetricRecords, DataPoints)
           /\ \A x \in MetricRecords : Named(name)[x] = IF x.name = name THEN x.points ELSE << >>
<1>1. \A x \in MetricRecords : Named(name)[x] = IF x.name = name THEN x.points ELSE << >>
  BY DEF Named
<1>2. ASSUME NEW x \in MetricRecords PROVE Named(name)[x] \in Seq(DataPoints)
  <2>1. x.points \in Seq(DataPoints) /\ << >> \in Seq(DataPoints)
    BY DEF MetricRecords
  <2> QED
    BY <1>1, <2>1
<1> QED
  BY <1>1, <1>2 DEF Carries

(* The points metrics have under a name are those they carry...            *)
LEMMA NamedCarried ==
    ASSUME NEW name, NEW ms \in Seq(MetricRecords)
    PROVE  PointsNamed(name, ms) = Carried(Named(name), ms)
<1>1. DOMAIN ms = 1..Len(ms) /\ \A i \in DOMAIN ms : ms[i] \in MetricRecords
  OBVIOUS
<1>2. \A i \in DOMAIN ms : Named(name)[ms[i]] = IF ms[i].name = name THEN ms[i].points ELSE << >>
  BY <1>1, NamedFacts
<1>3. Measured(Named(name), ms) = [i \in DOMAIN ms |-> IF ms[i].name = name THEN ms[i].points ELSE << >>]
  BY <1>2 DEF Measured
<1> QED
  BY <1>3 DEF Carried, PointsNamed

(* ... none under a name that none of them has...                          *)
LEMMA NamedNone ==
    ASSUME NEW name, NEW ms \in Seq(MetricRecords), \A i \in 1..Len(ms) : ms[i].name # name
    PROVE  PointsNamed(name, ms) = << >>
<1> DEFINE c == [i \in DOMAIN ms |-> IF ms[i].name = name THEN ms[i].points ELSE << >>]
<1>1. DOMAIN ms = 1..Len(ms) /\ Len(ms) \in Nat
  OBVIOUS
<1>2. c = [i \in 1..Len(ms) |-> << >>]
  BY <1>1
<1>3. << >> \in Seq(DataPoints)
  OBVIOUS
<1>4. PointsNamed(name, ms) = FlattenSeq(c)
  BY DEF PointsNamed
<1> HIDE DEF c
<1>5. c \in Seq(Seq(DataPoints)) /\ Len(c) = Len(ms) /\ \A i \in 1..Len(c) : c[i] = << >>
  BY <1>1, <1>2, <1>3
<1>6. FlattenSeq(c) = << >>
  BY ONLY <1>5, FlattenEmpty
<1> QED
  BY <1>4, <1>6

(* ... and of two lists those of the one and then those of the other.      *)
LEMMA NamedJoin ==
    ASSUME NEW name, NEW s \in Seq(MetricRecords), NEW t \in Seq(MetricRecords)
    PROVE  PointsNamed(name, s \o t) = PointsNamed(name, s) \o PointsNamed(name, t)
<1>1. s \o t \in Seq(MetricRecords)
  BY ConcatFacts
<1>2. Carries(Named(name), MetricRecords, DataPoints)
  BY NamedFacts
<1>3. Carried(Named(name), s \o t) = Carried(Named(name), s) \o Carried(Named(name), t)
  BY <1>2, CarriedJoin
<1> QED
  BY <1>1, <1>3, NamedCarried

(* The pieces of a metric have its points, under its name...               *)
LEMMA NamedPieces ==
    ASSUME MAX_BATCH_POINTS \in Nat \ {0}, NEW name, NEW x \in MetricRecords
    PROVE  Carried(Named(name), Pieces(x)) = Named(name)[x]
<1>1. Cutting(x)
  BY PiecesFacts
<1>2. PICK p : p = Pieces(x)
  OBVIOUS
<1>3. /\ p \in Seq(MetricRecords)
      /\ \A i \in 1..Len(p) : p[i].name = x.name
      /\ FlattenSeq([i \in DOMAIN p |-> p[i].points]) = x.points
  BY <1>1, <1>2 DEF Cutting
<1>4. Carried(Named(name), p) = PointsNamed(name, p)
  BY <1>3, NamedCarried
<1>5. DOMAIN p = 1..Len(p)
  BY <1>3
<1>6. CASE x.name = name
  <2>1. \A i \in DOMAIN p : (IF p[i].name = name THEN p[i].points ELSE << >>) = p[i].points
    BY <1>3, <1>5, <1>6
  <2>2. [i \in DOMAIN p |-> IF p[i].name = name THEN p[i].points ELSE << >>] = [i \in DOMAIN p |-> p[i].points]
    BY <2>1
  <2>3. PointsNamed(name, p) = x.points
    BY <1>3, <2>2 DEF PointsNamed
  <2> QED
    BY <1>2, <1>4, <1>6, <2>3, NamedFacts
<1>7. CASE x.name # name
  <2>1. PointsNamed(name, p) = << >>
    BY <1>3, <1>7, NamedNone
  <2> QED
    BY <1>2, <1>4, <1>7, <2>1, NamedFacts
<1> QED
  BY <1>6, <1>7

(* ... so slicing changes the points of no name.                           *)
LEMMA NamedSliced ==
    ASSUME NEW name, NEW request \in Seq(MetricRecords)
    PROVE  PointsNamed(name, FlattenSeq(Slice(request))) = PointsNamed(name, request)
<1>1. Sliced(request, Slice(request))
  BY SliceFacts
<1>2. CASE FlattenSeq(Slice(request)) = request
  BY <1>2
<1>3. CASE MAX_BATCH_POINTS # 0 /\ FlattenSeq(Slice(request)) = AllPieces(request)
  <2> DEFINE m == Named(name)
             lists == [i \in DOMAIN request |-> Pieces(request[i])]
             c == [s \in Seq(MetricRecords) |-> Carried(m, s)]
  <2>1. MAX_BATCH_POINTS \in Nat \ {0}
    BY <1>3, OtlpAssumption
  <2>2. lists \in Seq(Seq(MetricRecords)) /\ AllPieces(request) \in Seq(MetricRecords)
    BY <2>1, AllPiecesFacts
  <2>3. \A i \in DOMAIN request : request[i] \in MetricRecords
    OBVIOUS
  <2>4. DOMAIN lists = DOMAIN request /\ \A i \in DOMAIN request : lists[i] = Pieces(request[i])
    OBVIOUS
  <2>5. AllPieces(request) = FlattenSeq(lists)
    BY DEF AllPieces
  <2> HIDE DEF m, lists
  <2>6. Carries(m, MetricRecords, DataPoints)
    BY NamedFacts DEF m
  <2>7. Carried(m, FlattenSeq(lists)) = Carried(c, lists)
    BY ONLY <2>2, <2>6, CarriedFlatten
  <2>8. Measured(c, lists) = Measured(m, request)
    <3>1. ASSUME NEW i \in DOMAIN request PROVE c[lists[i]] = m[request[i]]
      <4>1. lists[i] \in Seq(MetricRecords)
        BY <2>2, <2>4
      <4>2. Carried(m, Pieces(request[i])) = m[request[i]]
        BY <2>1, <2>3, NamedPieces DEF m
      <4> QED
        BY <2>4, <4>1, <4>2
    <3> HIDE DEF c
    <3> QED
      BY <2>4, <3>1 DEF Measured
  <2>9. Carried(c, lists) = Carried(m, request)
    BY <2>8 DEF Carried
  <2> QED
    BY <1>3, <2>2, <2>5, <2>7, <2>9, NamedCarried DEF m
<1> QED
  BY <1>1, <1>2, <1>3 DEF Sliced

(* Metrics named out of a set, none of whose points comes under the name   *)
(* of another.                                                             *)
Distinct(ms, names) ==
    /\ ms \in Seq(MetricRecords)
    /\ \A i \in 1..Len(ms) : ms[i].name \in names /\ PointsNamed(ms[i].name, ms) = ms[i].points

(* Two lists that share no name make such a list...                        *)
LEMMA DistinctJoin ==
    ASSUME NEW M, NEW N, M \cap N = {}, NEW s, NEW t, Distinct(s, M), Distinct(t, N)
    PROVE  Distinct(s \o t, M \cup N)
<1>1. /\ s \in Seq(MetricRecords) /\ t \in Seq(MetricRecords)
      /\ \A i \in 1..Len(s) : s[i].name \in M /\ PointsNamed(s[i].name, s) = s[i].points
      /\ \A i \in 1..Len(t) : t[i].name \in N /\ PointsNamed(t[i].name, t) = t[i].points
      /\ Len(s) \in Nat /\ Len(t) \in Nat
  <2>1. s \in Seq(MetricRecords) /\ t \in Seq(MetricRecords)
    BY DEF Distinct
  <2> QED
    BY <2>1 DEF Distinct
<1> DEFINE u == s \o t
<1>2. /\ u \in Seq(MetricRecords) /\ Len(u) = Len(s) + Len(t)
      /\ \A i \in 1..(Len(s) + Len(t)) : u[i] = IF i <= Len(s) THEN s[i] ELSE t[i - Len(s)]
  BY <1>1, ConcatFacts
<1>3. \A name : PointsNamed(name, u) = PointsNamed(name, s) \o PointsNamed(name, t)
  BY <1>1, NamedJoin
<1> HIDE DEF u
<1>4. ASSUME NEW i \in 1..Len(u)
      PROVE  u[i].name \in M \cup N /\ PointsNamed(u[i].name, u) = u[i].points
  <2>1. CASE i <= Len(s)
    <3>1. i \in 1..Len(s) /\ u[i] = s[i]
      BY <1>1, <1>2, <2>1
    <3>2. PICK x \in MetricRecords : x = s[i]
      BY <1>1, <3>1
    <3>3. x.name \in M /\ PointsNamed(x.name, s) = x.points
      BY <1>1, <3>1, <3>2
    <3>4. PointsNamed(x.name, t) = << >>
      <4>1. \A j \in 1..Len(t) : t[j].name # x.name
        BY <1>1, <3>3
      <4> QED
        BY <1>1, <4>1, NamedNone
    <3>5. PointsNamed(x.name, u) = x.points \o << >>
      BY <1>3, <3>3, <3>4
    <3>6. x.points \in Seq(DataPoints)
      BY DEF MetricRecords
    <3>7. x.points \o << >> = x.points
      BY <3>6
    <3> QED
      BY <3>1, <3>2, <3>3, <3>5, <3>7
  <2>2. CASE ~ (i <= Len(s))
    <3>1. i - Len(s) \in 1..Len(t) /\ u[i] = t[i - Len(s)]
      BY <1>1, <1>2, <2>2
    <3>2. PICK x \in MetricRecords : x = t[i - Len(s)]
      BY <1>1, <3>1
    <3>3. x.name \in N /\ PointsNamed(x.name, t) = x.points
      BY <1>1, <3>1, <3>2
    <3>4. PointsNamed(x.name, s) = << >>
      <4>1. \A j \in 1..Len(s) : s[j].name # x.name
        BY <1>1, <3>3
      <4> QED
        BY <1>1, <4>1, NamedNone
    <3>5. PointsNamed(x.name, u) = << >> \o x.points
      BY <1>3, <3>3, <3>4
    <3>6. x.points \in Seq(DataPoints)
      BY DEF MetricRecords
    <3>7. << >> \o x.points = x.points
      BY <3>6
    <3> QED
      BY <3>1, <3>2, <3>3, <3>5, <3>7
  <2> QED
    BY <2>1, <2>2
<1> QED
  BY <1>2, <1>4 DEF Distinct, u

(* ... and so do the same points under different names.                    *)
LEMMA DistinctMetrics ==
    ASSUME NEW N \in SUBSET MetricNames, NEW names \in Seq(N), NEW pts \in Seq(DataPoints),
           \A i, j \in 1..Len(names) : i # j => names[i] # names[j]
    PROVE  Distinct(Metrics(names, pts), N)
<1> DEFINE ms == Metrics(names, pts)
<1>1. names \in Seq(MetricNames) /\ Len(names) \in Nat /\ DOMAIN names = 1..Len(names)
  OBVIOUS
<1>2. ms \in Seq(MetricRecords)
  BY <1>1, MetricsFacts
<1>3. CASE pts = << >>
  <2>1. ms = << >>
    BY <1>3 DEF Metrics
  <2>2. Len(ms) = 0
    BY <2>1
  <2> HIDE DEF ms
  <2> QED
    BY <1>2, <2>2 DEF Distinct, ms
<1>4. CASE pts # << >>
  <2>1. ms = [i \in 1..Len(names) |-> [name |-> names[i], points |-> pts]]
    BY <1>1, <1>4 DEF Metrics
  <2>2. Len(ms) = Len(names) /\ DOMAIN ms = 1..Len(names)
    BY <1>1, <2>1
  <2>3. \A i \in 1..Len(names) : ms[i].name = names[i] /\ ms[i].points = pts
    BY <2>1
  <2> HIDE DEF ms
  <2>4. ASSUME NEW k \in 1..Len(names)
        PROVE  ms[k].name \in N /\ PointsNamed(ms[k].name, ms) = ms[k].points
    <3>1. names[k] \in N
      OBVIOUS
    <3> DEFINE c == [i \in DOMAIN ms |-> IF ms[i].name = names[k] THEN ms[i].points ELSE << >>]
    <3>2. c = [i \in 1..Len(names) |-> IF i = k THEN pts ELSE << >>]
      BY <2>2, <2>3
    <3>3. PointsNamed(names[k], ms) = FlattenSeq(c)
      BY DEF PointsNamed
    <3> HIDE DEF c
    <3>4. << >> \in Seq(DataPoints)
      OBVIOUS
    <3>5. /\ c \in Seq(Seq(DataPoints)) /\ k \in 1..Len(c) /\ c[k] = pts
          /\ \A i \in 1..Len(c) : i # k => c[i] = << >>
      BY <1>1, <3>2, <3>4
    <3>6. FlattenSeq(c) = c[k]
      BY ONLY <3>5, FlattenOne
    <3> QED
      BY <2>3, <3>1, <3>3, <3>5, <3>6
  <2> QED
    BY <1>2, <2>2, <2>4 DEF Distinct, ms
<1> QED
  BY <1>3, <1>4

(* No two of a request's metrics have the same name, and the exporter's    *)
(* own points are always in it.                                            *)
LEMMA RequestDistinct ==
    ASSUME NEW snap \in Seq(Nat)
    PROVE  Distinct(Request(snap), MetricNames) /\ PointsOf(SelfMetrics) = 10
<1> DEFINE one == << <<0, 1>> >>
           two == << <<0, 1>>, <<0, 2>> >>
           flows == FlowPoints(snap)
           tallies == [r \in DOMAIN snap |-> <<r, 0>>]
           c == <<"ticks_dropped", "batches_sent", "batches_dropped">>
           d == <<"batches_failed">>
           e == <<"points_emitted", "points_dropped", "attrs_truncated",
                  "export_duration", "queue_depth">>
           A == {"flow.packets", "flow.bytes", "flow.last_seen"}
           B == {"flow-rule.flows", "flow-rule.evictions", "flow-rule.drops",
                 "flow-rule.packets", "flow-rule.bytes"}
           C == {"ticks_dropped", "batches_sent", "batches_dropped"}
           D == {"batches_failed"}
           E == {"points_emitted", "points_dropped", "attrs_truncated",
                 "export_duration", "queue_depth"}
           ma == Metrics(FlowMetrics, flows)
           mb == Metrics(RuleMetrics, tallies)
           mc == Metrics(c, one)
           md == Metrics(d, two)
           me == Metrics(e, one)
<1>1. one \in Seq(DataPoints) /\ two \in Seq(DataPoints) /\ Len(one) = 1 /\ Len(two) = 2
  <2>1. <<0, 1>> \in DataPoints /\ <<0, 2>> \in DataPoints
    BY DEF DataPoints
  <2> QED
    BY <2>1
<1>2. flows \in Seq(DataPoints) /\ tallies \in Seq(DataPoints)
  BY FlowPointsFacts, RulePointsFacts
<1>3. Request(snap) = ma \o mb \o SelfMetrics /\ SelfMetrics = (mc \o md) \o me
  BY DEF Request, SelfMetrics, FlowPoints
<1>4. /\ A \in SUBSET MetricNames /\ B \in SUBSET MetricNames /\ C \in SUBSET MetricNames
      /\ D \in SUBSET MetricNames /\ E \in SUBSET MetricNames
      /\ MetricNames = (A \cup B) \cup ((C \cup D) \cup E)
  BY DEF MetricNames
<1>5. /\ A \cap B = {} /\ (A \cup B) \cap ((C \cup D) \cup E) = {}
      /\ C \cap D = {} /\ (C \cup D) \cap E = {}
  OBVIOUS
<1>6. /\ FlowMetrics \in Seq(A) /\ \A i, j \in 1..Len(FlowMetrics) : i # j => FlowMetrics[i] # FlowMetrics[j]
      /\ RuleMetrics \in Seq(B) /\ \A i, j \in 1..Len(RuleMetrics) : i # j => RuleMetrics[i] # RuleMetrics[j]
  BY DEF FlowMetrics, RuleMetrics
<1>7. /\ c \in Seq(C) /\ Len(c) = 3 /\ \A i, j \in 1..Len(c) : i # j => c[i] # c[j]
      /\ d \in Seq(D) /\ Len(d) = 1 /\ \A i, j \in 1..Len(d) : i # j => d[i] # d[j]
      /\ e \in Seq(E) /\ Len(e) = 5 /\ \A i, j \in 1..Len(e) : i # j => e[i] # e[j]
  OBVIOUS
<1> HIDE DEF one, two, flows, tallies, c, d, e, A, B, C, D, E
<1>8. Distinct(ma, A)
  BY <1>2, <1>4, <1>6, DistinctMetrics
<1>9. Distinct(mb, B)
  BY <1>2, <1>4, <1>6, DistinctMetrics
<1>10. Distinct(mc, C)
  BY <1>1, <1>4, <1>7, DistinctMetrics
<1>11. Distinct(md, D)
  BY <1>1, <1>4, <1>7, DistinctMetrics
<1>12. Distinct(me, E)
  BY <1>1, <1>4, <1>7, DistinctMetrics
<1>13. PointsOf(mc) = 3 /\ PointsOf(md) = 2 /\ PointsOf(me) = 5
  <2>1. c \in Seq(MetricNames) /\ d \in Seq(MetricNames) /\ e \in Seq(MetricNames)
    BY <1>4, <1>7
  <2>2. /\ PointsOf(mc) = Len(c) * Len(one) /\ PointsOf(md) = Len(d) * Len(two)
        /\ PointsOf(me) = Len(e) * Len(one)
    BY <1>1, <2>1, MetricsFacts
  <2> QED
    BY <1>1, <1>7, <2>2
<1>14. /\ mc \in Seq(MetricRecords) /\ md \in Seq(MetricRecords) /\ me \in Seq(MetricRecords)
  BY <1>10, <1>11, <1>12 DEF Distinct
<1> HIDE DEF ma, mb, mc, md, me
<1>15. Distinct(ma \o mb, A \cup B)
  BY <1>5, <1>8, <1>9, DistinctJoin
<1>16. Distinct(mc \o md, C \cup D)
  BY <1>5, <1>10, <1>11, DistinctJoin
<1>17. Distinct(SelfMetrics, (C \cup D) \cup E)
  BY <1>3, <1>5, <1>12, <1>16, DistinctJoin
<1>18. Distinct(Request(snap), MetricNames)
  <2>1. PICK s, M, N : s = ma \o mb /\ M = A \cup B /\ N = (C \cup D) \cup E
    OBVIOUS
  <2>2. Distinct(s, M) /\ Distinct(SelfMetrics, N) /\ M \cap N = {}
    BY <1>5, <1>15, <1>17, <2>1
  <2>3. Distinct(s \o SelfMetrics, M \cup N)
    BY ONLY <2>2, DistinctJoin
  <2>4. Request(snap) = s \o SelfMetrics /\ MetricNames = M \cup N
    BY <1>3, <1>4, <2>1
  <2> QED
    BY <2>3, <2>4
<1>19. PointsOf(SelfMetrics) = 10
  <2>1. PICK s : s = mc \o md
    OBVIOUS
  <2>2. s \in Seq(MetricRecords) /\ PointsOf(s) = 5
    BY <1>13, <1>14, <2>1, PointsConcat
  <2>3. PointsOf(s \o me) = PointsOf(s) + PointsOf(me)
    BY <1>14, <2>2, PointsConcat
  <2> QED
    BY <1>3, <1>13, <2>1, <2>2, <2>3
<1> QED
  BY <1>18, <1>19

-----------------------------------------------------------------------------
(* The points of the batches before one.                                   *)
PointsBefore(sizes, b) == Total(SubSeq(sizes, 1, b - 1))

(* What is counted and what reached the collector are numbers.             *)
MetricsType == [sent : Nat, non_retryable : Nat, transient : Nat, emitted : Nat, dropped : Nat]
AcceptedType == [batches : Nat, points : Nat]

CountsType ==
    /\ metrics \in MetricsType /\ accepted \in AcceptedType
    /\ points \in Nat /\ failed \in BOOLEAN /\ reached \in BOOLEAN

(* An export is one of a snapshot, at one of its batches; as long as none  *)
(* has failed, all before this one were sent.                              *)
InProgress ==
    IF thread = "export"
    THEN /\ export \in Prepared
         /\ batch \in 1..Len(export.batch_points)
         /\ ~ failed => points = PointsBefore(export.batch_points, batch)
    ELSE points = 0 /\ ~ reached

(* The batch being sent may have arrived before it is counted.             *)
Counted ==
    /\ metrics.sent + (IF reached THEN 1 ELSE 0) <= accepted.batches
    /\ metrics.emitted + points + (IF reached THEN export.batch_points[batch] ELSE 0)
         <= accepted.points

ExportInv == CountsType /\ InProgress /\ Counted

(* What an export has prepared fits together: its batches have together    *)
(* what the snapshot's own points and the exporter's are.                  *)
Fits(p) ==
    /\ p.snap \in Seq(Nat)
    /\ p.built = PointsBuilt(p.snap) /\ p.built \in Nat
    /\ p.dropped = PointsDropped(p.snap) /\ p.dropped \in Nat
    /\ p.batch_points \in Seq(Nat) /\ Len(p.batch_points) \in Nat \ {0}
    /\ Total(p.batch_points) = p.built + 10

(* What export() prepares does.                                            *)
LEMMA PreparedFacts ==
    ASSUME NEW p \in Prepared
    PROVE  Fits(p)
<1>1. PICK s \in Snapshots :
        p = [snap |-> s, dropped |-> PointsDropped(s), built |-> PointsBuilt(s),
             batch_points |-> LET batches == Batches(s)
                              IN [b \in DOMAIN batches |-> PointsOf(batches[b])]]
  BY DEF Prepared
<1> DEFINE request == Request(s)
           batches == Batches(s)
           sizes == [b \in DOMAIN batches |-> PointsOf(batches[b])]
<1>2. /\ p.snap = s /\ p.dropped = PointsDropped(s) /\ p.built = PointsBuilt(s)
      /\ p.batch_points = sizes
  <2> HIDE DEF batches
  <2> QED
    BY <1>1 DEF batches
<1>3. s \in Seq(Nat)
  BY OtlpAssumption
<1>4. /\ request \in Seq(MetricRecords) /\ PointsBuilt(s) \in Nat
      /\ PointsOf(request) = PointsBuilt(s) + 10
  BY <1>3, RequestFacts, RequestDistinct
<1>5. Sliced(request, batches)
  BY <1>4, SliceFacts DEF Batches
<1> HIDE DEF request, batches
<1>6. /\ batches \in Seq(Seq(MetricRecords)) /\ Len(batches) \in Nat
      /\ PointsOf(FlattenSeq(batches)) = PointsOf(request)
  BY <1>5 DEF Sliced
<1>7. DOMAIN batches = 1..Len(batches)
  BY <1>6
<1>8. Total(sizes) = PointsBuilt(s) + 10
  <2>1. PointsOf(FlattenSeq(batches)) = Total([j \in 1..Len(batches) |-> PointsOf(batches[j])])
    BY <1>6, PointsFlatten
  <2> QED
    BY <1>4, <1>6, <1>7, <2>1
<1>9. sizes \in Seq(Nat) /\ Len(sizes) \in Nat
  <2>1. \A b \in 1..Len(batches) : batches[b] \in Seq(MetricRecords)
    BY <1>6
  <2>2. \A b \in 1..Len(batches) : PointsOf(batches[b]) \in Nat
    BY <2>1, PointsMeasured
  <2> QED
    BY <1>6, <1>7, <2>2
<1> HIDE DEF sizes
<1>10. Len(sizes) # 0
  <2> SUFFICES ASSUME Len(sizes) = 0 PROVE FALSE
    OBVIOUS
  <2>1. sizes = << >>
    BY <1>9
  <2>2. Total(sizes) = 0
    BY <2>1, TotalEmpty
  <2> QED
    BY <1>4, <1>8, <2>2
<1>11. PointsDropped(s) \in Nat
  <2>1. /\ Total(FlowsEmitted(s)) \in Nat /\ Total(s) \in Nat
        /\ Total(FlowsEmitted(s)) <= Total(s)
    BY <1>3, Emitted DEF Emission
  <2> QED
    BY <2>1 DEF PointsDropped, POINTS_PER_FLOW
<1> QED
  BY <1>2, <1>3, <1>4, <1>8, <1>9, <1>10, <1>11 DEF Fits

(* One batch more was sent.                                                *)
LEMMA BeforeFacts ==
    ASSUME NEW sizes \in Seq(Nat)
    PROVE  /\ PointsBefore(sizes, 1) = 0
           /\ PointsBefore(sizes, Len(sizes) + 1) = Total(sizes)
           /\ \A b \in 1..Len(sizes) :
                PointsBefore(sizes, b + 1) = PointsBefore(sizes, b) + sizes[b]
<1>1. Len(sizes) \in Nat /\ (Len(sizes) + 1) - 1 = Len(sizes) /\ 1 - 1 = 0
  OBVIOUS
<1>2. SubSeq(sizes, 1, 0) = << >> /\ SubSeq(sizes, 1, Len(sizes)) = sizes
  BY SubSeqEnds
<1>3. ASSUME NEW b \in 1..Len(sizes)
      PROVE  PointsBefore(sizes, b + 1) = PointsBefore(sizes, b) + sizes[b]
  <2>1. PICK n \in Nat : n = b - 1
    OBVIOUS
  <2>2. n + 1 = b /\ (b + 1) - 1 = n + 1 /\ n + 1 <= Len(sizes) /\ n <= Len(sizes)
    BY <1>1, <2>1
  <2>3. Append(SubSeq(sizes, 1, n), sizes[n + 1]) = SubSeq(sizes, 1, n + 1)
    BY <2>2, SubSeqNext
  <2>4. SubSeq(sizes, 1, n) \in Seq(Nat)
    <3>1. SubSeq(sizes, 0 + 1, n) \in Seq(Nat)
      <4>1. 0 \in Nat /\ 0 <= n
        OBVIOUS
      <4> QED
        BY <2>2, <4>1, SubSeqFacts
    <3> QED
      BY <3>1
  <2>5. PICK l \in Seq(Int) : l = SubSeq(sizes, 1, n)
    <3>1. PICK t \in Seq(Nat) : t = SubSeq(sizes, 1, n)
      BY <2>4
    <3>2. t \in Seq(Int)
      OBVIOUS
    <3> QED
      BY ONLY <3>1, <3>2
  <2>6. PICK k \in Int : k = sizes[n + 1]
    BY <1>1, <2>2
  <2>7. Total(Append(l, k)) = Total(l) + k
    BY TotalAppend
  <2>8. PointsBefore(sizes, b) = Total(l) /\ PointsBefore(sizes, b + 1) = Total(Append(l, k))
    BY <2>1, <2>2, <2>3, <2>5, <2>6 DEF PointsBefore
  <2> QED
    BY <2>2, <2>6, <2>7, <2>8
<1> QED
  BY <1>1, <1>2, <1>3, TotalEmpty DEF PointsBefore

(* An export in progress, and what is left of it.                          *)
LEMMA Exported ==
    ASSUME ExportInv, thread = "export"
    PROVE  /\ Fits(export) /\ batch \in 1..Len(export.batch_points)
           /\ export.batch_points[batch] \in Nat
           /\ ~ failed => points = PointsBefore(export.batch_points, batch)
<1>1. export \in Prepared /\ batch \in 1..Len(export.batch_points)
  BY DEF ExportInv, InProgress
<1>2. Fits(export)
  BY <1>1, PreparedFacts
<1>3. export.batch_points[batch] \in Nat
  BY <1>1, <1>2 DEF Fits
<1> QED
  BY <1>1, <1>2, <1>3 DEF ExportInv, InProgress

(* Counting more.                                                          *)
LEMMA MoreMetrics ==
    ASSUME NEW m \in MetricsType, NEW a \in Nat, NEW b \in Nat
    PROVE  /\ \A u \in {[m EXCEPT !.emitted = @ + a],
                         [m EXCEPT !.emitted = @ + a, !.transient = @ + b],
                         [m EXCEPT !.emitted = @ + a, !.non_retryable = @ + b]} :
                u \in MetricsType /\ u.sent = m.sent /\ u.emitted = m.emitted + a
           /\ [m EXCEPT !.dropped = @ + a] \in MetricsType
           /\ [m EXCEPT !.dropped = @ + a].sent = m.sent
           /\ [m EXCEPT !.dropped = @ + a].emitted = m.emitted
<1>1. /\ m.sent \in Nat /\ m.emitted \in Nat /\ m.transient \in Nat
      /\ m.non_retryable \in Nat /\ m.dropped \in Nat
      /\ m = [sent |-> m.sent, non_retryable |-> m.non_retryable, transient |-> m.transient,
              emitted |-> m.emitted, dropped |-> m.dropped]
  BY DEF MetricsType
<1>2. PICK x \in Nat, y \in Nat, z \in Nat, w \in Nat :
        x = m.emitted + a /\ y = m.transient + b /\ z = m.non_retryable + b /\ w = m.dropped + a
  BY <1>1
<1>3. /\ [m EXCEPT !.emitted = @ + a]
           = [sent |-> m.sent, non_retryable |-> m.non_retryable, transient |-> m.transient,
              emitted |-> x, dropped |-> m.dropped]
      /\ [m EXCEPT !.dropped = @ + a]
           = [sent |-> m.sent, non_retryable |-> m.non_retryable, transient |-> m.transient,
              emitted |-> m.emitted, dropped |-> w]
  BY <1>1, <1>2
<1>4. [m EXCEPT !.emitted = @ + a, !.transient = @ + b]
        = [sent |-> m.sent, non_retryable |-> m.non_retryable, transient |-> y,
           emitted |-> x, dropped |-> m.dropped]
  <2>1. PICK u : u = [m EXCEPT !.emitted = x]
    OBVIOUS
  <2>2. u = [sent |-> m.sent, non_retryable |-> m.non_retryable, transient |-> m.transient,
             emitted |-> x, dropped |-> m.dropped]
    BY <1>1, <2>1
  <2>3. [u EXCEPT !.transient = y]
          = [sent |-> m.sent, non_retryable |-> m.non_retryable, transient |-> y,
             emitted |-> x, dropped |-> m.dropped]
    BY <2>2
  <2>4. [m EXCEPT !.emitted = @ + a, !.transient = @ + b] = [u EXCEPT !.transient = y]
    BY <1>2, <2>1, Zenon
  <2> QED
    BY <2>3, <2>4
<1>5. [m EXCEPT !.emitted = @ + a, !.non_retryable = @ + b]
        = [sent |-> m.sent, non_retryable |-> z, transient |-> m.transient,
           emitted |-> x, dropped |-> m.dropped]
  <2>1. PICK u : u = [m EXCEPT !.emitted = x]
    OBVIOUS
  <2>2. u = [sent |-> m.sent, non_retryable |-> m.non_retryable, transient |-> m.transient,
             emitted |-> x, dropped |-> m.dropped]
    BY <1>1, <2>1
  <2>3. [u EXCEPT !.non_retryable = z]
          = [sent |-> m.sent, non_retryable |-> z, transient |-> m.transient,
             emitted |-> x, dropped |-> m.dropped]
    BY <2>2
  <2>4. [m EXCEPT !.emitted = @ + a, !.non_retryable = @ + b] = [u EXCEPT !.non_retryable = z]
    BY <1>2, <2>1, Zenon
  <2> QED
    BY <2>3, <2>4
<1> QED
  BY <1>1, <1>2, <1>3, <1>4, <1>5 DEF MetricsType

(* The next batch, or the end, keeps the invariant if what is counted then *)
(* had arrived.                                                            *)
LEMMA NextBatchKeeps ==
    ASSUME ExportInv, thread = "export",
           NEW fail \in BOOLEAN, NEW sum \in Nat, NEW m \in MetricsType,
           NextBatch(fail, sum, m),
           accepted' \in AcceptedType,
           m.sent <= accepted'.batches, m.emitted + sum <= accepted'.points,
           ~ fail => sum = PointsBefore(export.batch_points, batch + 1)
    PROVE  ExportInv'
<1>1. Fits(export) /\ batch \in 1..Len(export.batch_points)
  BY Exported
<1>2. /\ export.batch_points \in Seq(Nat) /\ export.built \in Nat
      /\ Len(export.batch_points) \in Nat
      /\ Total(export.batch_points) = export.built + 10
  BY <1>1 DEF Fits
<1>3. CASE batch = Len(export.batch_points) /\ Finish(fail, sum, m)
  <2>1. /\ thread' = "recv" /\ points' = 0 /\ reached' = FALSE /\ failed' = FALSE
        /\ metrics' = IF fail THEN [m EXCEPT !.emitted = @ + sum, !.transient = @ + 1]
                      ELSE [m EXCEPT !.emitted = @ + export.built]
    BY <1>3 DEF Finish, Ends
  <2>2. ~ fail => sum = export.built + 10
    BY <1>2, <1>3, BeforeFacts
  <2>3. /\ metrics' \in MetricsType /\ metrics'.sent = m.sent
        /\ metrics'.emitted <= m.emitted + sum
    <3>1. m.emitted \in Nat
      BY DEF MetricsType
    <3>2. CASE fail
      <4>1. metrics' = [m EXCEPT !.emitted = @ + sum, !.transient = @ + 1] /\ 1 \in Nat
        BY <2>1, <3>2
      <4>2. metrics' \in MetricsType /\ metrics'.sent = m.sent /\ metrics'.emitted = m.emitted + sum
        BY <4>1, MoreMetrics
      <4> QED
        BY <3>1, <4>2
    <3>3. CASE ~ fail
      <4>1. PICK k \in Nat : k = export.built
        BY <1>2
      <4>2. metrics' = [m EXCEPT !.emitted = @ + k]
        BY <2>1, <3>3, <4>1
      <4>3. metrics' \in MetricsType /\ metrics'.sent = m.sent /\ metrics'.emitted = m.emitted + k
        BY <4>2, MoreMetrics
      <4> QED
        BY <2>2, <3>1, <3>3, <4>1, <4>3
    <3> QED
      BY <3>2, <3>3
  <2>4. CountsType'
    BY <2>1, <2>3 DEF CountsType, MetricsType, AcceptedType
  <2>5. InProgress'
    BY <2>1 DEF InProgress
  <2>6. Counted'
    <3>1. m.emitted \in Nat /\ m.sent \in Nat /\ accepted'.points \in Nat /\ metrics'.emitted \in Nat
      BY <2>3 DEF MetricsType, AcceptedType
    <3>2. metrics'.emitted <= accepted'.points
      BY <2>3, <3>1
    <3> QED
      BY <2>1, <2>3, <3>1, <3>2 DEF Counted
  <2> QED
    BY <2>4, <2>5, <2>6 DEF ExportInv
<1>4. CASE /\ batch < Len(export.batch_points)
           /\ batch' = batch + 1 /\ attempt' = 0 /\ failed' = fail /\ points' = sum
           /\ metrics' = m
           /\ tried' = tried + 1 /\ reached' = FALSE
           /\ UNCHANGED <<thread, export>>
  <2>1. CountsType'
    BY <1>4 DEF CountsType, MetricsType, AcceptedType
  <2>2. InProgress'
    <3>1. export \in Prepared
      BY DEF ExportInv, InProgress
    <3>2. batch + 1 \in 1..Len(export.batch_points)
      BY <1>1, <1>2, <1>4
    <3>3. /\ thread' = "export" /\ export' = export /\ batch' = batch + 1
          /\ failed' = fail /\ points' = sum /\ Prepared' = Prepared
      BY <1>4
    <3> QED
      BY <3>1, <3>2, <3>3 DEF InProgress
  <2>3. Counted'
    <3>1. m.emitted \in Nat /\ m.sent \in Nat
      BY DEF MetricsType
    <3> QED
      BY <1>4, <3>1 DEF Counted
  <2> QED
    BY <2>1, <2>2, <2>3 DEF ExportInv
<1> QED
  BY <1>3, <1>4 DEF NextBatch

(* So does another attempt, if the batch it is noted to have arrived has.  *)
LEMMA TryAgainKeeps ==
    ASSUME ExportInv, thread = "export", NEW arrived \in BOOLEAN, TryAgain(arrived),
           accepted' \in AcceptedType,
           metrics.sent + (IF arrived THEN 1 ELSE 0) <= accepted'.batches,
           metrics.emitted + points + (IF arrived THEN export.batch_points[batch] ELSE 0)
             <= accepted'.points
    PROVE  ExportInv'
<1>1. metrics \in MetricsType /\ points \in Nat /\ failed \in BOOLEAN
  BY DEF ExportInv, CountsType, MetricsType
<1>2. export.batch_points[batch] \in Nat
  BY Exported
<1>3. metrics.sent \in Nat /\ metrics.emitted \in Nat
  BY <1>1 DEF MetricsType
<1>4. CASE /\ reached' = arrived
           /\ UNCHANGED <<thread, export, batch, failed, points, metrics, tried>>
  <2>1. CountsType'
    BY <1>1, <1>4 DEF CountsType, MetricsType, AcceptedType
  <2>2. InProgress'
    BY <1>4 DEF ExportInv, InProgress
  <2>3. Counted'
    BY <1>4 DEF Counted
  <2> QED
    BY <2>1, <2>2, <2>3 DEF ExportInv
<1>5. CASE NextBatch(TRUE, points, [metrics EXCEPT !.transient = @ + 1])
  <2> DEFINE m == [metrics EXCEPT !.transient = @ + 1]
  <2>1. m \in MetricsType /\ m.sent = metrics.sent /\ m.emitted = metrics.emitted
    BY <1>1 DEF MetricsType
  <2>2. NextBatch(TRUE, points, m)
    BY <1>5
  <2> HIDE DEF m
  <2>3. accepted'.batches \in Nat /\ accepted'.points \in Nat
    BY DEF AcceptedType
  <2>4. m.sent <= accepted'.batches
    BY <1>3, <2>1, <2>3
  <2>5. m.emitted + points <= accepted'.points
    BY <1>1, <1>2, <1>3, <2>1, <2>3
  <2> QED
    BY <1>1, <2>1, <2>2, <2>4, <2>5, NextBatchKeeps
<1> QED
  BY <1>4, <1>5 DEF TryAgain

(* A batch that reaches the collector is there once.                       *)
LEMMA ReachesFacts ==
    ASSUME ExportInv, thread = "export", Reaches
    PROVE  /\ accepted' \in AcceptedType
           /\ metrics.sent + 1 <= accepted'.batches
           /\ metrics.emitted + points + export.batch_points[batch] <= accepted'.points
<1>1. /\ accepted \in AcceptedType /\ metrics.sent \in Nat /\ metrics.emitted \in Nat
      /\ points \in Nat /\ export.batch_points[batch] \in Nat
  BY Exported DEF ExportInv, CountsType, MetricsType, AcceptedType
<1>2. accepted.batches \in Nat /\ accepted.points \in Nat
  BY <1>1 DEF AcceptedType
<1>3. /\ metrics.sent + (IF reached THEN 1 ELSE 0) <= accepted.batches
      /\ metrics.emitted + points + (IF reached THEN export.batch_points[batch] ELSE 0)
           <= accepted.points
  BY DEF ExportInv, Counted
<1>4. CASE reached
  BY <1>1, <1>3, <1>4 DEF Reaches
<1>5. CASE ~ reached
  <2>1. accepted' = [batches |-> accepted.batches + 1,
                     points |-> accepted.points + export.batch_points[batch]]
    BY <1>5 DEF Reaches
  <2>2. /\ accepted' \in AcceptedType /\ accepted'.batches = accepted.batches + 1
        /\ accepted'.points = accepted.points + export.batch_points[batch]
    BY <1>1, <1>2, <2>1 DEF AcceptedType
  <2> QED
    BY <1>1, <1>2, <1>3, <1>5, <2>2
<1> QED
  BY <1>4, <1>5

(* The end of an export keeps the invariant if it counts what had arrived. *)
LEMMA EndsKeeps ==
    ASSUME ExportInv, NEW state, state # "export", Ends(state),
           metrics' \in MetricsType, accepted' \in AcceptedType,
           metrics'.sent <= accepted'.batches, metrics'.emitted <= accepted'.points
    PROVE  ExportInv'
<1>1. thread' = state /\ points' = 0 /\ reached' = FALSE /\ failed' = FALSE
  BY DEF Ends
<1>2. CountsType'
  BY <1>1 DEF CountsType, MetricsType, AcceptedType
<1>3. InProgress'
  BY <1>1 DEF InProgress
<1>4. Counted'
  <2>1. metrics'.sent \in Nat /\ metrics'.emitted \in Nat
    BY DEF MetricsType
  <2> QED
    BY <1>1, <2>1 DEF Counted
<1> QED
  BY <1>2, <1>3, <1>4 DEF ExportInv

(* Every step keeps the invariant.                                         *)
LEMMA ExportInvStep ==
    ASSUME ExportInv, [ExportNext]_otlpvars
    PROVE  ExportInv'
<1>1. /\ metrics \in MetricsType /\ accepted \in AcceptedType
      /\ points \in Nat /\ failed \in BOOLEAN /\ reached \in BOOLEAN
  BY DEF ExportInv, CountsType, MetricsType, AcceptedType
<1>2. /\ metrics.sent \in Nat /\ metrics.emitted \in Nat /\ metrics.transient \in Nat
      /\ metrics.non_retryable \in Nat /\ metrics.dropped \in Nat
      /\ accepted.batches \in Nat /\ accepted.points \in Nat
  BY <1>1 DEF MetricsType, AcceptedType
<1>3. /\ metrics.sent + (IF reached THEN 1 ELSE 0) <= accepted.batches
      /\ metrics.emitted + points + (IF reached THEN export.batch_points[batch] ELSE 0)
           <= accepted.points
  BY DEF ExportInv, Counted
<1>4. thread = "export" => export.batch_points[batch] \in Nat
  BY Exported
<1>5. metrics.sent <= accepted.batches
  BY <1>1, <1>2, <1>3
<1>6. thread = "export" => metrics.emitted + points <= accepted.points
  BY <1>1, <1>2, <1>3, <1>4
<1>7. CASE Connect
  <2>1. thread = "export" /\ accepted' = accepted
    BY <1>7 DEF Connect
  <2>2. CASE UNCHANGED <<thread, exportvars, metrics, tried, reached>>
    BY <2>1, <2>2 DEF ExportInv, CountsType, InProgress, Counted, exportvars
  <2>3. CASE TryAgain(reached)
    BY <1>1, <1>3, <2>1, <2>3, TryAgainKeeps
  <2> QED
    BY <1>7, <2>2, <2>3 DEF Connect
<1>8. CASE Sent
  <2>1. thread = "export" /\ Reaches
    BY <1>8 DEF Sent
  <2>2. /\ accepted' \in AcceptedType /\ metrics.sent + 1 <= accepted'.batches
        /\ metrics.emitted + points + export.batch_points[batch] <= accepted'.points
    BY <2>1, ReachesFacts
  <2> DEFINE m == [metrics EXCEPT !.sent = @ + 1]
             sum == points + export.batch_points[batch]
  <2>3. m \in MetricsType /\ m.sent = metrics.sent + 1 /\ m.emitted = metrics.emitted
    BY <1>1, <1>2 DEF MetricsType
  <2>4. sum \in Nat /\ m.emitted + sum <= accepted'.points
    BY <1>1, <1>2, <1>4, <2>1, <2>2, <2>3
  <2>5. ~ failed => sum = PointsBefore(export.batch_points, batch + 1)
    <3>1. Fits(export) /\ batch \in 1..Len(export.batch_points)
      BY <2>1, Exported
    <3>2. PointsBefore(export.batch_points, batch + 1)
            = PointsBefore(export.batch_points, batch) + export.batch_points[batch]
      BY <3>1, BeforeFacts DEF Fits
    <3> QED
      BY <2>1, <3>2, Exported
  <2>6. NextBatch(failed, sum, m)
    BY <1>8 DEF Sent
  <2> HIDE DEF m, sum
  <2> QED
    BY <1>1, <2>1, <2>2, <2>3, <2>4, <2>5, <2>6, NextBatchKeeps
<1>9. CASE Retryable
  <2>1. thread = "export"
    BY <1>9 DEF Retryable
  <2>2. CASE Reaches /\ TryAgain(TRUE)
    <3>1. /\ accepted' \in AcceptedType /\ metrics.sent + 1 <= accepted'.batches
          /\ metrics.emitted + points + export.batch_points[batch] <= accepted'.points
      BY <2>1, <2>2, ReachesFacts
    <3> QED
      BY <2>1, <2>2, <3>1, TryAgainKeeps
  <2>3. CASE accepted' = accepted /\ TryAgain(reached)
    BY <1>1, <1>3, <2>1, <2>3, TryAgainKeeps
  <2> QED
    BY <1>9, <2>2, <2>3 DEF Retryable
<1>10. CASE Permanent
  <2>1. thread = "export" /\ Ends("exited") /\ accepted' = accepted
    BY <1>10 DEF Permanent
  <2>2. metrics' = [metrics EXCEPT !.emitted = @ + points, !.non_retryable = @ + 2]
    BY <1>10 DEF Permanent, CountPermanent
  <2>3. /\ metrics' \in MetricsType /\ metrics'.sent = metrics.sent
        /\ metrics'.emitted = metrics.emitted + points
    <3>1. metrics \in MetricsType /\ points \in Nat /\ 2 \in Nat
      BY <1>1
    <3> QED
      BY ONLY <2>2, <3>1, MoreMetrics
  <2> QED
    BY <1>1, <1>5, <1>6, <2>1, <2>3, EndsKeeps
<1>11. CASE Cancel
  <2>1. thread = "export" /\ Ends("recv") /\ metrics' = [metrics EXCEPT !.transient = @ + 1]
    BY <1>11 DEF Cancel
  <2>2. /\ metrics' \in MetricsType /\ metrics'.sent = metrics.sent
        /\ metrics'.emitted = metrics.emitted
    BY <1>1, <1>2, <2>1 DEF MetricsType
  <2>3. /\ accepted' \in AcceptedType
        /\ metrics.sent <= accepted'.batches /\ metrics.emitted <= accepted'.points
    <3>1. CASE accepted' = accepted
      BY <1>1, <1>2, <1>5, <1>6, <2>1, <3>1
    <3>2. CASE Reaches
      <4>1. /\ accepted' \in AcceptedType /\ metrics.sent + 1 <= accepted'.batches
            /\ metrics.emitted + points + export.batch_points[batch] <= accepted'.points
        BY <2>1, <3>2, ReachesFacts
      <4>2. accepted'.batches \in Nat /\ accepted'.points \in Nat
        BY <4>1 DEF AcceptedType
      <4> QED
        BY <1>1, <1>2, <1>4, <2>1, <4>1, <4>2
    <3> QED
      BY <1>11, <3>1, <3>2 DEF Cancel
  <2> QED
    BY <2>1, <2>2, <2>3, EndsKeeps
<1>12. CASE Shutdown
  <2>1. thread = "recv" /\ thread' = "exited" /\ UNCHANGED <<exportvars, metrics, tried, accepted, reached>>
    BY <1>12 DEF Shutdown
  <2> QED
    BY <2>1 DEF ExportInv, CountsType, InProgress, Counted, exportvars
<1>13. ASSUME NEW prepared \in Prepared, Receive(prepared) PROVE ExportInv'
  <2>1. /\ thread = "recv" /\ thread' = "export" /\ export' = prepared /\ batch' = 1
        /\ failed' = FALSE /\ points' = 0 /\ reached' = FALSE
        /\ metrics' = [metrics EXCEPT !.dropped = @ + prepared.dropped] /\ accepted' = accepted
    BY <1>13 DEF Receive
  <2>2. Fits(prepared)
    BY PreparedFacts
  <2>3. /\ metrics' \in MetricsType /\ metrics'.sent = metrics.sent
        /\ metrics'.emitted = metrics.emitted
    <3>1. PICK k \in Nat : k = prepared.dropped
      BY <2>2 DEF Fits
    <3>2. metrics \in MetricsType /\ metrics' = [metrics EXCEPT !.dropped = @ + k]
      BY <1>1, <2>1, <3>1
    <3> QED
      BY ONLY <3>1, <3>2, MoreMetrics
  <2>4. CountsType'
    BY <1>1, <2>1, <2>3 DEF CountsType, MetricsType, AcceptedType
  <2>5. InProgress'
    <3>1. 1 \in 1..Len(prepared.batch_points)
      BY <2>2 DEF Fits
    <3>2. PointsBefore(prepared.batch_points, 1) = 0
      BY <2>2, BeforeFacts DEF Fits
    <3>3. prepared \in Prepared'
      OBVIOUS
    <3> QED
      BY <2>1, <3>1, <3>2, <3>3 DEF InProgress
  <2>6. Counted'
    <3>1. points = 0 /\ ~ reached
      BY <2>1 DEF ExportInv, InProgress
    <3> QED
      BY <1>2, <1>3, <2>1, <2>3, <3>1 DEF Counted
  <2> QED
    BY <2>4, <2>5, <2>6 DEF ExportInv
<1>14. CASE UNCHANGED otlpvars
  BY <1>14 DEF otlpvars, exportvars, ExportInv, CountsType, InProgress, Counted
<1> QED
  BY <1>7, <1>8, <1>9, <1>10, <1>11, <1>12, <1>13, <1>14 DEF ExportNext, Exporting

(* It holds at any time.                                                   *)
LEMMA ExportInvariant == ExportSpec => []ExportInv
<1>1. ExportInit => ExportInv
  <2> SUFFICES ASSUME ExportInit PROVE ExportInv
    OBVIOUS
  <2>1. CountsType
    BY DEF ExportInit, CountsType, MetricsType, AcceptedType
  <2>2. InProgress
    BY DEF ExportInit, InProgress
  <2>3. metrics.sent = 0 /\ metrics.emitted = 0 /\ accepted.batches = 0 /\ accepted.points = 0
    BY DEF ExportInit
  <2>4. Counted
    <3>1. points = 0 /\ ~ reached
      BY DEF ExportInit
    <3> QED
      BY <2>3, <3>1 DEF Counted
  <2> QED
    BY <2>1, <2>2, <2>4 DEF ExportInv
<1>2. ExportInv /\ [ExportNext]_otlpvars => ExportInv'
  BY ExportInvStep
<1> QED
  BY <1>1, <1>2, PTL DEF ExportSpec

(* What the exporter reports as sent and emitted did reach the collector,  *)
(* whatever the order in which its batches failed, were retried or were    *)
(* cancelled.                                                              *)
THEOREM ReportsNoMoreThanAcceptedCorrect == ExportSpec => []ReportsNoMoreThanAccepted
<1>1. ExportInv => ReportsNoMoreThanAccepted
  <2> SUFFICES ASSUME ExportInv PROVE ReportsNoMoreThanAccepted
    OBVIOUS
  <2>1. /\ metrics.sent \in Nat /\ metrics.emitted \in Nat /\ points \in Nat
        /\ accepted.batches \in Nat /\ accepted.points \in Nat
    BY DEF ExportInv, CountsType, MetricsType, AcceptedType
  <2>2. reached => export.batch_points[batch] \in Nat
    <3> SUFFICES ASSUME reached PROVE export.batch_points[batch] \in Nat
      OBVIOUS
    <3>1. thread = "export"
      BY DEF ExportInv, InProgress
    <3> QED
      BY <3>1, Exported
  <2>3. /\ metrics.sent + (IF reached THEN 1 ELSE 0) <= accepted.batches
        /\ metrics.emitted + points + (IF reached THEN export.batch_points[batch] ELSE 0)
             <= accepted.points
    BY DEF ExportInv, Counted
  <2> QED
    BY <2>1, <2>2, <2>3 DEF ReportsNoMoreThanAccepted
<1> QED
  BY <1>1, ExportInvariant, PTL

(* A tick's points stay within max_export.points_per_tick, which only the  *)
(* rules' own points may exceed; a snapshot above it uses it up; and every *)
(* flow is emitted or counted as dropped.                                  *)
THEOREM CapRespectedCorrect == ExportSpec => []CapRespected
<1>1. ExportInv => CapRespected
  <2> SUFFICES ASSUME ExportInv, SettingOut PROVE CapRespected
    BY DEF CapRespected
  <2>1. Fits(export)
    BY Exported DEF SettingOut
  <2>2. PICK snap \in Seq(Nat) : snap = export.snap
    BY <2>1 DEF Fits
  <2> DEFINE e == Total(FlowsEmitted(snap))
             empty == Total(Empties(snap))
             cap == EffectiveCap(snap)
             n == Len(snap)
             total == Total(snap)
  <2>3. /\ export.built = 3 * e + 5 * n /\ export.dropped = 3 * (total - e)
    BY <2>1, <2>2 DEF Fits, PointsBuilt, PointsDropped, POINTS_PER_FLOW, POINTS_PER_FLOW_RULE
  <2>4. e \in Nat /\ total \in Nat /\ e <= cap /\ e <= total /\ e + empty >= Least(total, cap)
    BY Emitted DEF Emission
  <2>5. cap \in Nat /\ (cap = 0 \/ 3 * cap + 5 * n <= MAX_EXPORT_POINTS)
    BY CapFacts DEF POINTS_PER_FLOW, POINTS_PER_FLOW_RULE
  <2>6. n \in Nat /\ MAX_EXPORT_POINTS \in Nat
    BY OtlpAssumption
  <2>7. PointsOf(Request(snap)) = export.built + PointsOf(SelfMetrics)
    BY <2>1, <2>2, RequestFacts DEF Fits
  <2>8. Total([r \in DOMAIN snap |-> IF snap[r] = 0 THEN 1 ELSE 0]) = empty
    BY DEF Empties
  <2> HIDE DEF e, empty, cap, n, total
  <2>9. export.built <= MAX_EXPORT_POINTS \/ e = 0
    BY <2>3, <2>4, <2>5, <2>6
  <2>10. export.built + export.dropped = 3 * total + 5 * n
    BY <2>3, <2>4, <2>6
  <2> QED
    BY <2>2, <2>4, <2>7, <2>8, <2>9, <2>10
    DEF CapRespected, e, empty, cap, n, total, POINTS_PER_FLOW, POINTS_PER_FLOW_RULE
<1> QED
  BY <1>1, ExportInvariant, PTL

(* Slicing loses, repeats and reorders no point of any metric, makes no    *)
(* batch larger than max_export.batch_points and none that is empty.       *)
THEOREM BatchesCarryRequestCorrect == ExportSpec => []BatchesCarryRequest
<1>1. ExportInv => BatchesCarryRequest
  <2> SUFFICES ASSUME ExportInv, SettingOut PROVE BatchesCarryRequest
    BY DEF BatchesCarryRequest
  <2>1. Fits(export)
    BY Exported DEF SettingOut
  <2>2. PICK snap \in Seq(Nat) : snap = export.snap
    BY <2>1 DEF Fits
  <2> DEFINE request == Request(snap)
             batches == Batches(snap)
             sent == FlattenSeq(batches)
  <2>3. Distinct(request, MetricNames)
    BY RequestDistinct
  <2>4. /\ request \in Seq(MetricRecords) /\ PointsOf(request) \in Nat /\ PointsOf(request) >= 10
    BY RequestFacts, RequestDistinct
  <2>5. Sliced(request, batches) /\ batches = Slice(request)
    BY <2>4, SliceFacts DEF Batches
  <2> HIDE DEF request, batches
  <2>6. \A i \in DOMAIN request : PointsNamed(request[i].name, sent) = request[i].points
    <3>1. DOMAIN request = 1..Len(request)
      BY <2>4
    <3>2. \A i \in 1..Len(request) : PointsNamed(request[i].name, request) = request[i].points
      BY <2>3 DEF Distinct
    <3>3. \A name : PointsNamed(name, sent) = PointsNamed(name, request)
      BY <2>4, <2>5, NamedSliced
    <3> QED
      BY <3>1, <3>2, <3>3
  <2>7. PointsOf(sent) = PointsOf(request)
    BY <2>5 DEF Sliced
  <2>8. ASSUME NEW b \in DOMAIN batches
        PROVE  PointsOf(batches[b]) \in 1..(IF MAX_BATCH_POINTS = 0 THEN PointsOf(request)
                                            ELSE MAX_BATCH_POINTS)
    <3>1. CASE /\ MAX_BATCH_POINTS = 0 \/ PointsOf(request) <= MAX_BATCH_POINTS
               /\ batches = <<request>>
      <4>1. batches[b] = request
        BY <3>1
      <4>2. MAX_BATCH_POINTS \in Nat
        BY OtlpAssumption
      <4> QED
        BY <2>4, <3>1, <4>1, <4>2
    <3>2. CASE MAX_BATCH_POINTS # 0 /\ Filled(batches)
      <4>1. b \in 1..Len(batches)
        BY <3>2 DEF Filled
      <4> QED
        BY <3>2, <4>1 DEF Filled
    <3> QED
      BY <2>5, <3>1, <3>2 DEF Sliced
  <2> QED
    BY <2>2, <2>6, <2>7, <2>8 DEF BatchesCarryRequest, request, batches
<1> QED
  BY <1>1, ExportInvariant, PTL

-----------------------------------------------------------------------------
(* A list of results has no error, or one of its errors is returned.       *)
LEMMA FirstErrorFacts ==
    ASSUME NEW n \in Nat, NEW results, DOMAIN results = 1..n
    PROVE  FirstError(results) = "OK" <=> \A i \in 1..n : results[i] = "OK"
<1> SUFFICES ASSUME NEW k \in 1..n, results[k] # "OK" PROVE FirstError(results) # "OK"
  BY DEF FirstError
<1> DEFINE T == {i \in 1..n : results[i] # "OK"}
           First(i) == results[i] # "OK" /\ \A j \in 1..(i - 1) : results[j] = "OK"
<1>1. PICK i \in T : \A j \in T : i <= j
  <2>1. T \in SUBSET Nat /\ T # {}
    OBVIOUS
  <2> HIDE DEF T
  <2> QED
    BY <2>1, Minimum
<1>2. i \in DOMAIN results /\ First(i)
  <2>1. ASSUME NEW j \in 1..(i - 1) PROVE results[j] = "OK"
    <3>1. j \in 1..n /\ ~(i <= j)
      BY <1>1
    <3> QED
      BY <1>1, <3>1
  <2> QED
    BY <1>1, <2>1
<1>3. First(CHOOSE j \in DOMAIN results : First(j))
  <2> HIDE DEF First
  <2> QED
    BY <1>2
<1> QED
  BY <1>3 DEF FirstError

(* A product wraps around to zero when one of its factors does.            *)
LEMMA ProductWraps ==
    ASSUME NEW w \in Nat \ {0}, NEW a \in Nat, NEW k \in Nat, a % w = 0
    PROVE  (a * k) % w = 0
<1>1. PICK q \in Nat : a = w * q
  OBVIOUS
<1> DEFINE p == q * k
<1>2. p \in Nat /\ a * k = w * p
  BY <1>1
<1> HIDE DEF p
<1>3. (w * p) % w = 0
  BY <1>2
<1> QED
  BY <1>2, <1>3

(* What the validator counts as more than zero milliseconds is more than   *)
(* zero seconds for start(), although each wraps around on its own.        *)
LEMMA AcceptedIsPositive ==
    ASSUME NEW text \in Text, ParsedMs(text) # -1, ParsedMs(text) # 0
    PROVE  text.unit \in DOMAIN UnitMs /\ Positive(ParsedDuration(text))
<1> DEFINE n == text.number
           u == text.unit
<1>1. n \in Nat /\ u \in STRING
  BY DEF Text
<1>2. u \in {"ms", "none", "s", "m", "h"} /\ (n * UnitMs[u]) % WORD # 0
  BY DEF ParsedMs, UnitMs
<1>3. WORD \in Nat \ {0}
  BY WordAssumption
<1>4. DOMAIN UnitMs = {"ms", "none", "s", "m", "h"} /\ DOMAIN UnitSecs = {"s", "m", "h"}
  BY DEF UnitMs, UnitSecs
<1>5. CASE u \in {"ms", "none"}
  <2>1. UnitMs[u] = 1 /\ u \notin DOMAIN UnitSecs
    BY <1>4, <1>5 DEF UnitMs
  <2>2. n # 0
    BY <1>2, <1>3, <2>1
  <2> QED
    BY <1>1, <1>2, <1>4, <2>1, <2>2 DEF ParsedDuration, Positive
<1>6. CASE u \in {"s", "m", "h"}
  <2>1. UnitSecs[u] \in Nat /\ UnitMs[u] = UnitSecs[u] * 1000
    BY <1>6 DEF UnitMs, UnitSecs
  <2>0. PICK c \in Nat : c = 1000
    OBVIOUS
  <2> DEFINE k == UnitSecs[u]
             a == n * k
  <2>2. a \in Nat /\ n * UnitMs[u] = a * c
    <3> HIDE DEF n, u
    <3>1. k \in Nat /\ UnitMs[u] = k * c
      BY <2>0, <2>1
    <3> HIDE DEF k
    <3>2. n * (k * c) = (n * k) * c /\ n * k \in Nat
      BY <1>1, <3>1
    <3> QED
      BY <3>1, <3>2
  <2> HIDE DEF a
  <2>3. a % WORD # 0
    <3> SUFFICES ASSUME a % WORD = 0 PROVE FALSE
      OBVIOUS
    <3>1. WORD \in Nat \ {0} /\ a \in Nat /\ c \in Nat /\ a % WORD = 0
      BY <1>3, <2>2
    <3>2. (a * c) % WORD = 0
      BY ONLY <3>1, ProductWraps
    <3> HIDE DEF u, n
    <3> QED
      BY <1>2, <2>2, <3>2
  <2>4. a % WORD \in Nat
    BY <1>3, <2>2
  <2>5. ParsedDuration(text).secs = a % WORD
    BY <1>4, <1>6 DEF ParsedDuration, a
  <2> QED
    BY <1>2, <1>4, <2>3, <2>4, <2>5 DEF Positive
<1> QED
  BY <1>2, <1>5, <1>6

(* An exporter's entry that is accepted, alone.                            *)
LEMMA AcceptedEntry ==
    ASSUME NEW entry \in Exporter, ValidateExporter(entry) = "OK"
    PROVE  LET cfg == ExporterConfig(entry)
           IN BuildExporter(cfg) = "OK" /\ Positive(cfg.export_timeout) /\ cfg.queue_depth > 0
<1>1. /\ entry.kind = "otlp" /\ entry.queue_depth # 0 /\ entry.endpoint = "string"
      /\ ParsedMs(entry.export_timeout) # -1 /\ ParsedMs(entry.export_timeout) # 0
  BY DEF ValidateExporter
<1>2. entry.export_timeout \in Text /\ entry.queue_depth \in Nat
  BY DEF Exporter
<1>3. /\ entry.export_timeout.unit \in DOMAIN UnitMs
      /\ Positive(ParsedDuration(entry.export_timeout))
  BY <1>1, <1>2, AcceptedIsPositive
<1> DEFINE cfg == ExporterConfig(entry)
<1>4. /\ cfg.kind = "otlp" /\ cfg.queue_depth = entry.queue_depth /\ cfg.endpoint = "string"
      /\ cfg.export_timeout = ParsedDuration(entry.export_timeout)
  BY <1>1, <1>3 DEF ExporterConfig
<1> HIDE DEF cfg
<1>5. BuildExporter(cfg) = "OK"
  BY <1>4 DEF BuildExporter
<1>6. cfg.queue_depth > 0
  BY <1>1, <1>2, <1>4
<1> QED
  BY <1>3, <1>4, <1>5, <1>6 DEF cfg

(* The sections of a configuration are accepted one by one.                *)
LEMMA AcceptedSections ==
    ASSUME NEW c
    PROVE  ValidateConfig(c) = "OK" <=>
             /\ ValidateFrontend(c.frontend) = "OK" /\ ValidateLogging(c.logging) = "OK"
             /\ ValidateRules(c.flow_rules) = "OK" /\ ValidateExporters(c.exporters) = "OK"
<1> DEFINE results == << ValidateFrontend(c.frontend), ValidateLogging(c.logging),
                         ValidateRules(c.flow_rules), ValidateExporters(c.exporters) >>
<1>1. /\ DOMAIN results = 1..4
      /\ results[1] = ValidateFrontend(c.frontend) /\ results[2] = ValidateLogging(c.logging)
      /\ results[3] = ValidateRules(c.flow_rules) /\ results[4] = ValidateExporters(c.exporters)
  OBVIOUS
<1>2. ValidateConfig(c) = FirstError(results)
  BY DEF ValidateConfig
<1> HIDE DEF results
<1>3. FirstError(results) = "OK" <=> \A i \in 1..4 : results[i] = "OK"
  BY <1>1, FirstErrorFacts
<1>4. (\A i \in 1..4 : results[i] = "OK") <=>
        results[1] = "OK" /\ results[2] = "OK" /\ results[3] = "OK" /\ results[4] = "OK"
  <2>1. \A i \in 1..4 : i = 1 \/ i = 2 \/ i = 3 \/ i = 4
    OBVIOUS
  <2>2. 1 \in 1..4 /\ 2 \in 1..4 /\ 3 \in 1..4 /\ 4 \in 1..4
    OBVIOUS
  <2> QED
    BY <2>1, <2>2
<1> QED
  BY <1>1, <1>2, <1>3, <1>4

(* A list of exporters that is accepted: each is, and no two share a name. *)
LEMMA AcceptedExporters ==
    ASSUME NEW entries \in Seq(Exporter), ValidateExporters(entries) = "OK"
    PROVE  /\ \A i \in 1..Len(entries) : ValidateExporter(entries[i]) = "OK"
           /\ \A i, j \in 1..Len(entries) : entries[i].name = entries[j].name => i = j
<1> DEFINE n == Len(entries)
           results == [i \in DOMAIN entries |->
                         IF ValidateExporter(entries[i]) # "OK" THEN ValidateExporter(entries[i])
                         ELSE IF \E j \in 1..(i - 1) : entries[j].name = entries[i].name
                         THEN "DuplicateExporterName" ELSE "OK"]
<1>1. n \in Nat /\ DOMAIN entries = 1..n /\ DOMAIN results = 1..n
  OBVIOUS
<1>2. \A i \in 1..n : results[i] = "OK"
  <2>1. FirstError(results) = "OK"
    BY DEF ValidateExporters
  <2> HIDE DEF results
  <2> QED
    BY <1>1, <2>1, FirstErrorFacts
<1>3. ASSUME NEW i \in 1..n
      PROVE  /\ ValidateExporter(entries[i]) = "OK"
             /\ \A j \in 1..(i - 1) : entries[j].name # entries[i].name
  <2>1. results[i] = IF ValidateExporter(entries[i]) # "OK" THEN ValidateExporter(entries[i])
                     ELSE IF \E j \in 1..(i - 1) : entries[j].name = entries[i].name
                     THEN "DuplicateExporterName" ELSE "OK"
    BY <1>1
  <2> HIDE DEF results
  <2> QED
    BY <1>2, <2>1
<1> HIDE DEF results, n
<1>4. ASSUME NEW i \in 1..n, NEW j \in 1..n, entries[i].name = entries[j].name PROVE i = j
  <2>1. i < j \/ i = j \/ j < i
    BY <1>1
  <2>2. CASE i < j
    <3>1. i \in 1..(j - 1)
      BY <1>1, <2>2
    <3> QED
      BY <1>3, <1>4, <3>1
  <2>3. CASE j < i
    <3>1. j \in 1..(i - 1)
      BY <1>1, <2>3
    <3> QED
      BY <1>3, <1>4, <3>1
  <2> QED
    BY <2>1, <2>2, <2>3
<1> QED
  BY <1>3, <1>4 DEF n

(* A configuration that is accepted starts.                                *)
LEMMA AcceptedStarts ==
    ASSUME config \in Config
    PROVE  AcceptedConfigStarts
<1> SUFFICES ASSUME ValidateConfig(config) = "OK" PROVE AcceptedConfigStarts
  BY DEF AcceptedConfigStarts
<1>1. ValidateFrontend(config.frontend) = "OK" /\ ValidateExporters(config.exporters) = "OK"
  BY AcceptedSections
<1>2. config.exporters \in Seq(Exporter) /\ config.frontend.startup_timeout \in Text
  BY DEF Config
<1> DEFINE t == config.frontend.startup_timeout
           e == config.exporters
<1>3. ParsedMs(t) # -1 /\ ParsedMs(t) # 0
  BY <1>1 DEF ValidateFrontend
<1>4. Positive(ParsedDuration(t))
  BY <1>2, <1>3, AcceptedIsPositive
<1>5. /\ \A i \in 1..Len(e) : ValidateExporter(e[i]) = "OK"
      /\ \A i, j \in 1..Len(e) : e[i].name = e[j].name => i = j
  BY <1>1, <1>2, AcceptedExporters
<1>6. e \in Seq(Exporter) /\ DOMAIN e = 1..Len(e) /\ \A i \in 1..Len(e) : e[i] \in Exporter
  BY <1>2
<1> HIDE DEF e, t
<1>7. IsInjective([i \in DOMAIN e |-> e[i].name])
  BY <1>5, <1>6 DEF IsInjective
<1>8. ASSUME NEW i \in DOMAIN e
      PROVE  LET cfg == ExporterConfig(e[i])
             IN BuildExporter(cfg) = "OK" /\ Positive(cfg.export_timeout) /\ cfg.queue_depth > 0
  BY <1>5, <1>6, AcceptedEntry
<1> QED
  BY <1>4, <1>7, <1>8 DEF AcceptedConfigStarts, e, t

-----------------------------------------------------------------------------
(* There are seven fields, so a list without repetition has no more.       *)
LEMMA FieldsCounted == IsFiniteSet(Fields) /\ Cardinality(Fields) = 7
<1>1. IsFiniteSet({"src_ip"}) /\ Cardinality({"src_ip"}) = 1
  BY FS_Singleton
<1> DEFINE two == {"src_ip"} \cup {"dst_ip"}
           three == two \cup {"ip_proto"}
           four == three \cup {"dscp"}
           five == four \cup {"mirror_src_ip"}
           six == five \cup {"src_port"}
           seven == six \cup {"dst_port"}
<1>2. IsFiniteSet(two) /\ Cardinality(two) = 2
  <2>1. "dst_ip" \notin {"src_ip"}
    OBVIOUS
  <2> QED
    BY <1>1, <2>1, FS_AddElement
<1>3. IsFiniteSet(three) /\ Cardinality(three) = 3
  <2>1. "ip_proto" \notin two
    OBVIOUS
  <2> HIDE DEF two
  <2> QED
    BY <1>2, <2>1, FS_AddElement
<1>4. IsFiniteSet(four) /\ Cardinality(four) = 4
  <2>1. "dscp" \notin three
    OBVIOUS
  <2> HIDE DEF three
  <2> QED
    BY <1>3, <2>1, FS_AddElement
<1>5. IsFiniteSet(five) /\ Cardinality(five) = 5
  <2>1. "mirror_src_ip" \notin four
    OBVIOUS
  <2> HIDE DEF four
  <2> QED
    BY <1>4, <2>1, FS_AddElement
<1>6. IsFiniteSet(six) /\ Cardinality(six) = 6
  <2>1. "src_port" \notin five
    OBVIOUS
  <2> HIDE DEF five
  <2> QED
    BY <1>5, <2>1, FS_AddElement
<1>7. IsFiniteSet(seven) /\ Cardinality(seven) = 7
  <2>1. "dst_port" \notin six
    OBVIOUS
  <2> HIDE DEF six
  <2> QED
    BY <1>6, <2>1, FS_AddElement
<1>8. seven = Fields
  BY DEF Fields
<1> HIDE DEF seven
<1> QED
  BY <1>7, <1>8

LEMMA DistinctFieldsFit ==
    ASSUME NEW fields \in Seq(Fields), IsInjective(fields)
    PROVE  Len(fields) <= FIELDS_MAX
<1> DEFINE n == Len(fields)
<1>1. n \in Nat /\ DOMAIN fields = 1..n /\ fields \in [1..n -> Fields]
  OBVIOUS
<1>2. fields \in Injection(1..n, Fields)
  BY <1>1 DEF IsInjective, Injection
<1>3. Cardinality(1..n) = n
  BY <1>1, FS_Interval
<1> HIDE DEF n
<1>4. Cardinality(1..n) <= 7
  BY <1>2, FieldsCounted, FS_Injection
<1> QED
  BY <1>3, <1>4 DEF FIELDS_MAX, n

(* A list has no repetition when none of its elements stands earlier.      *)
LEMMA NoRepetition ==
    ASSUME NEW S, NEW s \in Seq(S)
    PROVE  IsInjective(s) <=> \A i \in 1..Len(s) : \A j \in 1..(i - 1) : s[i] # s[j]
<1> DEFINE n == Len(s)
<1>1. n \in Nat /\ DOMAIN s = 1..n
  OBVIOUS
<1> HIDE DEF n
<1>2. ASSUME IsInjective(s), NEW i \in 1..n, NEW j \in 1..(i - 1) PROVE s[i] # s[j]
  <2>1. j \in 1..n /\ i # j
    BY <1>1
  <2> QED
    BY <1>1, <1>2, <2>1 DEF IsInjective
<1>3. ASSUME \A i \in 1..n : \A j \in 1..(i - 1) : s[i] # s[j],
             NEW a \in 1..n, NEW b \in 1..n, s[a] = s[b]
      PROVE  a = b
  <2>1. a \in 1..(b - 1) \/ a = b \/ b \in 1..(a - 1)
    BY <1>1
  <2> QED
    BY <1>3, <2>1
<1> QED
  BY <1>1, <1>2, <1>3 DEF IsInjective, n

(* Both sides give a field the same width...                               *)
LEMMA SameWidth ==
    ASSUME NEW f \in Fields
    PROVE  FieldWidth(f) = Width(f) /\ FieldWidth(f) \in Nat /\ FieldWidth(f) > 0
<1>1. CASE f = "src_ip"
  BY <1>1 DEF FieldWidth, field_widths, Width
<1>2. CASE f = "dst_ip"
  BY <1>2 DEF FieldWidth, field_widths, Width
<1>3. CASE f = "ip_proto"
  BY <1>3 DEF FieldWidth, field_widths, Width
<1>4. CASE f = "dscp"
  BY <1>4 DEF FieldWidth, field_widths, Width
<1>5. CASE f = "mirror_src_ip"
  BY <1>5 DEF FieldWidth, field_widths, Width
<1>6. CASE f = "src_port"
  BY <1>6 DEF FieldWidth, field_widths, Width
<1>7. CASE f = "dst_port"
  BY <1>7 DEF FieldWidth, field_widths, Width
<1> QED
  BY <1>1, <1>2, <1>3, <1>4, <1>5, <1>6, <1>7 DEF Fields

(* ... and so a key, which has at least one byte for each of its fields.   *)
LEMMA SameKeyWidth ==
    ASSUME NEW fields \in Seq(Fields)
    PROVE  /\ KeyWidth(fields) = WidthOf(fields) /\ KeyWidth(fields) \in Nat
           /\ Len(fields) <= KeyWidth(fields)
<1> DEFINE w == [i \in DOMAIN fields |-> FieldWidth(fields[i])]
           v == [i \in DOMAIN fields |-> Width(fields[i])]
           one == [i \in 1..Len(fields) |-> 1]
<1>1. Len(fields) \in Nat /\ DOMAIN fields = 1..Len(fields) /\ \A i \in DOMAIN fields : fields[i] \in Fields
  OBVIOUS
<1>2. \A i \in DOMAIN fields : /\ FieldWidth(fields[i]) = Width(fields[i])
                              /\ FieldWidth(fields[i]) \in Nat /\ FieldWidth(fields[i]) > 0
  BY <1>1, SameWidth
<1>3. w = v
  BY <1>2
<1>4. w \in Seq(Nat) /\ Len(w) = Len(fields) /\ \A i \in 1..Len(w) : w[i] >= 1
  BY <1>1, <1>2
<1>5. KeyWidth(fields) = Total(w)
  BY <1>2 DEF KeyWidth
<1>6. WidthOf(fields) = Total(v)
  BY DEF WidthOf
<1>7. one \in Seq(Int) /\ Len(one) = Len(fields) /\ \A i \in 1..Len(one) : one[i] = 1
  BY <1>1
<1> HIDE DEF w, v, one
<1>8. Total(w) \in Nat
  BY <1>4, TotalNat
<1>9. Total(one) = Len(fields)
  <2>0. PICK c \in Int : c = 1
    OBVIOUS
  <2>1. Total(one) = Len(fields) * c
    BY <1>7, <2>0, TotalConst
  <2>2. PICK n \in Nat : n = Len(fields)
    BY <1>1
  <2>3. n * c = n
    BY <2>0, <2>2
  <2> QED
    BY <2>1, <2>2, <2>3
<1>10. Total(one) <= Total(w)
  <2>1. /\ one \in Seq(Int) /\ w \in Seq(Int) /\ Len(w) = Len(one)
        /\ \A i \in 1..Len(one) : one[i] <= w[i]
    BY <1>4, <1>7
  <2> QED
    BY ONLY <2>1, TotalMonotone
<1> QED
  BY <1>3, <1>5, <1>6, <1>8, <1>9, <1>10

(* The two validators.                                                     *)
LEMMA SameValidation ==
    ASSUME NEW rule, rule.fields \in Seq(Fields), rule.max_keys \in Nat
    PROVE  ValidateRule(rule) = "OK" <=> Valid(rule)
<1> DEFINE f == rule.fields
           k == rule.max_keys
           distinct == \A i \in 1..Len(f) : \A j \in 1..(i - 1) : f[i] # f[j]
<1>1. /\ Len(f) \in Nat /\ DOMAIN f = 1..Len(f) /\ (f = << >> <=> Len(f) = 0)
      /\ \A i \in DOMAIN f : f[i] \in Fields
  OBVIOUS
<1>2. IsInjective(f) <=> distinct
  BY NoRepetition
<1>3. IsInjective(f) => Len(f) <= FIELDS_MAX
  BY DistinctFieldsFit
<1>4. KeyWidth(f) = WidthOf(f) /\ KeyWidth(f) \in Nat /\ Len(f) <= KeyWidth(f)
  BY SameKeyWidth
<1>5. k \in Nat /\ KEYS_BUDGET \in Nat /\ KEY_MAX \in Nat /\ FIELDS_MAX \in Nat
  BY BudgetAssumption DEF KEY_MAX, FIELDS_MAX
<1>6. Valid(rule) <=> /\ rule.name \in ValidNames
                      /\ Len(f) \in 1..FIELDS_MAX /\ distinct
                      /\ k \in 1..KEYS_BUDGET /\ KeyWidth(f) \in 1..KEY_MAX
  BY <1>1 DEF Valid
<1>7. ValidateRule(rule) = "OK" <=>
        /\ rule.name \in ValidNames /\ f # << >> /\ IsInjective(f)
        /\ k # 0 /\ ~(k > KEYS_BUDGET) /\ ~(WidthOf(f) > KEY_MAX)
  BY DEF ValidateRule
<1> HIDE DEF f, k, distinct
<1> QED
  BY <1>1, <1>2, <1>3, <1>4, <1>5, <1>6, <1>7

-----------------------------------------------------------------------------
(* What the two sides hold: the same rules, each of which was accepted.    *)
Accepted(list) ==
    /\ Len(list) <= SET_MAX /\ UsedKeys(list) <= KEYS_BUDGET
    /\ \A i \in 1..Len(list) : ValidateRule(list[i]) = "OK"
    /\ \A i, j \in 1..Len(list) : list[i].name = list[j].name => i = j

ConfigInv ==
    /\ spec \in Composed /\ config \in Configs \cup {Default}
    /\ rules \in Seq(Rule) /\ Accepted(rules)
    /\ set = [rules |-> rules, used_keys |-> UsedKeys(rules)]

(* The keys of a list of rules, one more and one less.                     *)
LEMMA KeysFacts ==
    ASSUME NEW list \in Seq(Rule)
    PROVE  /\ UsedKeys(list) \in Nat
           /\ \A rule \in Rule : UsedKeys(Append(list, rule)) = UsedKeys(list) + rule.max_keys
           /\ \A i \in 1..Len(list) : UsedKeys(RemoveAt(list, i)) = UsedKeys(list) - list[i].max_keys
<1> DEFINE m == [r \in Rule |-> r.max_keys]
           n == Len(list)
           k == Measured(m, list)
<1>1. n \in Nat /\ \A i \in 1..n : list[i] \in Rule
  OBVIOUS
<1>2. m \in [Rule -> Int] /\ \A r \in Rule : m[r] = r.max_keys /\ m[r] \in Nat
  BY DEF Rule
<1>3. ASSUME NEW s \in Seq(Rule) PROVE UsedKeys(s) = Total(Measured(m, s))
  <2>1. \A i \in DOMAIN s : s[i] \in Rule
    OBVIOUS
  <2> HIDE DEF m
  <2>2. [i \in DOMAIN s |-> s[i].max_keys] = [i \in DOMAIN s |-> m[s[i]]]
    BY <1>2, <2>1
  <2> QED
    BY <2>2 DEF UsedKeys, Measured
<1> HIDE DEF m
<1>4. k \in Seq(Int) /\ Len(k) = n /\ \A i \in 1..n : k[i] = m[list[i]]
  BY <1>2, MeasuredFacts DEF Measures
<1>5. k \in Seq(Nat)
  <2> HIDE DEF k
  <2>1. \A i \in 1..n : k[i] \in Nat
    BY <1>1, <1>2, <1>4
  <2> HIDE DEF n
  <2> QED
    BY <1>1, <1>4, <2>1
<1> HIDE DEF k
<1>6. UsedKeys(list) = Total(k) /\ UsedKeys(list) \in Nat
  BY <1>3, <1>5, TotalNat DEF k
<1>7. ASSUME NEW rule \in Rule PROVE UsedKeys(Append(list, rule)) = UsedKeys(list) + rule.max_keys
  <2>1. Append(list, rule) \in Seq(Rule) /\ m[rule] \in Int
    BY <1>2
  <2>2. Measured(m, Append(list, rule)) = Append(k, m[rule])
    BY <1>2, MeasuredAppend DEF k
  <2>3. Total(Append(k, m[rule])) = Total(k) + m[rule]
    BY <1>4, <2>1, TotalAppend
  <2> QED
    BY <1>2, <1>3, <1>6, <2>1, <2>2, <2>3
<1>8. ASSUME NEW i \in 1..n PROVE UsedKeys(RemoveAt(list, i)) = UsedKeys(list) - list[i].max_keys
  <2> DEFINE less == RemoveAt(list, i)
             l == Measured(m, less)
             r == RemoveAt(k, i)
  <2>1. /\ less \in Seq(Rule) /\ Len(less) = n - 1
        /\ \A j \in 1..(n - 1) : less[j] = IF j < i THEN list[j] ELSE list[j + 1]
    BY RemoveAtFacts
  <2> HIDE DEF less
  <2>2. l \in Seq(Int) /\ Len(l) = n - 1 /\ \A j \in 1..(n - 1) : l[j] = m[less[j]]
    <3>1. Measures(l, m, less)
      BY <1>2, <2>1, MeasuredFacts
    <3> QED
      BY <2>1, <3>1 DEF Measures
  <2>3. i \in 1..Len(k)
    BY <1>4
  <2>4. /\ r \in Seq(Int) /\ Len(r) = n - 1
        /\ \A j \in 1..(n - 1) : r[j] = IF j < i THEN k[j] ELSE k[j + 1]
    BY <1>4, <2>3, RemoveAtFacts
  <2>5. Total(r) = Total(k) - k[i]
    BY <1>4, <2>3, TotalRemoveAt
  <2> HIDE DEF l, r, n
  <2>6. ASSUME NEW j \in 1..(n - 1) PROVE l[j] = r[j]
    <3>1. j \in 1..n /\ j + 1 \in 1..n
      BY <1>1
    <3>2. /\ l[j] = m[less[j]] /\ less[j] = IF j < i THEN list[j] ELSE list[j + 1]
          /\ r[j] = IF j < i THEN k[j] ELSE k[j + 1]
      BY <2>1, <2>2, <2>4
    <3>3. k[j] = m[list[j]] /\ k[j + 1] = m[list[j + 1]]
      BY <1>4, <3>1
    <3> QED
      BY <3>2, <3>3
  <2>7. l = r
    BY <2>2, <2>4, <2>6, SeqEqual
  <2>8. UsedKeys(less) = Total(l)
    BY <1>3, <2>1 DEF l
  <2> QED
    BY <1>1, <1>2, <1>4, <1>6, <2>5, <2>7, <2>8 DEF less
<1> QED
  BY <1>6, <1>7, <1>8 DEF n

(* Asked for a further rule, both sides give the same answer.              *)
LEMMA SameAnswer ==
    ASSUME NEW list \in Seq(Rule), NEW rule \in Rule
    PROVE  CrudAdd(list, rule) = AddResult([rules |-> list, used_keys |-> UsedKeys(list)], rule)
<1> DEFINE s == [rules |-> list, used_keys |-> UsedKeys(list)]
<1>1. ValidateRule(rule) = "OK" <=> Valid(rule)
  <2>1. rule.fields \in Seq(Fields) /\ rule.max_keys \in Nat
    BY DEF Rule
  <2> QED
    BY <2>1, SameValidation
<1>2. s.rules = list /\ s.used_keys = UsedKeys(list)
  OBVIOUS
<1> HIDE DEF s
<1>3. (\E i \in DOMAIN list : list[i].name = rule.name) <=> Positions(s, rule.name) # {}
  BY <1>2 DEF Positions
<1>4. CrudAdd(list, rule) = AddResult(s, rule)
  BY <1>1, <1>2, <1>3 DEF CrudAdd, AddResult
<1> QED
  BY <1>4 DEF s

(* A rule that is added leaves a list of accepted rules...                 *)
LEMMA AcceptedMore ==
    ASSUME NEW list \in Seq(Rule), NEW rule \in Rule, Accepted(list), CrudAdd(list, rule) = "OK"
    PROVE  Accepted(Append(list, rule))
<1> DEFINE more == Append(list, rule)
           n == Len(list)
<1>1. /\ n \in Nat /\ DOMAIN list = 1..n /\ SET_MAX \in Nat /\ rule.max_keys \in Nat
      /\ UsedKeys(list) \in Nat /\ KEYS_BUDGET \in Nat
  <2>1. UsedKeys(list) \in Nat
    BY KeysFacts
  <2>2. rule.max_keys \in Nat
    BY DEF Rule
  <2> QED
    BY <2>1, <2>2, SetMaxAssumption, BudgetAssumption
<1>2. /\ more \in Seq(Rule) /\ Len(more) = n + 1 /\ more[n + 1] = rule
      /\ \A i \in 1..n : more[i] = list[i]
  BY AppendElements
<1>3. /\ ValidateRule(rule) = "OK" /\ ~(n >= SET_MAX)
      /\ \A i \in 1..n : list[i].name # rule.name
      /\ ~(UsedKeys(list) + rule.max_keys > KEYS_BUDGET)
  BY <1>1 DEF CrudAdd
<1>4. UsedKeys(more) = UsedKeys(list) + rule.max_keys
  BY KeysFacts
<1>5. /\ \A i \in 1..n : ValidateRule(list[i]) = "OK"
      /\ \A i, j \in 1..n : list[i].name = list[j].name => i = j
  BY DEF Accepted
<1> HIDE DEF more, n
<1>6. \A i \in 1..(n + 1) : i \in 1..n \/ i = n + 1
  BY <1>1
<1>7. Len(more) <= SET_MAX /\ UsedKeys(more) <= KEYS_BUDGET
  BY <1>1, <1>2, <1>3, <1>4
<1>8. \A i \in 1..(n + 1) : ValidateRule(more[i]) = "OK"
  BY <1>2, <1>3, <1>5, <1>6
<1>9. ASSUME NEW i \in 1..(n + 1), NEW j \in 1..(n + 1), more[i].name = more[j].name PROVE i = j
  BY <1>2, <1>3, <1>5, <1>6, <1>9
<1> QED
  BY <1>2, <1>7, <1>8, <1>9 DEF Accepted, more

(* ... and so does one that is removed...                                  *)
LEMMA AcceptedLess ==
    ASSUME NEW list \in Seq(Rule), NEW i \in 1..Len(list), Accepted(list)
    PROVE  Accepted(RemoveAt(list, i))
<1> DEFINE less == RemoveAt(list, i)
           n == Len(list)
<1>1. /\ n \in Nat /\ SET_MAX \in Nat /\ list[i].max_keys \in Nat
      /\ UsedKeys(list) \in Nat /\ KEYS_BUDGET \in Nat
  <2>1. UsedKeys(list) \in Nat
    BY KeysFacts
  <2>2. list[i].max_keys \in Nat
    <3>1. list[i] \in Rule
      OBVIOUS
    <3> HIDE DEF n, less
    <3> QED
      BY <3>1 DEF Rule
  <2> QED
    BY <2>1, <2>2, SetMaxAssumption, BudgetAssumption
<1>2. /\ less \in Seq(Rule) /\ Len(less) = n - 1
      /\ \A j \in 1..(n - 1) : less[j] = IF j < i THEN list[j] ELSE list[j + 1]
  BY RemoveAtFacts
<1>3. UsedKeys(less) = UsedKeys(list) - list[i].max_keys
  BY KeysFacts
<1>4. /\ n <= SET_MAX /\ UsedKeys(list) <= KEYS_BUDGET
      /\ \A j \in 1..n : ValidateRule(list[j]) = "OK"
      /\ \A j, k \in 1..n : list[j].name = list[k].name => j = k
  BY DEF Accepted
<1> HIDE DEF less, n
<1> DEFINE From(j) == IF j < i THEN j ELSE j + 1
<1>5. ASSUME NEW j \in 1..(n - 1) PROVE From(j) \in 1..n /\ less[j] = list[From(j)]
  BY <1>1, <1>2
<1>6. ASSUME NEW j \in 1..(n - 1), NEW k \in 1..(n - 1), From(j) = From(k) PROVE j = k
  BY <1>6
<1> HIDE DEF From
<1>7. Len(less) <= SET_MAX /\ UsedKeys(less) <= KEYS_BUDGET
  BY <1>1, <1>2, <1>3, <1>4
<1>8. \A j \in 1..(n - 1) : ValidateRule(less[j]) = "OK"
  BY <1>4, <1>5
<1>9. ASSUME NEW j \in 1..(n - 1), NEW k \in 1..(n - 1), less[j].name = less[k].name PROVE j = k
  <2>1. From(j) = From(k)
    BY <1>4, <1>5, <1>9
  <2> QED
    BY <1>6, <2>1
<1> QED
  BY <1>2, <1>7, <1>8, <1>9 DEF Accepted, less

(* ... and such a list loads as a configuration.                           *)
LEMMA AcceptedLoads ==
    ASSUME NEW list \in Seq(Rule), Accepted(list)
    PROVE  ValidateConfig([Default EXCEPT !.flow_rules = list]) = "OK"
<1> DEFINE n == Len(list)
           each == [i \in DOMAIN list |->
                      IF \E j \in 1..(i - 1) : list[j].name = list[i].name THEN "DuplicateName"
                      ELSE ValidateRule(list[i])]
           all == << IF n > SET_MAX THEN "TooManyRules" ELSE "OK",
                     IF UsedKeys(list) > KEYS_BUDGET THEN "BudgetExceeded" ELSE "OK" >>
           c == [Default EXCEPT !.flow_rules = list]
<1>1. /\ n \in Nat /\ DOMAIN list = 1..n /\ SET_MAX \in Nat
      /\ UsedKeys(list) \in Nat /\ KEYS_BUDGET \in Nat
  BY KeysFacts, SetMaxAssumption, BudgetAssumption
<1>2. /\ n <= SET_MAX /\ UsedKeys(list) <= KEYS_BUDGET
      /\ \A i \in 1..n : ValidateRule(list[i]) = "OK"
      /\ \A i, j \in 1..n : list[i].name = list[j].name => i = j
  BY DEF Accepted
<1>3. each \in Seq({"OK"})
  <2>1. ASSUME NEW i \in 1..n PROVE ~ \E j \in 1..(i - 1) : list[j].name = list[i].name
    <3>1. \A j \in 1..(i - 1) : j \in 1..n /\ j # i
      BY <1>1
    <3> QED
      BY <1>2, <3>1
  <2>2. each = [i \in 1..n |-> "OK"]
    <3> HIDE DEF n
    <3> QED
      BY <1>1, <1>2, <2>1
  <2> HIDE DEF each, n
  <2> QED
    BY <1>1, <2>2
<1>4. all \in Seq({"OK"})
  <2>1. ~(n > SET_MAX) /\ ~(UsedKeys(list) > KEYS_BUDGET)
    BY <1>1, <1>2
  <2>2. all = <<"OK", "OK">>
    BY <2>1
  <2> HIDE DEF all
  <2> QED
    BY <2>2
<1>5. ValidateRules(list) = FirstError(each \o all)
  BY DEF ValidateRules
<1> HIDE DEF each, all, n
<1>6. PICK results \in Seq({"OK"}) : results = each \o all
  <2>1. each \o all \in Seq({"OK"})
    BY ONLY <1>3, <1>4, ConcatFacts
  <2> QED
    BY <2>1
<1>7. ValidateRules(list) = "OK"
  <2>1. Len(results) \in Nat /\ DOMAIN results = 1..Len(results) /\ \A i \in 1..Len(results) : results[i] = "OK"
    OBVIOUS
  <2>2. FirstError(results) = "OK"
    BY <2>1, FirstErrorFacts
  <2> QED
    BY <1>5, <1>6, <2>2
<1>8. Default \in Config /\ ValidateConfig(Default) = "OK"
  BY ConfigsAssumption
<1>9. /\ ValidateFrontend(Default.frontend) = "OK" /\ ValidateLogging(Default.logging) = "OK"
      /\ ValidateExporters(Default.exporters) = "OK"
  BY <1>8, AcceptedSections
<1>10. /\ c.frontend = Default.frontend /\ c.logging = Default.logging
       /\ c.flow_rules = list /\ c.exporters = Default.exporters
  BY <1>8 DEF Config
<1> HIDE DEF c
<1>11. ValidateConfig(c) = "OK"
  BY <1>7, <1>9, <1>10, AcceptedSections
<1> QED
  BY <1>11 DEF c

-----------------------------------------------------------------------------
(* A rule is composed out of fields, whatever is appended to it.           *)
LEMMA ComposedMore ==
    ASSUME NEW s \in Composed, NEW f \in Fields \cup {"ttl"}
    PROVE  [s EXCEPT !.fields = Append(@, f)] \in Composed
<1>1. Append(s.fields, f) \in Seq(Fields \cup {"ttl"})
  BY DEF Composed
<1> QED
  BY <1>1 DEF Composed

(* The backend's rule set stays what the frontend's list of rules says.    *)
LEMMA ConfigInvInductive == ConfigSpec => []ConfigInv
<1>1. ASSUME ConfigInit PROVE ConfigInv
  <2>1. UsedKeys(<< >>) = 0
    <3>1. [i \in DOMAIN << >> |-> << >>[i].max_keys] = << >>
      OBVIOUS
    <3> QED
      BY <3>1, TotalEmpty DEF UsedKeys
  <2>2. << >> \in Seq(Rule) /\ Len(<< >>) = 0
    OBVIOUS
  <2>3. Accepted(<< >>)
    BY <2>1, <2>2, SetMaxAssumption, BudgetAssumption DEF Accepted
  <2>4. spec \in Composed /\ config \in Configs \cup {Default}
    BY <1>1, RulesAssumption DEF ConfigInit
  <2> QED
    BY <1>1, <2>1, <2>2, <2>3, <2>4 DEF ConfigInit, ConfigInv, EmptyRuleSet
<1>2. ASSUME ConfigInv, [ConfigNext]_configvars PROVE ConfigInv'
  <2> USE <1>2 DEF ConfigInv
  <2>1. ASSUME NEW f \in Fields \cup {"ttl"}, AppendField(f) PROVE ConfigInv'
    <3>1. spec' \in Composed
      BY <2>1, ComposedMore DEF AppendField
    <3> QED
      BY <2>1, <3>1 DEF AppendField, Accepted
  <2>2. ASSUME NEW rule \in Candidates, EnterRule(rule) PROVE ConfigInv'
    <3>1. rule \in Rule
      BY RulesAssumption
    <3>2. CrudAdd(rules, rule) = AddResult(set, rule)
      BY <3>1, SameAnswer
    <3>3. CASE CrudAdd(rules, rule) = "OK"
      <4>1. rules' = Append(rules, rule) /\ set' = WithRule(set, rule)
        BY <2>2, <3>2, <3>3 DEF EnterRule
      <4>2. rules' \in Seq(Rule) /\ Accepted(rules')
        BY <3>1, <3>3, <4>1, AcceptedMore
      <4>3. UsedKeys(rules') = UsedKeys(rules) + rule.max_keys
        BY <3>1, <4>1, KeysFacts
      <4>4. set' = [rules |-> rules', used_keys |-> UsedKeys(rules')]
        BY <4>1, <4>3 DEF WithRule
      <4> QED
        BY <2>2, <4>2, <4>4 DEF EnterRule
    <3>4. CASE CrudAdd(rules, rule) # "OK"
      <4>1. UNCHANGED configvars
        BY <2>2, <3>2, <3>4 DEF EnterRule, configvars
      <4> QED
        BY <4>1 DEF configvars, Accepted
    <3> QED
      BY <3>3, <3>4
  <2>3. ASSUME NEW i \in DOMAIN rules, RmRule(i) PROVE ConfigInv'
    <3>1. i \in 1..Len(rules) /\ DOMAIN rules = 1..Len(rules)
      OBVIOUS
    <3>2. \A j \in DOMAIN rules : rules[j].name = rules[i].name => j = i
      BY <3>1 DEF Accepted
    <3>3. (CHOOSE j \in DOMAIN rules : rules[j].name = rules[i].name) = i
      BY <3>2
    <3>4. rules' = RemoveAt(rules, i)
      BY <2>3, <3>3 DEF RmRule, CrudRm
    <3>5. Positions(set, rules[i].name) = {i}
      BY <3>2 DEF Positions
    <3>6. set' = WithoutRule(set, i)
      BY <2>3, <3>5 DEF RmRule
    <3>7. rules' \in Seq(Rule) /\ Accepted(rules')
      BY <3>1, <3>4, RemoveAtFacts, AcceptedLess
    <3>8. UsedKeys(rules') = UsedKeys(rules) - rules[i].max_keys
      BY <3>1, <3>4, KeysFacts
    <3>9. set' = [rules |-> rules', used_keys |-> UsedKeys(rules')]
      BY <3>4, <3>6, <3>8 DEF WithoutRule
    <3> QED
      BY <2>3, <3>7, <3>9 DEF RmRule
  <2>4. CASE UNCHANGED configvars
    BY <2>4 DEF configvars, Accepted
  <2> QED
    BY <2>1, <2>2, <2>3, <2>4 DEF ConfigNext
<1> QED
  BY <1>1, <1>2, PTL DEF ConfigSpec

-----------------------------------------------------------------------------
(* What decode_key makes of any bytes: it cuts them where the widths of    *)
(* the fields add up to, if they add up to all of them.                    *)
LEMMA DecodeFacts ==
    ASSUME NEW fields \in Seq(Fields), NEW w \in Seq(Int), Len(w) = Len(fields),
           \A i \in 1..Len(fields) : w[i] = DecodedWidth(fields[i])
    PROVE  \E end : /\ PrefixSums(end, w)
                    /\ \A key :
                         LET decoded == DecodeKey(fields, key)
                         IN /\ decoded.ok <=> end[Len(fields)] = Len(key)
                            /\ decoded.ok =>
                                 decoded.values =
                                   [i \in DOMAIN fields |->
                                      [kind  |-> ValueKind(fields[i]),
                                       bytes |-> SubSeq(key, end[i - 1] + 1, end[i])]]
<1> DEFINE n == Len(fields)
           P(g) == g = [i \in 0..n |-> IF i = 0 THEN 0 ELSE g[i - 1] + DecodedWidth(fields[i])]
           end == CHOOSE g : P(g)
<1>1. n \in Nat
  OBVIOUS
<1>2. \E g : P(g)
  <2>1. PICK g : g = [i \in 0..Len(w) |-> IF i = 0 THEN 0 ELSE g[i - 1] + w[i]]
    BY PrefixExists
  <2> HIDE DEF n
  <2>2. \A i \in 0..n : i # 0 => w[i] = DecodedWidth(fields[i])
    BY <1>1 DEF n
  <2>3. g = [i \in 0..n |-> IF i = 0 THEN 0 ELSE g[i - 1] + w[i]]
    BY <2>1 DEF n
  <2>4. P(g)
    BY <2>2, <2>3
  <2> HIDE DEF P
  <2> QED
    BY <2>4
<1>3. P(end)
  <2> HIDE DEF P
  <2> QED
    BY <1>2
<1>4. \A key : DecodeKey(fields, key) =
        [ok     |-> end[n] = Len(key),
         values |-> IF end[n] = Len(key)
                    THEN [i \in DOMAIN fields |->
                            [kind  |-> ValueKind(fields[i]),
                             bytes |-> SubSeq(key, end[i - 1] + 1, end[i])]]
                    ELSE << >>]
  BY DEF DecodeKey
<1> HIDE DEF end
<1>5. PrefixSums(end, w)
  <2> HIDE DEF n
  <2>1. end[0] = 0
    BY <1>1, <1>3
  <2>2. ASSUME NEW i \in 1..n PROVE end[i] = end[i - 1] + w[i]
    <3>1. i \in 0..n /\ i # 0 /\ w[i] = DecodedWidth(fields[i])
      BY <1>1 DEF n
    <3> QED
      BY <1>3, <3>1
  <2> QED
    BY <2>1, <2>2 DEF PrefixSums, n
<1> HIDE DEF P
<1> DEFINE Cuts(g) ==
             \A key : LET decoded == DecodeKey(fields, key)
                      IN /\ decoded.ok <=> g[n] = Len(key)
                         /\ decoded.ok =>
                              decoded.values =
                                [i \in DOMAIN fields |->
                                   [kind  |-> ValueKind(fields[i]),
                                    bytes |-> SubSeq(key, g[i - 1] + 1, g[i])]]
<1>6. Cuts(end)
  <2> SUFFICES ASSUME NEW key
               PROVE  LET decoded == DecodeKey(fields, key)
                      IN /\ decoded.ok <=> end[n] = Len(key)
                         /\ decoded.ok =>
                              decoded.values =
                                [i \in DOMAIN fields |->
                                   [kind  |-> ValueKind(fields[i]),
                                    bytes |-> SubSeq(key, end[i - 1] + 1, end[i])]]
    OBVIOUS
  <2> DEFINE parts == [i \in DOMAIN fields |->
                         [kind  |-> ValueKind(fields[i]),
                          bytes |-> SubSeq(key, end[i - 1] + 1, end[i])]]
  <2>1. DecodeKey(fields, key) = [ok     |-> end[n] = Len(key),
                                  values |-> IF end[n] = Len(key) THEN parts ELSE << >>]
    BY <1>4
  <2> HIDE DEF parts, n
  <2> DEFINE fits == end[n] = Len(key)
             values == IF fits THEN parts ELSE << >>
             d == DecodeKey(fields, key)
  <2>2. d = [ok |-> fits, values |-> values]
    BY <2>1
  <2> HIDE DEF fits, values, d
  <2>3. d.ok = fits /\ d.values = values
    BY <2>2
  <2> USE DEF fits, values
  <2>4. (d.ok <=> end[n] = Len(key)) /\ (d.ok => d.values = parts)
    BY <2>3, Zenon
  <2> QED
    BY <2>4 DEF parts, d, n
<1>7. \E g : PrefixSums(g, w) /\ Cuts(g)
  <2> HIDE DEF Cuts
  <2> QED
    BY <1>5, <1>6
<1> QED
  BY <1>7

(* A field's bytes, as many as it is decoded from.                         *)
Bytes == Fields \X Nat

LEMMA EncodedField ==
    ASSUME NEW f \in Fields
    PROVE  /\ EncodeField(f) \in Seq(Bytes) /\ Len(EncodeField(f)) = DecodedWidth(f)
           /\ DecodedWidth(f) = Width(f) /\ DecodedWidth(f) \in Nat
<1>1. CASE f \in {"src_ip", "dst_ip", "mirror_src_ip"}
  <2>1. EncodeField(f) = [n \in 1..16 |-> <<f, n>>]
    BY <1>1 DEF EncodeField
  <2>2. DecodedWidth(f) = 16 /\ Width(f) = 16
    BY <1>1 DEF DecodedWidth, Addresses, Width
  <2>3. \A n \in 1..16 : <<f, n>> \in Bytes
    BY DEF Bytes
  <2> DEFINE s == [n \in 1..16 |-> <<f, n>>]
  <2>4. s \in Seq(Bytes) /\ Len(s) = 16
    BY <2>3
  <2> HIDE DEF s
  <2> QED
    BY <2>1, <2>2, <2>4 DEF s
<1>2. CASE f \in {"ip_proto", "dscp"}
  <2>1. EncodeField(f) = << <<f, 1>> >>
    BY <1>2 DEF EncodeField
  <2>2. DecodedWidth(f) = 1 /\ Width(f) = 1
    BY <1>2 DEF DecodedWidth, Addresses, Ports, Width
  <2>3. <<f, 1>> \in Bytes
    BY DEF Bytes
  <2> DEFINE b == <<f, 1>>
  <2> HIDE DEF b
  <2>4. <<b>> \in Seq(Bytes) /\ Len(<<b>>) = 1
    BY <2>3 DEF b
  <2> QED
    BY <2>1, <2>2, <2>4 DEF b
<1>3. CASE f \in {"src_port", "dst_port"}
  <2>1. EncodeField(f) = << <<f, 1>>, <<f, 2>> >>
    BY <1>3 DEF EncodeField
  <2>2. DecodedWidth(f) = 2 /\ Width(f) = 2
    BY <1>3 DEF DecodedWidth, Addresses, Ports, Width
  <2>3. <<f, 1>> \in Bytes /\ <<f, 2>> \in Bytes
    BY DEF Bytes
  <2> DEFINE b == <<f, 1>>
             c == <<f, 2>>
  <2>5. b \in Bytes /\ c \in Bytes
    BY <2>3
  <2>6. EncodeField(f) = <<b, c>>
    BY <2>1
  <2> HIDE DEF b, c
  <2>4. <<b, c>> \in Seq(Bytes) /\ Len(<<b, c>>) = 2
    BY <2>5
  <2> QED
    BY <2>2, <2>4, <2>6
<1> QED
  BY <1>1, <1>2, <1>3 DEF Fields

(* A key, and what it is decoded to.                                       *)
LEMMA DecodedKey ==
    ASSUME NEW fields \in Seq(Fields), fields # << >>
    PROVE  LET key == EncodeKey(fields)
               decoded == DecodeKey(fields, key)
           IN /\ decoded.ok /\ DOMAIN decoded.values = DOMAIN fields
              /\ \A i \in DOMAIN fields : /\ decoded.values[i].kind = ValueKind(fields[i])
                                          /\ decoded.values[i].bytes = EncodeField(fields[i])
              /\ ~DecodeKey(fields, Append(key, <<"ttl", 1>>)).ok
              /\ ~DecodeKey(fields, Front(key)).ok
<1> DEFINE n == Len(fields)
           seqs == [i \in DOMAIN fields |-> EncodeField(fields[i])]
           w == [i \in DOMAIN fields |-> DecodedWidth(fields[i])]
           key == FlattenSeq(seqs)
<1>1. n \in Nat /\ n > 0 /\ DOMAIN fields = 1..n /\ \A i \in 1..n : fields[i] \in Fields
  OBVIOUS
<1>2. \A i \in 1..n : /\ EncodeField(fields[i]) \in Seq(Bytes)
                      /\ Len(EncodeField(fields[i])) = DecodedWidth(fields[i])
                      /\ DecodedWidth(fields[i]) = Width(fields[i]) /\ DecodedWidth(fields[i]) \in Nat
  BY <1>1, EncodedField
<1>3. /\ seqs \in Seq(Seq(Bytes)) /\ Len(seqs) = n
      /\ \A i \in 1..n : seqs[i] = EncodeField(fields[i])
  <2> HIDE DEF n
  <2> QED
    BY <1>1, <1>2
<1>4. w \in Seq(Int) /\ Len(w) = n /\ \A i \in 1..n : w[i] = DecodedWidth(fields[i])
  <2> HIDE DEF n
  <2> QED
    BY <1>1, <1>2
<1>5. w = [i \in DOMAIN fields |-> Width(fields[i])]
  BY <1>1, <1>2
<1>6. EncodeKey(fields) = key
  BY DEF EncodeKey
<1> HIDE DEF seqs
<1>7. Total(w) \in Nat /\ Total(w) > 0
  <2>1. Total(w) = WidthOf(fields)
    BY <1>5 DEF WidthOf
  <2>2. WidthOf(fields) \in Nat /\ n <= WidthOf(fields)
    BY SameKeyWidth
  <2> HIDE DEF w, n
  <2> QED
    BY <1>1, <2>1, <2>2
<1> HIDE DEF w
<1>8. PICK end : /\ PrefixSums(end, w)
                 /\ \A k : LET decoded == DecodeKey(fields, k)
                           IN /\ decoded.ok <=> end[n] = Len(k)
                              /\ decoded.ok =>
                                   decoded.values =
                                     [i \in DOMAIN fields |->
                                        [kind  |-> ValueKind(fields[i]),
                                         bytes |-> SubSeq(k, end[i - 1] + 1, end[i])]]
  BY <1>4, DecodeFacts
<1>9. Len(key) = end[n] /\ \A i \in 1..n : SubSeq(key, end[i - 1] + 1, end[i]) = seqs[i]
  <2>1. /\ seqs \in Seq(Seq(Bytes)) /\ w \in Seq(Int) /\ Len(w) = Len(seqs)
        /\ \A i \in 1..Len(seqs) : w[i] = Len(seqs[i])
    BY <1>2, <1>3, <1>4
  <2>2. /\ Len(FlattenSeq(seqs)) = end[Len(seqs)]
        /\ \A i \in 1..Len(seqs) : SubSeq(FlattenSeq(seqs), end[i - 1] + 1, end[i]) = seqs[i]
    BY ONLY <1>8, <2>1, FlattenParts
  <2> QED
    BY <1>3, <2>2
<1>10. end[n] = Total(w)
  BY <1>4, <1>8, TotalIs
<1>11. key \in Seq(Bytes)
  BY <1>3, JoinsExist
<1> HIDE DEF key, n
<1> DEFINE decoded == DecodeKey(fields, key)
<1>12. /\ decoded.ok
       /\ decoded.values = [i \in DOMAIN fields |->
                              [kind  |-> ValueKind(fields[i]),
                               bytes |-> SubSeq(key, end[i - 1] + 1, end[i])]]
  BY <1>8, <1>9
<1>13. ~DecodeKey(fields, Append(key, <<"ttl", 1>>)).ok
  <2> DEFINE b == <<"ttl", 1>>
  <2>1. Len(Append(key, b)) = Len(key) + 1
    <3> HIDE DEF b
    <3> QED
      BY <1>11
  <2> HIDE DEF b
  <2>2. Len(key) + 1 # end[n]
    BY <1>7, <1>9, <1>10
  <2>3. ~DecodeKey(fields, Append(key, b)).ok
    BY <1>8, <2>1, <2>2
  <2> QED
    BY <2>3 DEF b
<1>14. ~DecodeKey(fields, Front(key)).ok
  <2>1. Len(key) \in Nat /\ Len(key) > 0
    BY <1>7, <1>9, <1>10
  <2>2. Len(Front(key)) = Len(key) - 1
    <3> DEFINE b == Len(key) - 1
    <3>1. 0 \in Nat /\ b \in Nat /\ 0 <= b /\ b <= Len(key)
      BY <2>1
    <3> HIDE DEF b
    <3>2. Len(SubSeq(key, 0 + 1, b)) = b - 0
      BY ONLY <1>11, <3>1, SubSeqFacts
    <3>3. Front(key) = SubSeq(key, 1, b)
      BY DEF Front, b
    <3> QED
      BY <2>1, <3>1, <3>2, <3>3 DEF b
  <2>3. Len(Front(key)) # end[n]
    BY <1>9, <2>1, <2>2
  <2> QED
    BY <1>8, <2>3
<1> HIDE DEF decoded
<1>15. /\ DOMAIN decoded.values = DOMAIN fields
       /\ \A i \in DOMAIN fields : /\ decoded.values[i].kind = ValueKind(fields[i])
                                   /\ decoded.values[i].bytes = SubSeq(key, end[i - 1] + 1, end[i])
  BY <1>12
<1>16. \A i \in DOMAIN fields : decoded.values[i].bytes = EncodeField(fields[i])
  BY <1>1, <1>3, <1>9, <1>15
<1> QED
  BY <1>6, <1>12, <1>13, <1>14, <1>15, <1>16 DEF decoded

-----------------------------------------------------------------------------
(* The frontend decodes what the backend encoded: every valid rule's keys, *)
(* of up to seven fields in any order, cut into each field's own bytes and *)
(* shown as its attribute, and no key that is a byte longer or shorter.    *)
THEOREM DecodeInvertsEncodeCorrect == ConfigSpec => []DecodeInvertsEncode
<1>1. ASSUME ConfigInv PROVE DecodeInvertsEncode
  <2> DEFINE fields == spec.fields
             key == EncodeKey(fields)
             decoded == DecodeKey(fields, key)
             attrs == FlowAttributes(spec.name, fields, decoded.values)
  <2> SUFFICES ASSUME Valid(spec)
               PROVE  /\ decoded.ok
                      /\ \A i \in DOMAIN fields : decoded.values[i].bytes = EncodeField(fields[i])
                      /\ \A f \in Range(fields) : [attr |-> f, value |-> EncodeField(f)] \in attrs
                      /\ ~DecodeKey(fields, Append(key, <<"ttl", 1>>)).ok
                      /\ ~DecodeKey(fields, Front(key)).ok
    BY DEF DecodeInvertsEncode
  <2>1. fields \in Seq(Fields \cup {"ttl"})
    BY <1>1 DEF ConfigInv, Composed
  <2>2. Len(fields) \in 1..FIELDS_MAX /\ \A i \in DOMAIN fields : fields[i] \in Fields
    BY DEF Valid
  <2> HIDE DEF fields
  <2>3. fields \in Seq(Fields) /\ fields # << >>
    <3> HIDE DEF key, decoded, attrs
    <3>1. Len(fields) \in Nat /\ DOMAIN fields = 1..Len(fields) /\ fields = [i \in 1..Len(fields) |-> fields[i]]
      BY ONLY <2>1
    <3>2. Len(fields) > 0
      BY <2>2, <3>1 DEF FIELDS_MAX
    <3>3. \A i \in 1..Len(fields) : fields[i] \in Fields
      BY ONLY <2>2, <3>1
    <3>4. fields \in Seq(Fields)
      BY ONLY <3>1, <3>3
    <3> QED
      BY ONLY <3>1, <3>2, <3>4
  <2>4. /\ decoded.ok /\ DOMAIN decoded.values = DOMAIN fields
        /\ \A i \in DOMAIN fields : /\ decoded.values[i].kind = ValueKind(fields[i])
                                    /\ decoded.values[i].bytes = EncodeField(fields[i])
        /\ ~DecodeKey(fields, Append(key, <<"ttl", 1>>)).ok
        /\ ~DecodeKey(fields, Front(key)).ok
    BY <2>3, DecodedKey
  <2> HIDE DEF decoded, key
  <2>5. ASSUME NEW f \in Range(fields) PROVE [attr |-> f, value |-> EncodeField(f)] \in attrs
    <3>1. PICK i \in DOMAIN fields : f = fields[i]
      BY DEF Range
    <3>2. i \in {j \in DOMAIN fields :
                   j \in DOMAIN decoded.values /\ decoded.values[j].kind = ValueKind(fields[j])}
      BY <2>4
    <3>3. decoded.values[i].bytes = EncodeField(f)
      BY <2>4, <3>1
    <3>4. [attr |-> fields[i], value |-> decoded.values[i].bytes] \in attrs
      BY <3>2 DEF FlowAttributes
    <3> HIDE DEF attrs
    <3> QED
      BY <3>1, <3>3, <3>4
  <2> QED
    BY <2>4, <2>5
<1> QED
  BY <1>1, ConfigInvInductive, PTL

(* Frontend and backend accept the same rules: whatever validate_rule      *)
(* accepts, infmon_flow_rule_validate does, and the other way round.       *)
THEOREM ValidatorsAgreeCorrect == ConfigSpec => []ValidatorsAgree
<1>1. ASSUME ConfigInv PROVE ValidatorsAgree
  <2> SUFFICES ASSUME Range(spec.fields) \subseteq Fields
               PROVE  ValidateRule(spec) = "OK" <=> Valid(spec)
    BY DEF ValidatorsAgree
  <2>1. spec.fields \in Seq(Fields \cup {"ttl"}) /\ spec.max_keys \in Nat
    BY <1>1 DEF ConfigInv, Composed
  <2>2. spec.fields \in Seq(Fields)
    <3> DEFINE f == spec.fields
    <3>1. Len(f) \in Nat /\ f \in [1..Len(f) -> Fields \cup {"ttl"}]
      BY <2>1
    <3>2. \A i \in 1..Len(f) : f[i] \in Fields
      BY <3>1 DEF Range
    <3> HIDE DEF f
    <3>3. f \in Seq(Fields)
      BY <3>1, <3>2
    <3> QED
      BY <3>3 DEF f
  <2> QED
    BY <2>1, <2>2, SameValidation
<1> QED
  BY <1>1, ConfigInvInductive, PTL

(* FlowRuleSet and the backend's rule set hold the same rules and spend    *)
(* the same keys, answer every further add alike, and what they hold loads *)
(* as a configuration.                                                     *)
THEOREM SetsAgreeCorrect == ConfigSpec => []SetsAgree
<1>1. ASSUME ConfigInv PROVE SetsAgree
  <2> USE <1>1 DEF ConfigInv
  <2>1. rules = set.rules /\ UsedKeys(rules) = set.used_keys
    OBVIOUS
  <2>2. ValidateConfig([Default EXCEPT !.flow_rules = rules]) = "OK"
    BY AcceptedLoads
  <2>3. \A rule \in Candidates : CrudAdd(rules, rule) = AddResult(set, rule)
    BY RulesAssumption, SameAnswer
  <2> QED
    BY <2>1, <2>2, <2>3 DEF SetsAgree
<1> QED
  BY <1>1, ConfigInvInductive, PTL

(* A configuration that validate.rs accepts gives start() exporters that   *)
(* can be built and timeouts that are not zero, whatever the width of the  *)
(* words in which either side's products wrap around.                      *)
THEOREM AcceptedConfigStartsCorrect == ConfigSpec => []AcceptedConfigStarts
<1>1. ASSUME ConfigInv PROVE AcceptedConfigStarts
  BY <1>1, ConfigsAssumption, AcceptedStarts DEF ConfigInv
<1> QED
  BY <1>1, ConfigInvInductive, PTL

-----------------------------------------------------------------------------
(* The facts about the constants every proof below uses.                   *)
USE StatsAssumption

-----------------------------------------------------------------------------
(* Sums over the values of a function.                                     *)

(* e numbers the elements of D.                                            *)
Enumerates(e, D) == e \in [1..Cardinality(D) -> D] /\ IsInjective(e)

(* Numbering a finite set without repetition reaches all of it.            *)
LEMMA Onto ==
    ASSUME NEW D, IsFiniteSet(D), NEW e, Enumerates(e, D)
    PROVE  /\ Cardinality(D) \in Nat
           /\ \A d \in D : \E i \in 1..Cardinality(D) : e[i] = d
<1> DEFINE n == Cardinality(D)
<1>1. n \in Nat
  BY FS_CardinalityType
<1>2. Cardinality(1..n) = n
  <2> HIDE DEF n
  <2> QED
    BY <1>1, FS_Interval
<1>3. e \in Injection(1..n, D)
  BY DEF Enumerates, Injection
<1>4. e \in Surjection(1..n, D)
  BY <1>2, <1>3, FS_Injection
<1> QED
  BY <1>1, <1>4 DEF Surjection

(* SetToSeq numbers the elements of a finite set.                          *)
LEMMA Enumerated ==
    ASSUME NEW D, IsFiniteSet(D)
    PROVE  Enumerates(SetToSeq(D), D)
<1> DEFINE n == Cardinality(D)
<1>1. PICK b : b \in Bijection(1..n, D)
  BY FS_CardinalityType DEF ExistsBijection
<1>2. b \in [1..n -> D] /\ IsInjective(b)
  BY <1>1 DEF Bijection, Injection
<1>3. \E f \in [1..n -> D] : IsInjective(f)
  BY <1>2
<1> HIDE DEF n
<1>4. (CHOOSE f \in [1..n -> D] : IsInjective(f)) \in [1..n -> D]
      /\ IsInjective(CHOOSE f \in [1..n -> D] : IsInjective(f))
  BY <1>3, Zenon
<1> QED
  BY <1>4 DEF n, SetToSeq, Enumerates

(* A sum has the same value in whatever order its terms are taken.         *)
LEMMA SumEnumerated ==
    ASSUME NEW D, IsFiniteSet(D), NEW f \in [D -> Int], NEW e, Enumerates(e, D)
    PROVE  /\ Taken(f, e) \in Seq(Int) /\ Len(Taken(f, e)) = Cardinality(D)
           /\ \A i \in 1..Cardinality(D) : Taken(f, e)[i] = f[e[i]]
           /\ Sum(f) = Total(Taken(f, e)) /\ Sum(f) \in Int
<1> DEFINE n == Cardinality(D)
           s == SetToSeq(D)
           u == Taken(f, s)
           v == Taken(f, e)
           p == [i \in 1..n |-> CHOOSE j \in 1..n : s[j] = e[i]]
<1>1. Enumerates(s, D) /\ n \in Nat
  BY Enumerated, FS_CardinalityType
<1>2. \A d \in D : \E j \in 1..n : s[j] = d
  BY <1>1, Onto
<1>3. /\ s \in [1..n -> D] /\ IsInjective(s)
      /\ e \in [1..n -> D] /\ IsInjective(e)
  BY <1>1 DEF Enumerates
<1>4. Sum(f) = Total(u)
  BY DEF Sum, Taken
<1> HIDE DEF s, n
<1>5. /\ u = [i \in 1..n |-> f[s[i]]] /\ v = [i \in 1..n |-> f[e[i]]]
      /\ (\A i \in 1..n : f[s[i]] \in Int) /\ (\A i \in 1..n : f[e[i]] \in Int)
  BY <1>3 DEF Taken
<1>6. /\ u \in Seq(Int) /\ Len(u) = n /\ (\A i \in 1..n : u[i] = f[s[i]])
      /\ v \in Seq(Int) /\ Len(v) = n /\ (\A i \in 1..n : v[i] = f[e[i]])
  <2> HIDE DEF u, v
  <2> QED
    BY <1>1, <1>5
<1> HIDE DEF u, v
<1>7. ASSUME NEW i \in 1..n PROVE p[i] \in 1..n /\ s[p[i]] = e[i]
  <2>1. \E j \in 1..n : s[j] = e[i]
    BY <1>2, <1>3
  <2>2. p[i] = CHOOSE j \in 1..n : s[j] = e[i]
    OBVIOUS
  <2> HIDE DEF p
  <2> QED
    BY <2>1, <2>2
<1>8. p = [i \in 1..n |-> p[i]] /\ DOMAIN p = 1..n
  OBVIOUS
<1> HIDE DEF p
<1>9. p \in [1..n -> 1..n]
  BY <1>7, <1>8
<1>10. IsInjective(p)
  <2> SUFFICES ASSUME NEW i \in 1..n, NEW j \in 1..n, p[i] = p[j] PROVE i = j
    BY <1>8 DEF IsInjective
  <2>1. e[i] = e[j]
    BY <1>7
  <2> QED
    BY <1>3, <2>1 DEF IsInjective
<1>11. Total(Taken(u, p)) = Total(u)
  BY <1>6, <1>9, <1>10, TotalPermuted
<1>12. Taken(u, p) = v
  <2>1. Taken(u, p) = [i \in 1..n |-> u[p[i]]]
    BY <1>8 DEF Taken
  <2>2. ASSUME NEW i \in 1..n PROVE u[p[i]] = f[e[i]]
    BY <1>6, <1>7
  <2> QED
    BY <1>5, <2>1, <2>2 DEF v
<1>13. Total(v) \in Int
  BY <1>6, TotalType
<1> QED
  BY <1>4, <1>6, <1>11, <1>12, <1>13 DEF n, v

(* A table without keys sums to zero.                                      *)
LEMMA SumOfNone == Sum(EmptyTable) = 0
<1>1. EmptyTable \in [{} -> Int] /\ IsFiniteSet({}) /\ Cardinality({}) = 0
  BY FS_EmptySet DEF EmptyTable
<1>2. Enumerates(SetToSeq({}), {})
  BY <1>1, Enumerated
<1>3. DOMAIN EmptyTable = {}
  BY DEF EmptyTable
<1>4. /\ Taken(EmptyTable, SetToSeq({})) \in Seq(Int)
      /\ Len(Taken(EmptyTable, SetToSeq({}))) = 0
      /\ Sum(EmptyTable) = Total(Taken(EmptyTable, SetToSeq({})))
  BY <1>1, <1>2, SumEnumerated
<1>5. Taken(EmptyTable, SetToSeq({})) = << >>
  BY <1>4
<1> QED
  BY <1>4, <1>5, TotalEmpty

(* One more element counts for its value.                                  *)
LEMMA SumAdded ==
    ASSUME NEW D, IsFiniteSet(D), NEW f \in [D -> Int], NEW x, x \notin D,
           NEW g \in [D \cup {x} -> Int], \A d \in D : g[d] = f[d]
    PROVE  Sum(g) = Sum(f) + g[x]
<1> DEFINE n == Cardinality(D)
           E == D \cup {x}
           s == SetToSeq(D)
           e == Append(s, x)
           u == Taken(f, s)
           v == Taken(g, e)
<1>1. n \in Nat /\ IsFiniteSet(E) /\ Cardinality(E) = n + 1
  BY FS_CardinalityType, FS_AddElement
<1>2. s \in [1..n -> D] /\ IsInjective(s) /\ Enumerates(s, D)
  BY Enumerated DEF Enumerates
<1> HIDE DEF n, s
<1>3. s \in Seq(D) /\ Len(s) = n /\ DOMAIN s = 1..n
  BY <1>1, <1>2
<1>4. /\ e = [i \in 1..(n + 1) |-> e[i]] /\ DOMAIN e = 1..(n + 1)
      /\ e[n + 1] = x /\ \A i \in 1..n : e[i] = s[i] /\ s[i] \in D
  <2>1. s \in Seq(E) /\ x \in E
    BY <1>3
  <2>2. e \in Seq(E) /\ Len(e) = n + 1 /\ e[n + 1] = x /\ \A i \in 1..n : e[i] = s[i]
    BY <1>3, <2>1, AppendProperties
  <2>3. \A i \in 1..n : s[i] \in D
    BY <1>2
  <2> HIDE DEF e
  <2>4. DOMAIN e = 1..(n + 1) /\ e = [i \in 1..(n + 1) |-> e[i]]
    BY <2>2
  <2> QED
    BY <2>2, <2>3, <2>4
<1> HIDE DEF e
<1>5. \A i \in 1..(n + 1) : i = n + 1 \/ i \in 1..n
  BY <1>1
<1>6. Enumerates(e, E)
  <2>1. e \in [1..(n + 1) -> E]
    BY <1>4, <1>5
  <2>2. ASSUME NEW i \in 1..(n + 1), NEW j \in 1..(n + 1), e[i] = e[j] PROVE i = j
    <3>1. CASE i \in 1..n /\ j \in 1..n
      BY <1>2, <1>3, <1>4, <2>2, <3>1 DEF IsInjective
    <3>2. CASE ~ (i \in 1..n /\ j \in 1..n)
      BY <1>4, <1>5, <2>2, <3>2
    <3> QED
      BY <3>1, <3>2
  <2> QED
    BY <1>1, <1>4, <2>1, <2>2 DEF Enumerates, IsInjective
<1>7. /\ u \in Seq(Int) /\ Len(u) = n /\ \A i \in 1..n : u[i] = f[s[i]]
      /\ Sum(f) = Total(u)
  BY <1>2, SumEnumerated DEF n
<1>8. /\ v \in Seq(Int) /\ Len(v) = n + 1 /\ \A i \in 1..(n + 1) : v[i] = g[e[i]]
      /\ Sum(g) = Total(v)
  BY <1>1, <1>6, SumEnumerated
<1> HIDE DEF u, v
<1>9. g[x] \in Int
  OBVIOUS
<1>10. v = Append(u, g[x])
  <2>1. /\ Append(u, g[x]) \in Seq(Int) /\ Len(Append(u, g[x])) = n + 1
        /\ Append(u, g[x])[n + 1] = g[x] /\ \A i \in 1..n : Append(u, g[x])[i] = u[i]
    BY <1>1, <1>7, <1>9
  <2>2. ASSUME NEW i \in 1..(n + 1) PROVE v[i] = Append(u, g[x])[i]
    <3>1. CASE i = n + 1
      BY <1>4, <1>8, <2>1, <3>1
    <3>2. CASE i \in 1..n
      <4>1. v[i] = g[s[i]] /\ s[i] \in D
        BY <1>4, <1>8, <3>2
      <4>2. Append(u, g[x])[i] = f[s[i]]
        BY <1>7, <2>1, <3>2
      <4> QED
        BY <4>1, <4>2
    <3> QED
      BY <1>5, <3>1, <3>2
  <2> QED
    BY <1>8, <2>1, <2>2, SeqEqual
<1> QED
  BY <1>7, <1>8, <1>9, <1>10, TotalAppend

(* One value changed.                                                      *)
LEMMA SumChanged ==
    ASSUME NEW D, IsFiniteSet(D), NEW f \in [D -> Int], NEW g \in [D -> Int], NEW x \in D,
           \A d \in D : d # x => g[d] = f[d]
    PROVE  Sum(g) = Sum(f) + (g[x] - f[x])
<1> DEFINE n == Cardinality(D)
           s == SetToSeq(D)
           u == Taken(f, s)
           v == Taken(g, s)
<1>1. s \in [1..n -> D] /\ IsInjective(s) /\ Enumerates(s, D)
  BY Enumerated DEF Enumerates
<1>2. PICK k \in 1..n : s[k] = x
  BY <1>1, Onto
<1>3. u \in Seq(Int) /\ Len(u) = n /\ (\A i \in 1..n : u[i] = f[s[i]]) /\ Sum(f) = Total(u)
  BY <1>1, SumEnumerated
<1>4. v \in Seq(Int) /\ Len(v) = n /\ (\A i \in 1..n : v[i] = g[s[i]]) /\ Sum(g) = Total(v)
  BY <1>1, SumEnumerated
<1> HIDE DEF n, s, u, v
<1>5. ASSUME NEW i \in 1..n, i # k PROVE v[i] = u[i]
  <2>1. s[i] \in D /\ s[i] # x
    BY <1>1, <1>2, <1>5 DEF IsInjective
  <2> QED
    BY <1>3, <1>4, <2>1
<1>6. Total(v) = Total(u) + (v[k] - u[k])
  <2>1. /\ u \in Seq(Int) /\ v \in Seq(Int) /\ Len(v) = Len(u) /\ k \in 1..Len(u)
        /\ \A i \in 1..Len(u) : i # k => v[i] = u[i]
    BY <1>3, <1>4, <1>5
  <2> QED
    BY ONLY <2>1, TotalChanged
<1> QED
  BY <1>2, <1>3, <1>4, <1>6

(* The same values under other names.                                      *)
LEMMA SumRenamed ==
    ASSUME NEW D, IsFiniteSet(D), NEW f \in [D -> Int], NEW c, NEW C,
           NEW m \in [C -> Int], NEW key \in [C -> D],
           IsFiniteSet(C), Enumerates(c, C), IsInjective(key),
           \A d \in D : \E x \in C : key[x] = d,
           \A x \in C : m[x] = f[key[x]]
    PROVE  c \in Seq(C) /\ Total(Measured(m, c)) = Sum(f)
<1> DEFINE n == Cardinality(C)
           e == [i \in 1..n |-> key[c[i]]]
<1>1. key \in Bijection(C, D)
  BY DEF Bijection, Injection, Surjection
<1>2. n \in Nat /\ Cardinality(D) = n
  <2>1. ExistsBijection(C, D)
    BY <1>1 DEF ExistsBijection
  <2> QED
    BY <2>1, FS_Bijection, FS_CardinalityType
<1>3. c \in [1..n -> C] /\ IsInjective(c)
  BY DEF Enumerates
<1> HIDE DEF n
<1>4. c \in Seq(C) /\ Len(c) = n /\ DOMAIN c = 1..n
  BY <1>2, <1>3
<1>5. e \in [1..n -> D] /\ IsInjective(e)
  <2>1. e \in [1..n -> D]
    BY <1>3
  <2>2. ASSUME NEW i \in 1..n, NEW j \in 1..n, e[i] = e[j] PROVE i = j
    <3>1. c[i] \in C /\ c[j] \in C /\ key[c[i]] = key[c[j]]
      BY <1>3, <2>2
    <3> HIDE DEF e
    <3>2. c[i] = c[j]
      <4>1. DOMAIN key = C /\ IsInjective(key)
        OBVIOUS
      <4> QED
        BY ONLY <3>1, <4>1 DEF IsInjective
    <3>3. DOMAIN c = 1..n /\ IsInjective(c)
      BY <1>3
    <3> QED
      BY ONLY <3>2, <3>3, i \in 1..n, j \in 1..n DEF IsInjective
  <2>3. DOMAIN e = 1..n
    OBVIOUS
  <2> HIDE DEF e
  <2>4. IsInjective(e)
    BY ONLY <2>2, <2>3 DEF IsInjective
  <2> QED
    BY <2>1, <2>4
<1>6. Sum(f) = Total(Taken(f, e))
  <2>1. Enumerates(e, D)
    BY <1>2, <1>5 DEF Enumerates
  <2> HIDE DEF e
  <2> QED
    BY <2>1, SumEnumerated
<1>7. Taken(f, e) = Measured(m, c)
  <2>1. Taken(f, e) = [i \in 1..n |-> f[key[c[i]]]]
    BY DEF Taken
  <2>2. Measured(m, c) = [i \in 1..n |-> m[c[i]]]
    BY <1>4 DEF Measured
  <2>3. \A i \in 1..n : m[c[i]] = f[key[c[i]]]
    BY <1>3
  <2> HIDE DEF e
  <2> QED
    BY <2>1, <2>2, <2>3
<1> QED
  BY <1>4, <1>6, <1>7

-----------------------------------------------------------------------------
(* A rule's counters: finitely many keys of K, each with its packets.      *)
Slots(K) == UNION {[D -> Nat] : D \in {S \in SUBSET K : IsFiniteSet(S)}}
Message(K) == [key : K, packets : Nat]
Packets(K) == [e \in Message(K) |-> e.packets]

(* What a table is a function of, and that it has a sum.                   *)
LEMMA SlotsFacts ==
    ASSUME NEW K, NEW t \in Slots(K)
    PROVE  /\ DOMAIN t \subseteq K /\ IsFiniteSet(DOMAIN t)
           /\ t \in [DOMAIN t -> Nat] /\ t \in [DOMAIN t -> Int] /\ Sum(t) \in Int
<1>1. PICK D \in SUBSET K : IsFiniteSet(D) /\ t \in [D -> Nat]
  BY DEF Slots
<1>2. DOMAIN t = D
  BY <1>1
<1>3. t \in [DOMAIN t -> Int] /\ IsFiniteSet(DOMAIN t)
  BY <1>1, <1>2
<1>4. Enumerates(SetToSeq(DOMAIN t), DOMAIN t)
  BY <1>3, Enumerated
<1>5. Sum(t) \in Int
  BY <1>3, <1>4, SumEnumerated
<1> QED
  BY <1>1, <1>2, <1>3, <1>5

(* A new table is a table.                                                 *)
LEMMA EmptyTableFacts ==
    ASSUME NEW K
    PROVE  EmptyTable \in Slots(K)
<1>1. EmptyTable \in [{} -> Nat] /\ {} \in SUBSET K /\ IsFiniteSet({})
  BY FS_EmptySet DEF EmptyTable
<1> QED
  BY <1>1 DEF Slots

(* Counting for a key adds to the sum, whether or not the key is there.    *)
LEMMA AddedFacts ==
    ASSUME NEW K, NEW t \in Slots(K), NEW k \in K, NEW n \in Nat
    PROVE  Added(t, k, n) \in Slots(K) /\ Sum(Added(t, k, n)) = Sum(t) + n
<1> DEFINE D == DOMAIN t
           g == Added(t, k, n)
<1>1. /\ D \subseteq K /\ IsFiniteSet(D) /\ t \in [D -> Nat] /\ t \in [D -> Int]
      /\ Sum(t) \in Int
  BY SlotsFacts
<1>2. g = [key \in D \cup {k} |->
             (IF key \in D THEN t[key] ELSE 0) + IF key = k THEN n ELSE 0]
  BY DEF Added
<1> HIDE DEF D, g
<1>3. IsFiniteSet(D \cup {k}) /\ D \cup {k} \in SUBSET K
  BY <1>1, FS_AddElement
<1>4. ASSUME NEW key \in D \cup {k}
      PROVE  (IF key \in D THEN t[key] ELSE 0) + (IF key = k THEN n ELSE 0) \in Nat
  <2>1. (IF key \in D THEN t[key] ELSE 0) \in Nat
    BY <1>1
  <2>2. (IF key = k THEN n ELSE 0) \in Nat
    OBVIOUS
  <2> QED
    BY <2>1, <2>2
<1>5. g \in [D \cup {k} -> Nat] /\ g \in [D \cup {k} -> Int]
  BY <1>2, <1>4
<1>6. \A key \in D : key # k => g[key] = t[key]
  BY <1>1, <1>2
<1>7. g \in Slots(K)
  BY <1>3, <1>5 DEF Slots
<1>8. CASE k \in D
  <2>1. D \cup {k} = D
    BY <1>8
  <2>2. g \in [D -> Int] /\ g[k] = t[k] + n /\ t[k] \in Int
    BY <1>1, <1>2, <1>5, <1>8, <2>1
  <2>3. Sum(g) = Sum(t) + (g[k] - t[k])
    <3>1. /\ IsFiniteSet(D) /\ t \in [D -> Int] /\ g \in [D -> Int] /\ k \in D
          /\ \A d \in D : d # k => g[d] = t[d]
      BY <1>1, <1>6, <1>8, <2>2
    <3> QED
      BY ONLY <3>1, SumChanged
  <2> QED
    BY <1>1, <1>7, <2>2, <2>3 DEF g
<1>9. CASE k \notin D
  <2>1. g[k] = n /\ \A key \in D : g[key] = t[key]
    BY <1>2, <1>6, <1>9
  <2>2. Sum(g) = Sum(t) + g[k]
    <3>1. /\ IsFiniteSet(D) /\ t \in [D -> Int] /\ g \in [D \cup {k} -> Int] /\ k \notin D
          /\ \A d \in D : g[d] = t[d]
      BY <1>1, <1>5, <1>9, <2>1
    <3> QED
      BY ONLY <3>1, SumAdded
  <2> QED
    BY <1>7, <2>1, <2>2 DEF g
<1> QED
  BY <1>8, <1>9

(* What a worker streams of a table counts for what is in the table.       *)
LEMMA MessagesFacts ==
    ASSUME NEW K, NEW t \in Slots(K)
    PROVE  /\ Messages(t) \in Seq(Message(K))
           /\ Total(Measured(Packets(K), Messages(t))) = Sum(t)
<1> DEFINE D == DOMAIN t
           C == {[key |-> k, packets |-> t[k]] : k \in D}
           m == [e \in C |-> e.packets]
           key == [e \in C |-> e.key]
           c == SetToSeq(C)
<1>1. D \subseteq K /\ IsFiniteSet(D) /\ t \in [D -> Nat] /\ t \in [D -> Int]
  BY SlotsFacts
<1>2. IsFiniteSet(C)
  <2> DEFINE b == [k \in D |-> [key |-> k, packets |-> t[k]]]
  <2>1. b \in Surjection(D, C)
    BY DEF Surjection
  <2> HIDE DEF b
  <2> QED
    BY <1>1, <2>1, FS_Surjection
<1>3. \A e \in C : e.key \in D /\ e.packets = t[e.key] /\ e = [key |-> e.key, packets |-> t[e.key]]
  OBVIOUS
<1>4. C \subseteq Message(K)
  BY <1>1 DEF Message
<1>5. ASSUME NEW d \in D PROVE \E e \in C : e.key = d
  <2>1. [key |-> d, packets |-> t[d]] \in C
    OBVIOUS
  <2>2. [key |-> d, packets |-> t[d]].key = d
    OBVIOUS
  <2> HIDE DEF C
  <2> QED
    BY <2>1, <2>2
<1> HIDE DEF C
<1>6. /\ m \in [C -> Int] /\ key \in [C -> D] /\ IsInjective(key)
      /\ (\A d \in D : \E e \in C : key[e] = d) /\ \A e \in C : m[e] = t[key[e]]
  <2>1. m \in [C -> Int] /\ key \in [C -> D]
    BY <1>1, <1>3
  <2>2. IsInjective(key)
    BY <1>3 DEF IsInjective
  <2>3. (\A d \in D : \E e \in C : key[e] = d) /\ \A e \in C : m[e] = t[key[e]]
    BY <1>3, <1>5
  <2> QED
    BY <2>1, <2>2, <2>3
<1>7. Enumerates(c, C)
  BY <1>2, Enumerated
<1> HIDE DEF D, c, key, m
<1>8. c \in Seq(C) /\ Total(Measured(m, c)) = Sum(t)
  BY <1>1, <1>2, <1>6, <1>7, SumRenamed
<1>9. c \in Seq(Message(K))
  BY <1>4, <1>8
<1>10. Measured(m, c) = Measured(Packets(K), c)
  <2>1. \A i \in DOMAIN c : c[i] \in C /\ c[i] \in Message(K)
    BY <1>4, <1>8
  <2>2. \A e \in C : m[e] = e.packets
    BY DEF m
  <2>3. \A e \in Message(K) : Packets(K)[e] = e.packets
    BY DEF Packets
  <2>4. \A i \in DOMAIN c : m[c[i]] = Packets(K)[c[i]]
    BY <2>1, <2>2, <2>3
  <2> QED
    BY <2>4 DEF Measured
<1>11. Messages(t) = c
  BY DEF Messages, c, C, D
<1> QED
  BY <1>8, <1>9, <1>10, <1>11

(* Every message counts for a number of packets.                           *)
LEMMA MeasuredInt ==
    ASSUME NEW K
    PROVE  Packets(K) \in [Message(K) -> Int]
BY DEF Packets, Message

(* The messages of a dump count for what the rule's tables hold, over all  *)
(* of its workers.                                                         *)
LEMMA EntriesFacts ==
    ASSUME NEW r, NEW K, table[r] \in [Workers -> Slots(K)]
    PROVE  /\ Entries(r) \in Seq(Message(K))
           /\ Total(Measured(Packets(K), Entries(r))) = Tabled(r)
           /\ Tabled(r) \in Int
<1> DEFINE S == Message(K)
           m == Packets(K)
           seqs == [w \in Workers |-> Messages(table[r][w])]
           sums == [w \in Workers |-> Sum(table[r][w])]
<1>1. ASSUME NEW w \in Workers
      PROVE  /\ seqs[w] \in Seq(S) /\ Total(Measured(m, seqs[w])) = sums[w]
             /\ sums[w] \in Int
  <2>1. table[r][w] \in Slots(K)
    OBVIOUS
  <2>2. seqs[w] = Messages(table[r][w]) /\ sums[w] = Sum(table[r][w])
    OBVIOUS
  <2> HIDE DEF seqs, sums, S, m
  <2> QED
    BY <2>1, <2>2, MessagesFacts, SlotsFacts DEF S, m
<1>2. WORKERS \in Nat /\ Workers = 1..WORKERS
  BY DEF Workers
<1>3. seqs = [w \in 1..WORKERS |-> seqs[w]] /\ sums = [w \in 1..WORKERS |-> sums[w]]
  BY <1>2
<1>4. Entries(r) = FlattenSeq(seqs) /\ Tabled(r) = Total(sums)
  BY DEF Entries, Tabled
<1> HIDE DEF seqs, sums
<1>5. /\ seqs \in Seq(Seq(S)) /\ Len(seqs) = WORKERS
      /\ sums \in Seq(Int)
  <2> HIDE DEF S, m
  <2>1. \A w \in 1..WORKERS : seqs[w] \in Seq(S) /\ sums[w] \in Int
    BY <1>1, <1>2
  <2>2. seqs \in [1..WORKERS -> Seq(S)] /\ sums \in [1..WORKERS -> Int]
    BY <1>3, <2>1
  <2> QED
    BY <1>2, <2>2
<1>6. [j \in 1..WORKERS |-> Total(Measured(m, seqs[j]))] = sums
  <2>1. \A j \in 1..WORKERS : Total(Measured(m, seqs[j])) = sums[j]
    BY <1>1, <1>2
  <2> HIDE DEF m
  <2> QED
    BY <1>3, <2>1
<1>7. m \in [S -> Int]
  BY MeasuredInt
<1> HIDE DEF m, S
<1>8. /\ FlattenSeq(seqs) \in Seq(S)
      /\ Total(Measured(m, FlattenSeq(seqs)))
           = Total([j \in 1..Len(seqs) |-> Total(Measured(m, seqs[j]))])
  BY ONLY <1>5, <1>7, FlattenTotal
<1>9. Total(sums) \in Int
  BY <1>5, TotalType
<1> QED
  BY <1>4, <1>5, <1>6, <1>8, <1>9 DEF m, S

(* The table the merge has built behind each entry.                        *)
Merges(f, entries, n) ==
    f = [i \in 0..n |-> IF i = 0 THEN EmptyTable
                        ELSE Added(f[i - 1], entries[i].key, entries[i].packets)]

(* Merge is what its recursion computes.                                   *)
LEMMA MergeExists ==
    ASSUME NEW entries, Len(entries) \in Nat
    PROVE  \E f : Merges(f, entries, Len(entries)) /\ Merge(entries) = f[Len(entries)]
<1> DEFINE T == {n \in Nat : \E f : Merges(f, entries, n)}
<1>1. 0 \in T
  <2> DEFINE g == [i \in 0..0 |-> EmptyTable]
  <2>1. Merges(g, entries, 0)
    BY DEF Merges
  <2> HIDE DEF g
  <2> QED
    BY <2>1
<1>2. ASSUME NEW n \in Nat, n \in T PROVE n + 1 \in T
  <2>1. PICK f : Merges(f, entries, n)
    BY <1>2
  <2> DEFINE last == Added(f[n], entries[n + 1].key, entries[n + 1].packets)
             g == [i \in 0..(n + 1) |-> IF i = n + 1 THEN last ELSE f[i]]
  <2>2. ASSUME NEW i \in 0..(n + 1)
        PROVE  g[i] = IF i = 0 THEN EmptyTable
                      ELSE Added(g[i - 1], entries[i].key, entries[i].packets)
    <3>1. CASE i = n + 1
      <4>1. g[i] = last /\ i # 0 /\ i - 1 = n /\ g[n] = f[n]
        BY <3>1
      <4> HIDE DEF g
      <4> QED
        BY <3>1, <4>1
    <3>2. CASE i # n + 1
      <4>1. i \in 0..n /\ (i # 0 => i - 1 \in 0..(n + 1) /\ i - 1 # n + 1)
        BY <3>2
      <4>2. g[i] = f[i] /\ (i # 0 => g[i - 1] = f[i - 1])
        BY <3>2, <4>1
      <4>3. f[i] = IF i = 0 THEN EmptyTable
                   ELSE Added(f[i - 1], entries[i].key, entries[i].packets)
        BY <2>1, <4>1 DEF Merges
      <4> HIDE DEF g
      <4> QED
        BY <4>2, <4>3
    <3> QED
      BY <3>1, <3>2
  <2>3. g = [i \in 0..(n + 1) |-> g[i]]
    OBVIOUS
  <2> HIDE DEF g
  <2>4. Merges(g, entries, n + 1)
    BY <2>2, <2>3 DEF Merges
  <2> QED
    BY <2>4
<1> HIDE DEF T
<1>3. Nat \subseteq T
  BY <1>1, <1>2, NatInductive
<1>4. Len(entries) \in T
  BY <1>3
<1> DEFINE Q(f) == f = [i \in 0..Len(entries) |->
                         IF i = 0 THEN EmptyTable
                         ELSE Added(f[i - 1], entries[i].key, entries[i].packets)]
           h == CHOOSE f : Q(f)
<1>5. Q(h)
  <2>1. \E f : Q(f)
    BY <1>4 DEF T, Merges
  <2> HIDE DEF Q
  <2> QED
    BY <2>1
<1>6. Merge(entries) = h[Len(entries)]
  BY DEF Merge
<1> HIDE DEF h
<1> QED
  BY <1>5, <1>6 DEF Merges

(* Merging loses no packet and makes up none, however often a key comes.   *)
LEMMA MergeFacts ==
    ASSUME NEW K, NEW entries \in Seq(Message(K))
    PROVE  /\ Merge(entries) \in Slots(K)
           /\ Sum(Merge(entries)) = Total(Measured(Packets(K), entries))
<1> DEFINE n == Len(entries)
           w == Measured(Packets(K), entries)
<1>1. n \in Nat /\ \A i \in 1..n : entries[i] \in Message(K)
  OBVIOUS
<1>2. ASSUME NEW i \in 1..n PROVE entries[i].key \in K /\ entries[i].packets \in Nat
  BY <1>1 DEF Message
<1>3. PICK f : Merges(f, entries, n) /\ Merge(entries) = f[n]
  BY <1>1, MergeExists
<1>4. w \in Seq(Int) /\ Len(w) = n /\ \A i \in 1..n : w[i] = entries[i].packets
  <2>1. Measures(w, Packets(K), entries)
    BY MeasuredInt, MeasuredFacts, Zenon
  <2> HIDE DEF w
  <2>2. \A i \in 1..n : w[i] = Packets(K)[entries[i]]
    BY <2>1 DEF Measures
  <2>3. \A i \in 1..n : Packets(K)[entries[i]] = entries[i].packets
    BY <1>1 DEF Packets
  <2> QED
    BY <2>1, <2>2, <2>3 DEF Measures
<1> HIDE DEF w
<1>5. PICK g : PrefixSums(g, w) /\ Total(w) = g[Len(w)]
  BY <1>4, TotalPrefix
<1>6. g[0] = 0 /\ \A i \in 1..n : g[i] = g[i - 1] + w[i]
  BY <1>4, <1>5 DEF PrefixSums
<1> HIDE DEF n
<1> DEFINE T == {i \in Nat : i \in 0..n => f[i] \in Slots(K) /\ Sum(f[i]) = g[i]}
<1>7. 0 \in T
  <2>1. f[0] = EmptyTable
    BY <1>1, <1>3 DEF Merges
  <2> QED
    BY <1>6, <2>1, EmptyTableFacts, SumOfNone
<1>8. ASSUME NEW i \in Nat, i \in T PROVE i + 1 \in T
  <2> SUFFICES ASSUME i + 1 \in 0..n
               PROVE  f[i + 1] \in Slots(K) /\ Sum(f[i + 1]) = g[i + 1]
    OBVIOUS
  <2> DEFINE key == entries[i + 1].key
             packets == entries[i + 1].packets
  <2>1. i \in 0..n /\ i + 1 \in 1..n /\ i + 1 # 0 /\ (i + 1) - 1 = i
    BY <1>1
  <2>2. f[i] \in Slots(K) /\ Sum(f[i]) = g[i]
    BY <1>8, <2>1
  <2>3. f[i + 1] = Added(f[i], key, packets)
    BY <1>3, <2>1 DEF Merges
  <2>4. g[i + 1] = g[i] + packets
    BY <1>4, <1>6, <2>1
  <2>5. key \in K /\ packets \in Nat
    BY <1>2, <2>1
  <2> HIDE DEF T, key, packets
  <2>6. Added(f[i], key, packets) \in Slots(K)
        /\ Sum(Added(f[i], key, packets)) = Sum(f[i]) + packets
    BY ONLY <2>2, <2>5, AddedFacts
  <2> QED
    BY <2>2, <2>3, <2>4, <2>6
<1> HIDE DEF T
<1>9. Nat \subseteq T
  BY <1>7, <1>8, NatInductive
<1>10. f[n] \in Slots(K) /\ Sum(f[n]) = g[n]
  <2>1. n \in T /\ n \in 0..n
    BY <1>1, <1>9
  <2> QED
    BY <2>1 DEF T
<1> QED
  BY <1>3, <1>4, <1>5, <1>10 DEF w

-----------------------------------------------------------------------------
(* The counters of one rule.                                               *)
Held(t) == Total([w \in Workers |-> Sum(t[w])])

(* A table holds no negative number of packets.                            *)
LEMMA SumNat ==
    ASSUME NEW K, NEW t \in Slots(K)
    PROVE  Sum(t) \in Nat
<1> DEFINE D == DOMAIN t
           s == SetToSeq(D)
           u == Taken(t, s)
<1>1. IsFiniteSet(D) /\ t \in [D -> Nat] /\ t \in [D -> Int]
  BY SlotsFacts
<1>2. Enumerates(s, D)
  BY <1>1, Enumerated
<1> HIDE DEF D, s
<1>3. /\ u \in Seq(Int) /\ Len(u) = Cardinality(D)
      /\ (\A i \in 1..Cardinality(D) : u[i] = t[s[i]]) /\ Sum(t) = Total(u)
  BY <1>1, <1>2, SumEnumerated
<1>4. \A i \in 1..Cardinality(D) : t[s[i]] \in Nat
  BY <1>1, <1>2 DEF Enumerates
<1> HIDE DEF u
<1>5. u \in Seq(Nat)
  <2>1. \A i \in 1..Len(u) : u[i] \in Nat
    BY <1>3, <1>4
  <2>2. u \in [1..Len(u) -> Nat] /\ Len(u) \in Nat
    BY <1>3, <2>1
  <2> QED
    BY <2>2
<1> QED
  BY <1>3, <1>5, TotalNat

(* A rule's tables have a sum, worker by worker.                           *)
LEMMA HeldFacts ==
    ASSUME NEW K, NEW t \in [Workers -> Slots(K)]
    PROVE  /\ [w \in Workers |-> Sum(t[w])] \in Seq(Int)
           /\ Len([w \in Workers |-> Sum(t[w])]) = WORKERS
           /\ Held(t) \in Int
<1> DEFINE u == [w \in 1..WORKERS |-> Sum(t[w])]
<1>1. WORKERS \in Nat /\ Workers = 1..WORKERS
  BY DEF Workers
<1>2. \A w \in 1..WORKERS : Sum(t[w]) \in Int
  <2>1. \A w \in 1..WORKERS : t[w] \in Slots(K)
    BY <1>1
  <2> QED
    BY <2>1, SlotsFacts
<1>3. u \in Seq(Int) /\ Len(u) = WORKERS
  BY <1>1, <1>2
<1>4. u = [w \in Workers |-> Sum(t[w])]
  BY <1>1
<1> HIDE DEF u
<1>5. Total(u) \in Int
  BY <1>3, TotalType
<1> QED
  BY <1>3, <1>4, <1>5 DEF Held

(* New tables hold nothing.                                                *)
LEMMA HeldNone == EmptyTables \in [Workers -> Slots(Keys)] /\ Held(EmptyTables) = 0
<1> DEFINE u == [w \in Workers |-> Sum(EmptyTables[w])]
<1>1. EmptyTables \in [Workers -> Slots(Keys)]
  BY EmptyTableFacts DEF EmptyTables
<1>2. u \in Seq(Int) /\ Len(u) = WORKERS
  BY <1>1, HeldFacts
<1>3. ASSUME NEW w \in Workers PROVE u[w] = 0
  BY SumOfNone DEF EmptyTables
<1>4. Workers = 1..WORKERS
  BY DEF Workers
<1> HIDE DEF u
<1>5. \A w \in 1..Len(u) : u[w] = 0
  BY <1>2, <1>3, <1>4
<1>6. Total(u) = 0
  BY <1>2, <1>5, TotalZero
<1> QED
  BY <1>1, <1>6 DEF Held, u

(* A packet counted by one worker is one packet more for the rule.         *)
LEMMA HeldCounted ==
    ASSUME NEW t \in [Workers -> Slots(Keys)], NEW w \in Workers, NEW k \in Keys
    PROVE  /\ [t EXCEPT ![w] = Added(t[w], k, 1)] \in [Workers -> Slots(Keys)]
           /\ Held([t EXCEPT ![w] = Added(t[w], k, 1)]) = Held(t) + 1
<1> DEFINE g == [t EXCEPT ![w] = Added(t[w], k, 1)]
           u == [x \in Workers |-> Sum(t[x])]
           v == [x \in Workers |-> Sum(g[x])]
<1>1. t[w] \in Slots(Keys) /\ 1 \in Nat
  OBVIOUS
<1>2. Added(t[w], k, 1) \in Slots(Keys) /\ Sum(Added(t[w], k, 1)) = Sum(t[w]) + 1
  BY <1>1, AddedFacts
<1>3. g \in [Workers -> Slots(Keys)]
  BY <1>2
<1>4. g[w] = Added(t[w], k, 1) /\ \A x \in Workers : x # w => g[x] = t[x]
  OBVIOUS
<1> HIDE DEF g
<1>5. /\ u \in Seq(Int) /\ Len(u) = WORKERS
      /\ v \in Seq(Int) /\ Len(v) = WORKERS
  BY <1>3, HeldFacts
<1>6. v[w] = u[w] + 1 /\ \A x \in Workers : x # w => v[x] = u[x]
  BY <1>2, <1>4
<1>7. Held(g) = Total(v) /\ Held(t) = Total(u)
  BY DEF Held
<1>8. Workers = 1..WORKERS
  BY DEF Workers
<1> HIDE DEF u, v
<1>9. Total(v) = Total(u) + (v[w] - u[w])
  <2>1. /\ u \in Seq(Int) /\ v \in Seq(Int) /\ Len(v) = Len(u) /\ w \in 1..Len(u)
        /\ \A x \in 1..Len(u) : x # w => v[x] = u[x]
    BY <1>5, <1>6, <1>8
  <2> QED
    BY ONLY <2>1, TotalChanged
<1>10. u[w] \in Int /\ Total(u) \in Int
  BY <1>5, <1>8, TotalType
<1> QED
  BY <1>3, <1>6, <1>7, <1>9, <1>10 DEF g

-----------------------------------------------------------------------------
(* The descriptors of a snapshot.  A refused dump has the key << >>.       *)
RawKeys == Keys \cup {<< >>}
Descriptors == [rule : Rules, slots : Slots(RawKeys), drops : Int]
Given(r, desc) == IF desc.rule = r THEN Sum(desc.slots) ELSE 0

(* A descriptor has no negative number of packets.                         *)
LEMMA GivenFacts ==
    ASSUME NEW r, NEW desc \in Descriptors
    PROVE  Given(r, desc) \in Nat
<1>1. desc.slots \in Slots(RawKeys)
  BY DEF Descriptors
<1>2. Sum(desc.slots) \in Nat
  BY <1>1, SumNat
<1> QED
  BY <1>2 DEF Given

(* A snapshot has a number of packets for each rule.                       *)
LEMMA InDescriptorsFacts ==
    ASSUME NEW r, NEW descs \in Seq(Descriptors)
    PROVE  InDescriptors(r, descs) \in Int
<1> DEFINE n == Len(descs)
           u == [i \in 1..n |-> Given(r, descs[i])]
<1>1. n \in Nat /\ DOMAIN descs = 1..n /\ \A i \in 1..n : descs[i] \in Descriptors
  OBVIOUS
<1>2. \A i \in 1..n : Given(r, descs[i]) \in Int
  BY <1>1, GivenFacts
<1>3. u \in Seq(Int)
  BY <1>1, <1>2
<1>4. InDescriptors(r, descs) = Total(u)
  BY <1>1 DEF InDescriptors, Given
<1> HIDE DEF u
<1> QED
  BY <1>3, <1>4, TotalType

(* An empty snapshot has none.                                             *)
LEMMA InNoDescriptors == ASSUME NEW r PROVE InDescriptors(r, << >>) = 0
<1>1. [i \in DOMAIN << >> |-> IF << >>[i].rule = r THEN Sum(<< >>[i].slots) ELSE 0] = << >>
  OBVIOUS
<1> QED
  BY <1>1, TotalEmpty DEF InDescriptors

(* A descriptor that joins the snapshot adds its own packets.              *)
LEMMA InAppended ==
    ASSUME NEW r, NEW descs \in Seq(Descriptors), NEW desc \in Descriptors
    PROVE  InDescriptors(r, Append(descs, desc)) = InDescriptors(r, descs) + Given(r, desc)
<1> DEFINE n == Len(descs)
           more == Append(descs, desc)
           u == [i \in 1..n |-> Given(r, descs[i])]
           v == [i \in 1..(n + 1) |-> Given(r, more[i])]
<1>1. n \in Nat /\ DOMAIN descs = 1..n /\ \A i \in 1..n : descs[i] \in Descriptors
  OBVIOUS
<1>2. /\ DOMAIN more = 1..(n + 1) /\ more[n + 1] = desc
      /\ \A i \in 1..n : more[i] = descs[i]
  OBVIOUS
<1>3. InDescriptors(r, descs) = Total(u)
  BY <1>1 DEF InDescriptors, Given
<1>4. InDescriptors(r, more) = Total(v)
  BY <1>2 DEF InDescriptors, Given
<1>5. \A i \in 1..n : Given(r, descs[i]) \in Int
  BY <1>1, GivenFacts
<1>6. Given(r, desc) \in Int
  BY GivenFacts
<1> HIDE DEF n, more
<1>7. v = [i \in 1..(n + 1) |-> IF i = n + 1 THEN Given(r, desc) ELSE Given(r, descs[i])]
  BY <1>1, <1>2
<1>8. u \in Seq(Int) /\ Len(u) = n /\ \A i \in 1..n : u[i] = Given(r, descs[i])
  BY <1>1, <1>5
<1> HIDE DEF u, v
<1>9. v = Append(u, Given(r, desc))
  <2> DEFINE a == Append(u, Given(r, desc))
             x == Given(r, desc)
             y == [i \in 1..n |-> Given(r, descs[i])]
  <2>1. /\ a \in Seq(Int) /\ Len(a) = n + 1
        /\ a[n + 1] = x /\ \A i \in 1..n : a[i] = u[i]
    BY <1>1, <1>6, <1>8
  <2> HIDE DEF a
  <2>2. \A i \in 1..(n + 1) : a[i] = v[i]
    BY <1>1, <1>7, <1>8, <2>1
  <2>3. \A i \in 1..(n + 1) : v[i] \in Int
    BY <1>1, <1>5, <1>6, <1>7
  <2>4. v \in [1..(n + 1) -> Int]
    BY <1>7, <2>3
  <2>5. v \in Seq(Int) /\ Len(v) = n + 1
    BY <1>1, <2>4
  <2>6. a = v
    BY <2>1, <2>2, <2>5, SeqEqual
  <2> QED
    BY <2>6 DEF a
<1>10. Total(v) = Total(u) + Given(r, desc)
  BY <1>6, <1>8, <1>9, TotalAppend
<1> QED
  BY <1>3, <1>4, <1>10 DEF more

-----------------------------------------------------------------------------
(* What the sums need to know of the state: every counter is a finite      *)
(* table of numbers, whichever calls come between.                         *)
StatsType ==
    /\ installed \in Seq(Rules) /\ todo \in Seq(Rules)
    /\ table \in [Rules -> [Workers -> Slots(Keys)]]
    /\ missed \in [Rules -> [Workers -> Nat]]
    /\ raw \in Seq(Descriptors)
    /\ seen \in [Rules -> Int] /\ handed \in [Rules -> Int] /\ gone \in [Rules -> Int]

StatsInv == StatsType /\ CountsConserved

(* All the terms of the balance are numbers.                               *)
LEMMA Numbers ==
    ASSUME StatsType, NEW r \in Rules
    PROVE  /\ Tabled(r) = Held(table[r]) /\ Tabled(r) \in Int
           /\ InDescriptors(r, raw) \in Int
           /\ seen[r] \in Int /\ handed[r] \in Int /\ gone[r] \in Int
<1>1. table[r] \in [Workers -> Slots(Keys)]
  BY DEF StatsType
<1>2. Tabled(r) = Held(table[r])
  BY DEF Tabled, Held
<1>3. Held(table[r]) \in Int
  BY <1>1, HeldFacts
<1>4. InDescriptors(r, raw) \in Int
  BY InDescriptorsFacts DEF StatsType
<1> QED
  BY <1>2, <1>3, <1>4 DEF StatsType

(* At the start nothing has been counted.                                  *)
LEMMA Initially == Init => StatsInv
<1> SUFFICES ASSUME Init PROVE StatsInv
  OBVIOUS
<1>1. StatsType
  <2>1. table \in [Rules -> [Workers -> Slots(Keys)]]
    BY HeldNone DEF Init
  <2>2. missed \in [Rules -> [Workers -> Nat]]
    BY DEF Init, Nothing
  <2> QED
    BY <2>1, <2>2 DEF Init, StatsType
<1>2. ASSUME NEW r \in Rules
      PROVE  seen[r] = Tabled(r) + InDescriptors(r, raw) + handed[r] + gone[r]
  <2>1. Tabled(r) = 0
    <3>1. Tabled(r) = Held(table[r])
      BY <1>1, Numbers
    <3>2. table[r] = EmptyTables
      BY DEF Init
    <3> QED
      BY <3>1, <3>2, HeldNone
  <2>2. InDescriptors(r, raw) = 0
    BY InNoDescriptors DEF Init
  <2>3. seen[r] = 0 /\ handed[r] = 0 /\ gone[r] = 0
    BY DEF Init
  <2> QED
    BY <2>1, <2>2, <2>3
<1> QED
  BY <1>1, <1>2 DEF StatsInv, CountsConserved

(* Swapping out a rule's tables empties its counters and touches no other. *)
LEMMA SwappedFacts ==
    ASSUME StatsType, NEW r \in Rules,
           table' = [table EXCEPT ![r] = EmptyTables],
           missed' = [missed EXCEPT ![r] = Nothing]
    PROVE  /\ table' \in [Rules -> [Workers -> Slots(Keys)]]
           /\ missed' \in [Rules -> [Workers -> Nat]]
           /\ Tabled(r)' = 0
           /\ \A q \in Rules : q # r => Tabled(q)' = Tabled(q)
<1>1. table' \in [Rules -> [Workers -> Slots(Keys)]]
  BY HeldNone DEF StatsType
<1>2. Nothing \in [Workers -> Nat]
  BY DEF Nothing
<1>3. missed' \in [Rules -> [Workers -> Nat]]
  BY <1>2 DEF StatsType
<1>4. table'[r] = EmptyTables /\ \A q \in Rules : q # r => table'[q] = table[q]
  BY DEF StatsType
<1>5. ASSUME NEW q \in Rules
      PROVE  Tabled(q) = Held(table[q]) /\ Tabled(q)' = Held(table'[q])
  BY DEF Tabled, Held
<1>6. Tabled(r)' = 0
  BY <1>4, <1>5, HeldNone
<1>7. \A q \in Rules : q # r => Tabled(q)' = Tabled(q)
  BY <1>4, <1>5
<1> QED
  BY <1>1, <1>3, <1>6, <1>7

(* A step that leaves the counters and the snapshot alone.                 *)
LEMMA Unmoved ==
    ASSUME StatsInv, UNCHANGED <<table, raw, seen, handed, gone>>
    PROVE  CountsConserved'
<1>1. \A r \in Rules : Tabled(r)' = Tabled(r) /\ InDescriptors(r, raw)' = InDescriptors(r, raw)
  BY DEF Tabled
<1> QED
  BY <1>1 DEF StatsInv, CountsConserved

(* A packet counted is in one table, of its rule and its worker.           *)
LEMMA CountConserves ==
    ASSUME StatsInv, NEW r \in Rules, NEW w \in Workers, NEW k \in Keys, Count(r, w, k)
    PROVE  StatsInv'
<1> DEFINE t == table[r]
           g == [t EXCEPT ![w] = Added(t[w], k, 1)]
<1>1. StatsType /\ CountsConserved
  BY DEF StatsInv
<1>2. /\ table' = [table EXCEPT ![r][w] = Added(@, k, 1)]
      /\ seen' = [seen EXCEPT ![r] = @ + 1]
      /\ UNCHANGED <<installed, missed, todo, raw, handed, gone>>
  BY DEF Count
<1>3. table \in [Rules -> [Workers -> Slots(Keys)]] /\ t \in [Workers -> Slots(Keys)]
  BY <1>1 DEF StatsType
<1>4. table' = [table EXCEPT ![r] = g]
  BY <1>2, <1>3
<1> HIDE DEF t
<1>5. g \in [Workers -> Slots(Keys)] /\ Held(g) = Held(t) + 1
  BY <1>3, HeldCounted
<1>6. t = table[r]
  BY DEF t
<1> HIDE DEF g
<1>7. /\ table' \in [Rules -> [Workers -> Slots(Keys)]]
      /\ table'[r] = g /\ \A q \in Rules : q # r => table'[q] = table[q]
  BY <1>3, <1>4, <1>5
<1>8. /\ seen' \in [Rules -> Int] /\ seen'[r] = seen[r] + 1
      /\ \A q \in Rules : q # r => seen'[q] = seen[q]
  <2>1. seen \in [Rules -> Int] /\ seen[r] \in Int
    BY <1>1 DEF StatsType
  <2> QED
    BY <1>2, <2>1
<1>9. StatsType'
  BY <1>1, <1>2, <1>7, <1>8 DEF StatsType
<1>10. ASSUME NEW q \in Rules
       PROVE  seen'[q] = Tabled(q)' + InDescriptors(q, raw)' + handed'[q] + gone'[q]
  <2>1. /\ Tabled(q) = Held(table[q]) /\ Tabled(q) \in Int /\ InDescriptors(q, raw) \in Int
        /\ seen[q] \in Int /\ handed[q] \in Int /\ gone[q] \in Int
    BY <1>1, Numbers
  <2>2. seen[q] = Tabled(q) + InDescriptors(q, raw) + handed[q] + gone[q]
    BY <1>1 DEF CountsConserved
  <2>3. Tabled(q)' = Held(table'[q])
    BY DEF Tabled, Held
  <2>4. InDescriptors(q, raw)' = InDescriptors(q, raw) /\ handed' = handed /\ gone' = gone
    BY <1>2
  <2>5. CASE q = r
    <3>1. Tabled(q)' = Tabled(q) + 1
      BY <1>5, <1>6, <1>7, <2>1, <2>3, <2>5
    <3>2. seen'[q] = seen[q] + 1
      BY <1>8, <2>5
    <3> QED
      BY <2>1, <2>2, <2>4, <3>1, <3>2
  <2>6. CASE q # r
    <3>1. Tabled(q)' = Tabled(q) /\ seen'[q] = seen[q]
      BY <1>7, <1>8, <2>1, <2>3, <2>6
    <3> QED
      BY <2>2, <2>4, <3>1
  <2> QED
    BY <2>5, <2>6
<1> QED
  BY <1>9, <1>10 DEF StatsInv, CountsConserved

(* A packet whose key finds no room is not counted.                        *)
LEMMA MissConserves ==
    ASSUME StatsInv, NEW r \in Rules, NEW w \in Workers, Miss(r, w)
    PROVE  StatsInv'
<1>1. StatsType
  BY DEF StatsInv
<1>2. /\ missed' = [missed EXCEPT ![r][w] = @ + 1]
      /\ UNCHANGED <<installed, table, todo, raw, seen, handed, gone>>
  BY DEF Miss
<1>3. missed' \in [Rules -> [Workers -> Nat]]
  <2>1. missed \in [Rules -> [Workers -> Nat]] /\ missed[r][w] \in Nat
    BY <1>1 DEF StatsType
  <2> QED
    BY <1>2, <2>1
<1>4. StatsType'
  BY <1>1, <1>2, <1>3 DEF StatsType
<1>5. CountsConserved'
  BY <1>2, Unmoved
<1> QED
  BY <1>4, <1>5 DEF StatsInv

(* A new rule begins with empty tables.                                    *)
LEMMA AddRuleConserves ==
    ASSUME StatsInv, NEW r \in Rules, AddRule(r)
    PROVE  StatsInv'
<1>1. StatsType
  BY DEF StatsInv
<1>2. /\ installed' = Append(installed, r)
      /\ UNCHANGED <<table, missed, todo, raw, seen, handed, gone>>
  BY DEF AddRule, counters
<1>3. installed' \in Seq(Rules)
  BY <1>1, <1>2 DEF StatsType
<1>4. StatsType'
  BY <1>1, <1>2, <1>3 DEF StatsType
<1>5. CountsConserved'
  BY <1>2, Unmoved
<1> QED
  BY <1>4, <1>5 DEF StatsInv

(* Listing the rules takes nothing.                                        *)
LEMMA ListConserves ==
    ASSUME StatsInv, List
    PROVE  StatsInv'
<1>1. StatsType
  BY DEF StatsInv
<1>2. /\ todo' = installed \/ todo' = todo
      /\ UNCHANGED <<installed, table, missed, raw, seen, handed, gone>>
  BY DEF List, counters
<1>3. StatsType'
  BY <1>1, <1>2 DEF StatsType
<1>4. CountsConserved'
  BY <1>2, Unmoved
<1> QED
  BY <1>3, <1>4 DEF StatsInv

(* The rule's packets leave the tables and are booked as gone.             *)
LEMMA GoneConserves ==
    ASSUME StatsInv, NEW r \in Rules,
           table' = [table EXCEPT ![r] = EmptyTables],
           missed' = [missed EXCEPT ![r] = Nothing],
           gone' = [gone EXCEPT ![r] = @ + Tabled(r)],
           installed' \in Seq(Rules), todo' \in Seq(Rules),
           UNCHANGED <<raw, seen, handed>>
    PROVE  StatsInv'
<1>1. StatsType /\ CountsConserved
  BY DEF StatsInv
<1>2. /\ table' \in [Rules -> [Workers -> Slots(Keys)]]
      /\ missed' \in [Rules -> [Workers -> Nat]]
      /\ Tabled(r)' = 0
      /\ \A q \in Rules : q # r => Tabled(q)' = Tabled(q)
  BY <1>1, SwappedFacts
<1>3. /\ gone' \in [Rules -> Int] /\ gone'[r] = gone[r] + Tabled(r)
      /\ \A q \in Rules : q # r => gone'[q] = gone[q]
  <2>1. gone \in [Rules -> Int] /\ Tabled(r) \in Int /\ gone[r] \in Int
    BY <1>1, Numbers DEF StatsType
  <2> QED
    BY <2>1
<1>4. StatsType'
  BY <1>1, <1>2, <1>3 DEF StatsType
<1>5. ASSUME NEW q \in Rules
      PROVE  seen'[q] = Tabled(q)' + InDescriptors(q, raw)' + handed'[q] + gone'[q]
  <2>1. /\ Tabled(q) \in Int /\ InDescriptors(q, raw) \in Int
        /\ seen[q] \in Int /\ handed[q] \in Int /\ gone[q] \in Int
    BY <1>1, Numbers
  <2>2. seen[q] = Tabled(q) + InDescriptors(q, raw) + handed[q] + gone[q]
    BY <1>1 DEF CountsConserved
  <2>3. InDescriptors(q, raw)' = InDescriptors(q, raw) /\ handed' = handed /\ seen' = seen
    OBVIOUS
  <2>4. CASE q = r
    <3>1. Tabled(q)' = 0 /\ gone'[q] = gone[q] + Tabled(q)
      BY <1>2, <1>3, <2>4
    <3> QED
      BY <2>1, <2>2, <2>3, <3>1
  <2>5. CASE q # r
    <3>1. Tabled(q)' = Tabled(q) /\ gone'[q] = gone[q]
      BY <1>2, <1>3, <2>5
    <3> QED
      BY <2>2, <2>3, <3>1
  <2> QED
    BY <2>4, <2>5
<1> QED
  BY <1>4, <1>5 DEF StatsInv, CountsConserved

(* A rule that is removed takes its packets with it.                       *)
LEMMA RemoveRuleConserves ==
    ASSUME StatsInv, NEW r \in Rules, RemoveRule(r)
    PROVE  StatsInv'
<1>1. installed \in Seq(Rules) /\ todo \in Seq(Rules)
  BY DEF StatsInv, StatsType
<1>2. PICK i \in DOMAIN installed : installed' = RemoveAt(installed, i)
  BY DEF RemoveRule
<1>3. i \in 1..Len(installed)
  BY <1>1
<1>4. installed' \in Seq(Rules)
  BY <1>1, <1>2, <1>3, RemoveAtFacts
<1>5. /\ table' = [table EXCEPT ![r] = EmptyTables]
      /\ missed' = [missed EXCEPT ![r] = Nothing]
      /\ gone' = [gone EXCEPT ![r] = @ + Tabled(r)]
      /\ UNCHANGED <<todo, raw, seen, handed>>
  BY DEF RemoveRule
<1> QED
  BY <1>1, <1>4, <1>5, GoneConserves

(* The packets of a descriptor that joins the snapshot, if it has a rule's *)
(* packets, are the ones its tables held.                                  *)
LEMMA JoinConserves ==
    ASSUME StatsInv, NEW r \in Rules, NEW slots \in Slots(RawKeys), NEW drops \in Int,
           Sum(slots) = Tabled(r) - Tabled(r)', Tabled(r)' \in Int,
           raw' = Append(raw, Descriptor(r, slots, drops)),
           \A q \in Rules : q # r => Tabled(q)' = Tabled(q),
           UNCHANGED <<seen, handed, gone>>
    PROVE  raw' \in Seq(Descriptors) /\ CountsConserved'
<1> DEFINE desc == Descriptor(r, slots, drops)
<1>1. StatsType /\ CountsConserved
  BY DEF StatsInv
<1>2. raw \in Seq(Descriptors)
  BY <1>1 DEF StatsType
<1>3. desc \in Descriptors /\ desc.rule = r /\ desc.slots = slots
  BY DEF Descriptor, Descriptors
<1> HIDE DEF desc
<1>4. raw' \in Seq(Descriptors)
  BY <1>2, <1>3 DEF desc
<1>5. ASSUME NEW q \in Rules
      PROVE  seen'[q] = Tabled(q)' + InDescriptors(q, raw)' + handed'[q] + gone'[q]
  <2>1. /\ Tabled(q) \in Int /\ InDescriptors(q, raw) \in Int
        /\ seen[q] \in Int /\ handed[q] \in Int /\ gone[q] \in Int
    BY <1>1, Numbers
  <2>2. seen[q] = Tabled(q) + InDescriptors(q, raw) + handed[q] + gone[q]
    BY <1>1 DEF CountsConserved
  <2>3. InDescriptors(q, Append(raw, desc)) = InDescriptors(q, raw) + Given(q, desc)
    BY <1>2, <1>3, InAppended
  <2>4. InDescriptors(q, raw)' = InDescriptors(q, Append(raw, desc))
    BY DEF desc
  <2>5. handed' = handed /\ seen' = seen /\ gone' = gone
    OBVIOUS
  <2>6. CASE q = r
    <3>1. Given(q, desc) = Tabled(q) - Tabled(q)' /\ Tabled(q)' \in Int
      BY <1>3, <2>6 DEF Given
    <3> QED
      BY <2>1, <2>2, <2>3, <2>4, <2>5, <3>1
  <2>7. CASE q # r
    <3>1. Given(q, desc) = 0 /\ Tabled(q)' = Tabled(q)
      BY <1>3, <2>7 DEF Given
    <3> QED
      BY <2>1, <2>2, <2>3, <2>4, <2>5, <3>1
  <2> QED
    BY <2>6, <2>7
<1> QED
  BY <1>4, <1>5 DEF CountsConserved

(* The next rule to ask for.                                               *)
LEMMA NextOfTodo ==
    ASSUME StatsType, todo # << >>
    PROVE  Head(todo) \in Rules /\ Tail(todo) \in Seq(Rules)
BY DEF StatsType

(* The drops of a rule are a number.                                       *)
LEMMA MissedFacts ==
    ASSUME StatsType, NEW r \in Rules
    PROVE  Total(missed[r]) \in Int
<1>1. missed[r] \in [Workers -> Nat] /\ WORKERS \in Nat /\ Workers = 1..WORKERS
  BY DEF StatsType, Workers
<1>2. missed[r] \in Seq(Int)
  BY <1>1
<1> QED
  BY <1>2, TotalType

(* A table with keys of rules is one of the keys a dump may carry.         *)
LEMMA MoreKeys == Slots(Keys) \subseteq Slots(RawKeys)
<1> SUFFICES ASSUME NEW t \in Slots(Keys) PROVE t \in Slots(RawKeys)
  OBVIOUS
<1>1. DOMAIN t \subseteq Keys /\ IsFiniteSet(DOMAIN t) /\ t \in [DOMAIN t -> Nat]
  BY SlotsFacts
<1>2. DOMAIN t \in {S \in SUBSET RawKeys : IsFiniteSet(S)}
  BY <1>1 DEF RawKeys
<1> QED
  BY <1>1, <1>2 DEF Slots

(* A dump moves what the tables held to the snapshot; a dump without       *)
(* entries was one of tables without packets.                              *)
LEMMA DeliveredConserves ==
    ASSUME StatsInv, Delivered
    PROVE  StatsInv'
<1>0. PICK r \in Rules : r = Head(todo)
  <2>1. Head(todo) \in Rules
    BY NextOfTodo DEF StatsInv, Delivered
  <2> QED
    BY <2>1
<1> DEFINE slots == Merge(Entries(r))
<1>1. StatsType /\ CountsConserved /\ todo # << >>
  BY DEF StatsInv, Delivered
<1>2. r \in Rules /\ Tail(todo) \in Seq(Rules)
  BY <1>1, NextOfTodo
<1>3. /\ table' = [table EXCEPT ![r] = EmptyTables]
      /\ missed' = [missed EXCEPT ![r] = Nothing]
      /\ todo' = Tail(todo) /\ UNCHANGED <<installed, seen, handed, gone>>
      /\ raw' = IF Entries(r) = << >> THEN raw
                ELSE Append(raw, Descriptor(r, slots, Total(missed[r])))
  BY <1>0 DEF Delivered, Swapped
<1> HIDE DEF slots
<1>4. /\ table' \in [Rules -> [Workers -> Slots(Keys)]]
      /\ missed' \in [Rules -> [Workers -> Nat]]
      /\ Tabled(r)' = 0
      /\ \A q \in Rules : q # r => Tabled(q)' = Tabled(q)
  BY <1>1, <1>2, <1>3, SwappedFacts
<1>5. /\ Entries(r) \in Seq(Message(Keys)) /\ Tabled(r) \in Int
      /\ Total(Measured(Packets(Keys), Entries(r))) = Tabled(r)
  <2>1. table[r] \in [Workers -> Slots(Keys)]
    BY <1>1, <1>2 DEF StatsType
  <2> QED
    BY <2>1, EntriesFacts
<1>6. CASE Entries(r) = << >>
  <2>1. raw' = raw
    BY <1>3, <1>6
  <2>2. Tabled(r) = 0
    <3>1. Measured(Packets(Keys), << >>) = << >>
      BY DEF Measured
    <3> QED
      BY <1>5, <1>6, <3>1, TotalEmpty
  <2>3. StatsType'
    BY <1>1, <1>2, <1>3, <1>4, <2>1 DEF StatsType
  <2>4. \A q \in Rules : Tabled(q)' = Tabled(q)
    BY <1>4, <2>2
  <2>5. \A q \in Rules : InDescriptors(q, raw)' = InDescriptors(q, raw)
    BY <2>1
  <2>6. CountsConserved'
    BY <1>1, <1>3, <2>4, <2>5 DEF CountsConserved
  <2> QED
    BY <2>3, <2>6 DEF StatsInv
<1>7. CASE Entries(r) # << >>
  <2>1. raw' = Append(raw, Descriptor(r, slots, Total(missed[r])))
    BY <1>3, <1>7
  <2>2. slots \in Slots(Keys) /\ Sum(slots) = Tabled(r)
    BY <1>5, MergeFacts DEF slots
  <2>3. slots \in Slots(RawKeys) /\ Total(missed[r]) \in Int
    BY <1>1, <1>2, <2>2, MoreKeys, MissedFacts
  <2>4. Sum(slots) = Tabled(r) - Tabled(r)' /\ Tabled(r)' \in Int
    BY <1>4, <1>5, <2>2
  <2>5. raw' \in Seq(Descriptors) /\ CountsConserved'
    BY <1>2, <1>3, <1>4, <2>1, <2>3, <2>4, JoinConserves
  <2>6. StatsType'
    BY <1>1, <1>2, <1>3, <1>4, <2>5 DEF StatsType
  <2> QED
    BY <2>5, <2>6 DEF StatsInv
<1> QED
  BY <1>6, <1>7

(* A refused dump adds a descriptor without packets.                       *)
LEMMA RefusedConserves ==
    ASSUME StatsInv, Refused
    PROVE  StatsInv'
<1>0. PICK r \in Rules : r = Head(todo)
  <2>1. Head(todo) \in Rules
    BY NextOfTodo DEF StatsInv, Refused
  <2> QED
    BY <2>1
<1> DEFINE zero == [key |-> << >>, packets |-> 0]
           entries == <<zero>>
           slots == Merge(entries)
<1>1. StatsType /\ CountsConserved /\ todo # << >>
  BY DEF StatsInv, Refused
<1>2. r \in Rules /\ Tail(todo) \in Seq(Rules)
  BY <1>1, NextOfTodo
<1>3. /\ todo' = Tail(todo) /\ raw' = Append(raw, Descriptor(r, slots, 0))
      /\ UNCHANGED <<installed, table, missed, seen, handed, gone>>
  BY <1>0 DEF Refused, counters
<1>4. zero \in Message(RawKeys) /\ zero.packets = 0
  BY DEF Message, RawKeys
<1> HIDE DEF zero
<1>5. entries \in Seq(Message(RawKeys))
  BY <1>4
<1>6. Measured(Packets(RawKeys), entries) = <<0>>
  <2>1. Packets(RawKeys)[zero] = 0
    BY <1>4 DEF Packets
  <2> QED
    BY <2>1 DEF Measured
<1>7. Total(<<0>>) = 0
  <2>1. <<0>> \in Seq(Int) /\ \A i \in 1..Len(<<0>>) : <<0>>[i] = 0
    OBVIOUS
  <2> QED
    BY <2>1, TotalZero
<1> HIDE DEF entries
<1>8. slots \in Slots(RawKeys) /\ Sum(slots) = 0
  BY <1>5, <1>6, <1>7, MergeFacts
<1>9. \A q \in Rules : Tabled(q)' = Tabled(q) /\ Tabled(q) \in Int
  <2>1. \A q \in Rules : Tabled(q)' = Tabled(q)
    BY <1>3 DEF Tabled
  <2> QED
    BY <1>1, <2>1, Numbers
<1> HIDE DEF slots
<1>10. Sum(slots) = Tabled(r) - Tabled(r)' /\ Tabled(r)' \in Int
  BY <1>2, <1>8, <1>9
<1>11. raw' \in Seq(Descriptors) /\ CountsConserved'
  BY <1>2, <1>3, <1>8, <1>9, <1>10, JoinConserves
<1>12. StatsType'
  BY <1>1, <1>2, <1>3, <1>11 DEF StatsType
<1> QED
  BY <1>11, <1>12 DEF StatsInv

(* A dump that fails loses what was swapped out, if anything was.          *)
LEMMA FailedConserves ==
    ASSUME StatsInv, Failed
    PROVE  StatsInv'
<1>0. PICK r \in Rules : r = Head(todo)
  <2>1. Head(todo) \in Rules
    BY NextOfTodo DEF StatsInv, Failed
  <2> QED
    BY <2>1
<1>1. StatsType /\ CountsConserved /\ todo # << >>
  BY DEF StatsInv, Failed
<1>2. r \in Rules /\ Tail(todo) \in Seq(Rules) /\ installed \in Seq(Rules)
  BY <1>1, NextOfTodo DEF StatsType
<1>3. todo' = Tail(todo) /\ UNCHANGED <<installed, raw, seen, handed>>
  BY DEF Failed
<1>4. \/ /\ table' = [table EXCEPT ![r] = EmptyTables]
         /\ missed' = [missed EXCEPT ![r] = Nothing]
         /\ gone' = [gone EXCEPT ![r] = @ + Tabled(r)]
      \/ UNCHANGED <<table, missed, gone>>
  BY <1>0 DEF Failed, Swapped, counters
<1>5. CASE /\ table' = [table EXCEPT ![r] = EmptyTables]
           /\ missed' = [missed EXCEPT ![r] = Nothing]
           /\ gone' = [gone EXCEPT ![r] = @ + Tabled(r)]
  <2>1. installed' \in Seq(Rules) /\ todo' \in Seq(Rules)
    BY <1>2, <1>3
  <2> QED
    BY <1>2, <1>3, <1>5, <2>1, GoneConserves
<1>6. CASE UNCHANGED <<table, missed, gone>>
  <2>1. StatsType'
    BY <1>1, <1>2, <1>3, <1>6 DEF StatsType
  <2>2. CountsConserved'
    BY <1>3, <1>6, Unmoved
  <2> QED
    BY <2>1, <2>2 DEF StatsInv
<1> QED
  BY <1>4, <1>5, <1>6

(* Publishing hands the packets of the snapshot over.                      *)
LEMMA PublishConserves ==
    ASSUME StatsInv, Publish
    PROVE  StatsInv'
<1>1. StatsType /\ CountsConserved
  BY DEF StatsInv
<1>2. /\ raw' = << >> /\ handed' = [r \in Rules |-> handed[r] + InDescriptors(r, raw)]
      /\ UNCHANGED <<installed, table, missed, todo, seen, gone>>
  BY DEF Publish, counters
<1>3. ASSUME NEW r \in Rules
      PROVE  /\ Tabled(r) \in Int /\ InDescriptors(r, raw) \in Int
             /\ seen[r] \in Int /\ handed[r] \in Int /\ gone[r] \in Int
  BY <1>1, Numbers
<1>4. handed' \in [Rules -> Int] /\ << >> \in Seq(Descriptors)
  BY <1>2, <1>3
<1>5. StatsType'
  BY <1>1, <1>2, <1>4 DEF StatsType
<1>6. ASSUME NEW r \in Rules
      PROVE  seen'[r] = Tabled(r)' + InDescriptors(r, raw)' + handed'[r] + gone'[r]
  <2>1. Tabled(r)' = Tabled(r)
    BY <1>2 DEF Tabled
  <2>2. InDescriptors(r, raw)' = 0
    BY <1>2, InNoDescriptors
  <2>3. handed'[r] = handed[r] + InDescriptors(r, raw)
    BY <1>2
  <2>4. seen[r] = Tabled(r) + InDescriptors(r, raw) + handed[r] + gone[r]
    BY <1>1 DEF CountsConserved
  <2>5. seen' = seen /\ gone' = gone
    BY <1>2
  <2> QED
    BY <1>3, <2>1, <2>2, <2>3, <2>4, <2>5
<1> QED
  BY <1>5, <1>6 DEF StatsInv, CountsConserved

-----------------------------------------------------------------------------
(* Every step keeps the balance.                                           *)
LEMMA StepConserves == StatsInv /\ [Next]_vars => StatsInv'
<1> SUFFICES ASSUME StatsInv, [Next]_vars PROVE StatsInv'
  OBVIOUS
<1>1. ASSUME NEW r \in Rules, NEW w \in Workers, Miss(r, w) PROVE StatsInv'
  BY <1>1, MissConserves
<1>2. ASSUME NEW r \in Rules, NEW w \in Workers, NEW k \in Keys, Count(r, w, k)
      PROVE  StatsInv'
  BY <1>2, CountConserves
<1>3. ASSUME NEW r \in Rules, AddRule(r) PROVE StatsInv'
  BY <1>3, AddRuleConserves
<1>4. ASSUME NEW r \in Rules, RemoveRule(r) PROVE StatsInv'
  BY <1>4, RemoveRuleConserves
<1>5. CASE List
  BY <1>5, ListConserves
<1>6. CASE Delivered
  BY <1>6, DeliveredConserves
<1>7. CASE Refused
  BY <1>7, RefusedConserves
<1>8. CASE Failed
  BY <1>8, FailedConserves
<1>9. CASE Publish
  BY <1>9, PublishConserves
<1>10. CASE UNCHANGED vars
  <2>1. UNCHANGED <<installed, table, missed, todo, raw, seen, handed, gone>>
    BY <1>10 DEF vars, counters
  <2>2. StatsType'
    BY <2>1 DEF StatsInv, StatsType
  <2>3. CountsConserved'
    BY <2>1, Unmoved
  <2> QED
    BY <2>2, <2>3 DEF StatsInv
<1> QED
  BY <1>1, <1>2, <1>3, <1>4, <1>5, <1>6, <1>7, <1>8, <1>9, <1>10 DEF Next

(* No packet that was counted for a rule is lost without a reason, and     *)
(* none is counted twice: not while the poller goes from rule to rule with *)
(* packets and rule changes between its calls, not when the counts of a    *)
(* key are spread over the workers (poller.rs, vapi_stats_client.rs).      *)
THEOREM CountsConservedCorrect == Spec => []CountsConserved
<1>1. StatsInv => CountsConserved
  BY DEF StatsInv
<1> QED
  BY <1>1, Initially, StepConserves, PTL DEF Spec

(* What a snapshot has of a rule it keeps until it is published: the calls *)
(* for the other rules, failed ones among them, take nothing from it.      *)
THEOREM TakenUntilPublishedCorrect == Spec => TakenUntilPublished
<1> DEFINE Kept ==
      \A r \in Rules :
        InDescriptors(r, raw') < InDescriptors(r, raw)
            => handed'[r] = handed[r] + InDescriptors(r, raw)
<1>1. ASSUME StatsInv, StatsInv', [Next]_vars PROVE [Kept]_vars
  <2>1. StatsType /\ raw \in Seq(Descriptors) /\ raw' \in Seq(Descriptors)
    BY <1>1 DEF StatsInv, StatsType
  <2>2. ASSUME NEW r \in Rules, InDescriptors(r, raw') < InDescriptors(r, raw)
        PROVE  handed'[r] = handed[r] + InDescriptors(r, raw)
    <3>1. InDescriptors(r, raw) \in Int
      BY <2>1, InDescriptorsFacts
    <3>2. raw' # raw
      BY <2>2, <3>1
    <3>3. CASE \E desc : raw' = Append(raw, desc)
      <4>1. PICK desc : raw' = Append(raw, desc)
        BY <3>3
      <4>2. desc \in Descriptors
        <5>1. /\ Len(raw) + 1 \in 1..Len(raw') /\ raw'[Len(raw) + 1] = desc
          BY <2>1, <4>1
        <5> QED
          BY <2>1, <5>1
      <4>3. InDescriptors(r, raw') = InDescriptors(r, raw) + Given(r, desc)
        BY <2>1, <4>1, <4>2, InAppended
      <4>4. Given(r, desc) \in Nat
        BY <4>2, GivenFacts
      <4> QED
        BY <2>2, <3>1, <4>3, <4>4
    <3>4. CASE Publish
      BY <3>4 DEF Publish
    <3>5. raw' = raw \/ (\E desc : raw' = Append(raw, desc)) \/ Publish
      BY <1>1 DEF Next, Miss, Count, AddRule, RemoveRule, List, Delivered, Refused,
                  Failed, vars
    <3> QED
      BY <3>2, <3>3, <3>4, <3>5
  <2> QED
    BY <2>2
<1> QED
  BY <1>1, Initially, StepConserves, PTL DEF Spec, TakenUntilPublished
=============================================================================
