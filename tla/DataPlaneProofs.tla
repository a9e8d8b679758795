-------------------------- MODULE DataPlaneProofs ---------------------------
(***************************************************************************)
(* Proofs about ApiHandler and about DataPlane, which extends it, for      *)
(* every number of workers, rules, tables, ring slots, pending frames and  *)
(* packets.                                                                *)
(*   ApiHandler: the arrays that are kept in step by hand stay in step,    *)
(* every table has one owner, and the key budget is charged exactly.       *)
(*   DataPlane: what the workers find published is what the handlers       *)
(* installed, no worker updates a destroyed table, and a retired table is  *)
(* final.                                                                  *)
(***************************************************************************)
EXTENDS DataPlane, ListLemmas, FiniteSetTheorems

(* The facts about the constants every proof below uses.                   *)
USE TablesAssumption, WorkersAssumption, RetiredAssumption, NullAssumption, IdAssumption,
    SetMaxAssumption, BudgetAssumption, DefaultAssumption, MessageAssumption, FramesAssumption

-----------------------------------------------------------------------------
(* The rule set.                                                           *)
RuleSetCorrect(set) ==
    /\ set \in [rules : Seq(Rules), used_keys : Int]
    /\ Len(set.rules) \in 0..SET_MAX
    /\ \A i \in 1..Len(set.rules) :
         /\ set.rules[i].name \in ValidNames
         /\ set.rules[i].max_keys \in 1..KEYS_BUDGET
    /\ \A i, j \in 1..Len(set.rules) : set.rules[i].name = set.rules[j].name => i = j
    /\ set.used_keys = Total(Charges(set))
    /\ set.used_keys \in 0..KEYS_BUDGET

(* A rule set without rules.                                               *)
LEMMA EmptyRuleSetCorrect == RuleSetCorrect(EmptyRuleSet)
<1>1. /\ EmptyRuleSet.rules = << >> /\ EmptyRuleSet.used_keys = 0
      /\ EmptyRuleSet \in [rules : Seq(Rules), used_keys : Int]
  BY DEF EmptyRuleSet
<1>2. Charges(EmptyRuleSet) = << >>
  BY <1>1 DEF Charges
<1> QED
  BY <1>1, <1>2, TotalEmpty DEF RuleSetCorrect

(* The charges are a sequence of as many natural numbers as rules.         *)
LEMMA ChargesType ==
    ASSUME NEW set, RuleSetCorrect(set)
    PROVE  /\ Charges(set) \in Seq(Nat) /\ Charges(set) \in Seq(Int)
           /\ Len(Charges(set)) = Len(set.rules)
           /\ \A i \in 1..Len(set.rules) : Charges(set)[i] = set.rules[i].max_keys
<1>1. set.rules \in Seq(Rules) /\ DOMAIN set.rules = 1..Len(set.rules) /\ Len(set.rules) \in Nat
  BY DEF RuleSetCorrect
<1>2. \A i \in 1..Len(set.rules) : set.rules[i].max_keys \in Nat
  BY DEF RuleSetCorrect
<1>3. Charges(set) = [i \in 1..Len(set.rules) |-> set.rules[i].max_keys]
  BY <1>1 DEF Charges
<1>4. Charges(set) \in Seq(Nat) /\ Len(Charges(set)) = Len(set.rules)
  BY <1>1, <1>2, <1>3, IsASeq, LenProperties
<1> QED
  BY <1>1, <1>2, <1>3, <1>4

(* A rule that was accepted extends the set, and its charge fits.          *)
LEMMA WithRuleCorrect ==
    ASSUME NEW set, RuleSetCorrect(set), NEW rule \in Rules, AddResult(set, rule) = "OK"
    PROVE  /\ RuleSetCorrect(WithRule(set, rule))
           /\ Len(set.rules) + 1 \in 1..SET_MAX
           /\ Len(WithRule(set, rule).rules) = Len(set.rules) + 1
           /\ WithRule(set, rule).rules[Len(set.rules) + 1] = rule
           /\ \A i \in 1..Len(set.rules) : WithRule(set, rule).rules[i] = set.rules[i]
<1> DEFINE n == Len(set.rules)
           new == WithRule(set, rule)
<1>1. /\ set.rules \in Seq(Rules) /\ n \in Nat /\ DOMAIN set.rules = 1..n
      /\ set.used_keys \in Nat
  BY DEF RuleSetCorrect
<1>2. /\ Valid(rule) /\ ~(n >= SET_MAX) /\ Positions(set, rule.name) = {}
      /\ ~(set.used_keys + rule.max_keys > KEYS_BUDGET)
  BY DEF AddResult
<1>3. rule.name \in ValidNames /\ rule.max_keys \in 1..KEYS_BUDGET
  BY <1>2 DEF Valid
<1>4. /\ new.rules = Append(set.rules, rule)
      /\ new.used_keys = set.used_keys + rule.max_keys
      /\ new = [rules |-> new.rules, used_keys |-> new.used_keys]
  BY DEF WithRule
<1>5. /\ new.rules \in Seq(Rules) /\ Len(new.rules) = n + 1 /\ new.rules[n + 1] = rule
      /\ \A i \in 1..n : new.rules[i] = set.rules[i]
  BY <1>1, <1>4
<1>6. \A i \in 1..(n + 1) : i \in 1..n \/ i = n + 1
  BY <1>1
<1>7. \A i \in 1..n : set.rules[i].name # rule.name
  BY <1>1, <1>2 DEF Positions
<1>8. Charges(new) = Append(Charges(set), rule.max_keys)
  <2>1. /\ Charges(set) \in Seq(Int) /\ Len(Charges(set)) = n
        /\ \A i \in 1..n : Charges(set)[i] = set.rules[i].max_keys
    BY ChargesType
  <2>2. Charges(new) = [i \in 1..(n + 1) |-> new.rules[i].max_keys]
    BY <1>5 DEF Charges
  <2>3. \A i \in 1..(n + 1) : new.rules[i].max_keys \in Int
    <3>1. \A i \in 1..n : set.rules[i].max_keys \in Int
      BY DEF RuleSetCorrect
    <3> QED
      BY <1>3, <1>5, <1>6, <3>1
  <2>4. Charges(new) \in Seq(Int) /\ Len(Charges(new)) = n + 1
    BY <1>1, <2>2, <2>3, IsASeq, LenProperties
  <2>5. /\ Append(Charges(set), rule.max_keys) \in Seq(Int)
        /\ Len(Append(Charges(set), rule.max_keys)) = n + 1
        /\ Append(Charges(set), rule.max_keys)[n + 1] = rule.max_keys
        /\ \A i \in 1..n : Append(Charges(set), rule.max_keys)[i] = Charges(set)[i]
    BY <1>1, <1>3, <2>1
  <2>6. \A i \in 1..(n + 1) : Charges(new)[i] = Append(Charges(set), rule.max_keys)[i]
    BY <1>5, <1>6, <2>1, <2>2, <2>5
  <2> HIDE DEF new
  <2> QED
    BY <2>4, <2>5, <2>6, SeqEqual
<1> HIDE DEF new
<1>9. new.used_keys = Total(Charges(new))
  <2>1. Charges(set) \in Seq(Int) /\ rule.max_keys \in Int
    BY <1>3, ChargesType
  <2>2. set.used_keys = Total(Charges(set))
    BY DEF RuleSetCorrect
  <2> QED
    BY <1>4, <1>8, <2>1, <2>2, TotalAppend
<1>10. new \in [rules : Seq(Rules), used_keys : Int]
  <2>1. new.used_keys \in Int
    BY <1>1, <1>3, <1>4
  <2>2. new.rules \in Seq(Rules)
    BY ONLY <1>5
  <2>3. new = [rules |-> new.rules, used_keys |-> new.used_keys]
    BY ONLY <1>4
  <2> QED
    BY ONLY <2>1, <2>2, <2>3
<1>11. /\ Len(new.rules) \in 0..SET_MAX /\ new.used_keys \in 0..KEYS_BUDGET
       /\ n + 1 \in 1..SET_MAX
  <2>1. Len(new.rules) \in 0..SET_MAX /\ n + 1 \in 1..SET_MAX
    BY <1>1, <1>2, <1>5
  <2>2. new.used_keys \in 0..KEYS_BUDGET
    BY <1>1, <1>2, <1>3, <1>4
  <2> QED
    BY <2>1, <2>2
<1> DEFINE Good(r) == r.name \in ValidNames /\ r.max_keys \in 1..KEYS_BUDGET
<1>12. \A i \in 1..(n + 1) : Good(new.rules[i])
  <2>1. Good(rule) /\ \A i \in 1..n : Good(set.rules[i])
    BY <1>3 DEF RuleSetCorrect
  <2> HIDE DEF Good
  <2> QED
    BY <1>5, <1>6, <2>1
<1>13. \A i, j \in 1..(n + 1) : new.rules[i].name = new.rules[j].name => i = j
  <2>1. \A i, j \in 1..n : set.rules[i].name = set.rules[j].name => i = j
    BY DEF RuleSetCorrect
  <2>2. ASSUME NEW i \in 1..(n + 1), NEW j \in 1..(n + 1), new.rules[i].name = new.rules[j].name
        PROVE  i = j
    <3>1. CASE i \in 1..n /\ j \in 1..n
      BY <1>5, <2>1, <2>2, <3>1
    <3>2. CASE i = n + 1 /\ j \in 1..n
      BY <1>5, <1>7, <2>2, <3>2
    <3>3. CASE i \in 1..n /\ j = n + 1
      BY <1>5, <1>7, <2>2, <3>3
    <3> QED
      BY <1>6, <3>1, <3>2, <3>3
  <2> QED
    BY <2>2
<1>14. RuleSetCorrect(new)
  BY <1>5, <1>9, <1>10, <1>11, <1>12, <1>13 DEF RuleSetCorrect
<1> QED
  BY <1>5, <1>11, <1>14 DEF new

(* A rule that is taken out leaves the others in their order and takes its *)
(* charge with it.                                                         *)
LEMMA WithoutRuleCorrect ==
    ASSUME NEW set, RuleSetCorrect(set), NEW idx \in 1..Len(set.rules)
    PROVE  /\ RuleSetCorrect(WithoutRule(set, idx))
           /\ Len(WithoutRule(set, idx).rules) = Len(set.rules) - 1
           /\ \A i \in 1..(Len(set.rules) - 1) :
                WithoutRule(set, idx).rules[i] = IF i < idx THEN set.rules[i] ELSE set.rules[i + 1]
<1> DEFINE n == Len(set.rules)
           new == WithoutRule(set, idx)
<1>1. /\ set.rules \in Seq(Rules) /\ n \in Nat /\ DOMAIN set.rules = 1..n
      /\ set.used_keys \in Nat /\ n <= SET_MAX /\ idx \in 1..n
  BY DEF RuleSetCorrect
<1>2. set.rules[idx].max_keys \in 1..KEYS_BUDGET
  BY DEF RuleSetCorrect
<1>3. /\ new.rules = RemoveAt(set.rules, idx)
      /\ new.used_keys = set.used_keys - set.rules[idx].max_keys
      /\ new = [rules |-> new.rules, used_keys |-> new.used_keys]
  BY DEF WithoutRule
<1>4. /\ new.rules \in Seq(Rules) /\ Len(new.rules) = n - 1
      /\ \A i \in 1..(n - 1) : new.rules[i] = IF i < idx THEN set.rules[i] ELSE set.rules[i + 1]
  <2> DEFINE r == RemoveAt(set.rules, idx)
  <2>1. /\ r \in Seq(Rules) /\ Len(r) = n - 1
        /\ \A i \in 1..(n - 1) : r[i] = IF i < idx THEN set.rules[i] ELSE set.rules[i + 1]
    BY <1>1, RemoveAtFacts
  <2>2. new.rules = r
    BY <1>3
  <2> HIDE DEF r, new
  <2> QED
    BY <2>1, <2>2
<1>5. \A i \in 1..(n - 1) : i \in 1..n /\ i + 1 \in 1..n
  BY <1>1
<1> HIDE DEF new
<1>6. \A i \in 1..(n - 1) : /\ new.rules[i].name \in ValidNames
                            /\ new.rules[i].max_keys \in 1..KEYS_BUDGET
  BY <1>4, <1>5 DEF RuleSetCorrect
<1>7. ASSUME NEW i \in 1..(n - 1), NEW j \in 1..(n - 1), new.rules[i].name = new.rules[j].name
      PROVE  i = j
  <2> DEFINE a == IF i < idx THEN i ELSE i + 1
             b == IF j < idx THEN j ELSE j + 1
  <2>1. a \in 1..n /\ b \in 1..n /\ new.rules[i] = set.rules[a] /\ new.rules[j] = set.rules[b]
    BY <1>4, <1>5
  <2>2. a = b
    BY <1>7, <2>1 DEF RuleSetCorrect
  <2> QED
    BY <1>1, <2>2
<1>8. Charges(new) = RemoveAt(Charges(set), idx)
  <2>1. /\ Charges(set) \in Seq(Int) /\ Len(Charges(set)) = n
        /\ \A i \in 1..n : Charges(set)[i] = set.rules[i].max_keys
    BY ChargesType
  <2>2. Charges(new) = [i \in 1..(n - 1) |-> new.rules[i].max_keys]
    BY <1>4 DEF Charges
  <2>3. \A i \in 1..(n - 1) : new.rules[i].max_keys \in Int
    BY <1>6
  <2>4. n - 1 \in Nat
    BY <1>1
  <2>5. Charges(new) \in Seq(Int) /\ Len(Charges(new)) = n - 1
    BY <2>2, <2>3, <2>4, IsASeq, LenProperties
  <2>6. /\ RemoveAt(Charges(set), idx) \in Seq(Int)
        /\ Len(RemoveAt(Charges(set), idx)) = n - 1
        /\ \A i \in 1..(n - 1) : RemoveAt(Charges(set), idx)[i]
                                  = IF i < idx THEN Charges(set)[i] ELSE Charges(set)[i + 1]
    <3> DEFINE c == Charges(set)
    <3>1. c \in Seq(Int) /\ Len(c) = n /\ idx \in 1..Len(c)
      BY <1>1, <2>1
    <3> HIDE DEF c
    <3>2. /\ RemoveAt(c, idx) \in Seq(Int) /\ Len(RemoveAt(c, idx)) = Len(c) - 1
          /\ \A i \in 1..(Len(c) - 1) : RemoveAt(c, idx)[i] = IF i < idx THEN c[i] ELSE c[i + 1]
      BY <3>1, RemoveAtFacts
    <3> QED
      BY <3>1, <3>2 DEF c
  <2>7. ASSUME NEW i \in 1..(n - 1) PROVE Charges(new)[i] = RemoveAt(Charges(set), idx)[i]
    <3>1. Charges(new)[i] = new.rules[i].max_keys
      BY <2>2
    <3>2. i \in 1..n /\ i + 1 \in 1..n
      BY <1>5
    <3>3. CASE i < idx
      <4>1. RemoveAt(Charges(set), idx)[i] = Charges(set)[i]
        BY <2>6, <3>3
      <4> QED
        BY <1>4, <2>1, <3>1, <3>2, <3>3, <4>1
    <3>4. CASE ~(i < idx)
      <4>1. RemoveAt(Charges(set), idx)[i] = Charges(set)[i + 1]
        BY <2>6, <3>4
      <4> QED
        BY <1>4, <2>1, <3>1, <3>2, <3>4, <4>1
    <3> QED
      BY <3>3, <3>4
  <2> QED
    BY <2>5, <2>6, <2>7, SeqEqual
<1>9. Total(RemoveAt(Charges(set), idx)) = set.used_keys - set.rules[idx].max_keys
  <2>1. /\ Charges(set) \in Seq(Int) /\ idx \in 1..Len(Charges(set))
        /\ Charges(set)[idx] = set.rules[idx].max_keys
    BY <1>1, ChargesType
  <2>2. set.used_keys = Total(Charges(set))
    BY DEF RuleSetCorrect
  <2>3. Total(RemoveAt(Charges(set), idx)) = Total(Charges(set)) - Charges(set)[idx]
    BY ONLY <2>1, TotalRemoveAt
  <2> QED
    BY <2>1, <2>2, <2>3
<1>10. new.used_keys = Total(Charges(new))
  BY <1>3, <1>8, <1>9
<1>11. new.used_keys \in 0..KEYS_BUDGET
  <2>1. Charges(new) \in Seq(Nat)
    <3>1. Charges(new) = [i \in 1..(n - 1) |-> new.rules[i].max_keys] /\ n - 1 \in Nat
      BY <1>1, <1>4 DEF Charges
    <3> QED
      BY <1>6, <3>1, IsASeq
  <2>2. new.used_keys \in Nat
    BY <1>10, <2>1, TotalNat
  <2>3. set.used_keys \in 0..KEYS_BUDGET
    BY DEF RuleSetCorrect
  <2>4. new.used_keys = set.used_keys - set.rules[idx].max_keys
        /\ set.rules[idx].max_keys \in Nat
    BY <1>2, <1>3
  <2> QED
    BY <2>2, <2>3, <2>4
<1>12. new \in [rules : Seq(Rules), used_keys : Int]
  BY <1>3, <1>4, <1>11
<1>13. Len(new.rules) \in 0..SET_MAX
  BY <1>1, <1>4
<1>14. RuleSetCorrect(new)
  BY <1>4, <1>6, <1>7, <1>10, <1>11, <1>12, <1>13 DEF RuleSetCorrect
<1> QED
  BY <1>4, <1>14 DEF new

-----------------------------------------------------------------------------
(* The allocator.                                                          *)
Contents == [name : ValidNames, worker : Workers, generation : Nat]
HeapType == heap \in [Tables -> Contents \cup {FREE}]

Fresh(column) ==
    /\ column \in [Workers -> Tables \ Allocated]
    /\ \A v, w \in Workers : column[v] = column[w] => v = w

(* FreshColumns gives one free table per worker, all different.            *)
LEMMA FreshColumn ==
    ASSUME FreshColumns # {}
    PROVE  Fresh(CHOOSE c \in FreshColumns : TRUE)
BY DEF FreshColumns, Fresh

(* Allocating a column fills its tables and touches no other.              *)
LEMMA AllocateFacts ==
    ASSUME HeapType, NEW column, Fresh(column), NEW name \in ValidNames, NEW generation \in Nat,
           heap' = Allocate(column, name, generation)
    PROVE  /\ HeapType'
           /\ \A w \in Workers : heap'[column[w]] = [name |-> name, worker |-> w,
                                                      generation |-> generation]
           /\ \A t \in Allocated : heap'[t] = heap[t]
           /\ \A t \in Tables : t \in Allocated' <=> t \in Allocated \/ \E w \in Workers : column[w] = t
<1>1. /\ \A w \in Workers : column[w] \in Tables \ Allocated
      /\ \A v, w \in Workers : column[v] = column[w] => v = w
  BY DEF Fresh
<1>2. ASSUME NEW w \in Workers
      PROVE  heap'[column[w]] = [name |-> name, worker |-> w, generation |-> generation]
  <2>1. (CHOOSE v \in Workers : column[v] = column[w]) = w
    BY <1>1
  <2> QED
    BY <1>1, <2>1 DEF Allocate
<1>3. \A t \in Tables : (\A w \in Workers : column[w] # t) => heap'[t] = heap[t]
  BY DEF Allocate
<1>4. \A t \in Allocated : \A w \in Workers : column[w] # t
  BY <1>1
<1>5. \A t \in Allocated : heap'[t] = heap[t]
  BY <1>3, <1>4 DEF Allocated
<1>6. \A w \in Workers : [name |-> name, worker |-> w, generation |-> generation] \in Contents
  BY DEF Contents
<1>7. ASSUME NEW t \in Tables PROVE heap'[t] \in Contents \cup {FREE}
  <2>1. CASE \E w \in Workers : column[w] = t
    <3>1. PICK w \in Workers : column[w] = t
      BY <2>1
    <3>2. heap'[t] = [name |-> name, worker |-> w, generation |-> generation]
      BY <1>2, <3>1
    <3> QED
      BY <1>6, <3>2
  <2>2. CASE \A w \in Workers : column[w] # t
    <3>1. heap'[t] = heap[t]
      BY <1>3, <2>2
    <3>2. heap[t] \in Contents \cup {FREE}
      BY DEF HeapType
    <3> QED
      BY <3>1, <3>2
  <2> QED
    BY <2>1, <2>2
<1>8. HeapType'
  <2>1. heap' = [t \in Tables |-> heap'[t]]
    BY DEF Allocate
  <2> QED
    BY <1>7, <2>1 DEF HeapType
<1>9. FREE \notin Contents
  BY DEF Contents, Workers
<1>10. \A t \in Tables : t \in Allocated' <=> t \in Allocated \/ \E w \in Workers : column[w] = t
  <2>1. \A w \in Workers : heap'[column[w]] # FREE
    BY <1>2, <1>6, <1>9
  <2>2. ASSUME NEW t \in Tables, \A w \in Workers : column[w] # t
        PROVE  t \in Allocated' <=> t \in Allocated
    BY <1>3, <2>2 DEF Allocated
  <2>3. ASSUME NEW w \in Workers PROVE column[w] \in Allocated'
    BY <1>1, <2>1 DEF Allocated
  <2> QED
    BY <2>2, <2>3
<1> QED
  BY <1>2, <1>5, <1>8, <1>10

(* Destroying a column frees its tables and touches no other.              *)
LEMMA DestroyFacts ==
    ASSUME HeapType, NEW column, heap' = Destroy(column)
    PROVE  /\ HeapType'
           /\ \A t \in Tables : (\A w \in Workers : column[w] # t) => heap'[t] = heap[t]
           /\ \A t \in Tables : t \in Allocated' <=> t \in Allocated /\ \A w \in Workers : column[w] # t
<1>1. \A t \in Tables : (\A w \in Workers : column[w] # t) => heap'[t] = heap[t]
  BY DEF Destroy
<1>2. \A t \in Tables : (\E w \in Workers : column[w] = t) => heap'[t] = FREE
  BY DEF Destroy
<1>3. HeapType'
  <2>1. heap' = [t \in Tables |-> heap'[t]]
    BY DEF Destroy
  <2> QED
    BY <1>1, <1>2, <2>1 DEF HeapType
<1> QED
  BY <1>1, <1>2, <1>3 DEF Allocated

-----------------------------------------------------------------------------
(***************************************************************************)
(* The inductive invariant of the context.  TablesFollowRules alone does   *)
(* not survive a delete: it must be known that the tables destroyed with   *)
(* one rule are no other rule's and not retired (OneOwner), and a snapshot *)
(* finds one rule only if no id occurs twice (IdsBound).                   *)
(***************************************************************************)
ArraysType ==
    /\ tables \in [Workers -> [Slot -> Tables \cup {NULL}]]
    /\ flow_rule_ids \in [Slot -> Ids \cup {ZERO_ID}]
    /\ retired \in Seq([Workers -> Tables])

OneOwner ==
    /\ \A v, w \in Workers, i, j \in 1..Count :
         tables[v][i] = tables[w][j] => v = w /\ i = j
    /\ \A v, w \in Workers, m, n \in 1..Len(retired) :
         retired[m][v] = retired[n][w] => v = w /\ m = n
    /\ \A v, w \in Workers, i \in 1..Count, n \in 1..Len(retired) :
         tables[v][i] # retired[n][w]
    /\ \A w \in Workers, n \in 1..Len(retired) : retired[n][w] \in Allocated

IdsBound ==
    /\ \A i, j \in Slot :
         flow_rule_ids[i] = flow_rule_ids[j] => i = j \/ flow_rule_ids[i] = ZERO_ID
    /\ \A i \in Slot : i > Count => flow_rule_ids[i] = ZERO_ID

CtxInv ==
    /\ RuleSetCorrect(rule_set)
    /\ HeapType
    /\ ArraysType
    /\ TablesFollowRules
    /\ OneOwner
    /\ IdsBound

(* Every allocated table is in the context or in the ring.                 *)
NoLeak ==
    \A t \in Allocated :
        \/ \E w \in Workers, i \in 1..Count : tables[w][i] = t
        \/ \E w \in Workers, n \in 1..Len(retired) : retired[n][w] = t

(* The live part of the arrays.                                            *)
LEMMA LiveFacts ==
    ASSUME CtxInv
    PROVE  /\ Count \in Nat /\ Count <= SET_MAX
           /\ \A i \in 1..Count : i \in Slot
           /\ \A w \in Workers, i \in 1..Count : /\ tables[w][i] \in Allocated
                                                 /\ tables[w][i] \in Tables
           /\ \A w \in Workers, i \in Slot : i > Count => tables[w][i] = NULL
<1>1. Count \in Nat /\ Count <= SET_MAX
  BY DEF CtxInv, RuleSetCorrect, Count
<1>2. \A i \in 1..Count : i \in Slot
  BY <1>1 DEF Slot
<1>3. \A w \in Workers, i \in 1..Count : tables[w][i] \in Allocated
  BY <1>1, <1>2 DEF CtxInv, TablesFollowRules
<1>4. \A w \in Workers, i \in Slot : i > Count => tables[w][i] = NULL
  BY <1>1 DEF CtxInv, TablesFollowRules, Slot
<1> QED
  BY <1>1, <1>2, <1>3, <1>4 DEF Allocated

(* The empty context satisfies the invariant.                              *)
LEMMA CtxInit ==
    ASSUME Init
    PROVE  CtxInv /\ NoLeak
<1>1. RuleSetCorrect(rule_set) /\ Count = 0
  BY EmptyRuleSetCorrect DEF Init, EmptyRuleSet, Count
<1>2. HeapType /\ ArraysType /\ Allocated = {} /\ Len(retired) = 0
  BY DEF Init, HeapType, ArraysType, Allocated
<1>3. TablesFollowRules
  BY <1>1 DEF Init, TablesFollowRules, Slot
<1>4. OneOwner
  BY <1>1, <1>2 DEF OneOwner
<1>5. IdsBound
  BY <1>1 DEF Init, IdsBound
<1> QED
  BY <1>1, <1>2, <1>3, <1>4, <1>5 DEF CtxInv, NoLeak
-----------------------------------------------------------------------------
(* What an add changes, element by element.                                *)
Added(column, rule, id) ==
    /\ Fresh(column)
    /\ RuleSetCorrect(rule_set') /\ Count' = Count + 1 /\ Count + 1 \in Slot
    /\ rule_set'.rules[Count + 1] = rule
    /\ \A i \in 1..Count : rule_set'.rules[i] = rule_set.rules[i]
    /\ heap' = Allocate(column, rule.name, 0)
    /\ \A w \in Workers : /\ tables'[w][Count + 1] = column[w]
                          /\ \A i \in Slot : i # Count + 1 => tables'[w][i] = tables[w][i]
    /\ tables' \in [Workers -> [Slot -> Tables \cup {NULL}]]
    /\ flow_rule_ids' = [flow_rule_ids EXCEPT ![Count + 1] = id]
    /\ retired' = retired

LEMMA AddStep ==
    ASSUME CtxInv, NEW rule \in Rules, NEW id, FlowRuleAdd(rule, id)
    PROVE  \E column : Added(column, rule, id)
<1> DEFINE column == CHOOSE c \in FreshColumns : TRUE
<1>1. /\ AddResult(rule_set, rule) = "OK" /\ FreshColumns # {}
      /\ rule_set' = WithRule(rule_set, rule)
      /\ heap' = Allocate(column, rule.name, 0)
      /\ tables' = WithColumn(Count + 1, column)
      /\ flow_rule_ids' = [flow_rule_ids EXCEPT ![Count + 1] = id]
      /\ retired' = retired
  BY DEF FlowRuleAdd
<1>2. Fresh(column)
  BY <1>1, FreshColumn
<1> HIDE DEF column
<1>3. /\ RuleSetCorrect(rule_set') /\ Count' = Count + 1 /\ Count + 1 \in Slot
      /\ rule_set'.rules[Count + 1] = rule
      /\ \A i \in 1..Count : rule_set'.rules[i] = rule_set.rules[i]
  BY <1>1, WithRuleCorrect DEF CtxInv, Count, Slot
<1>4. tables \in [Workers -> [Slot -> Tables \cup {NULL}]]
  BY DEF CtxInv, ArraysType
<1>5. \A w \in Workers : column[w] \in Tables
  BY <1>2 DEF Fresh
<1>6. \A w \in Workers : tables'[w] = [tables[w] EXCEPT ![Count + 1] = column[w]]
  BY <1>1 DEF WithColumn
<1>7. tables' \in [Workers -> [Slot -> Tables \cup {NULL}]]
  <2>1. ASSUME NEW w \in Workers PROVE tables'[w] \in [Slot -> Tables \cup {NULL}]
    <3>1. tables[w] \in [Slot -> Tables \cup {NULL}] /\ column[w] \in Tables \cup {NULL}
      BY <1>4, <1>5
    <3> QED
      BY <1>6, <3>1
  <2>2. tables' = [w \in Workers |-> tables'[w]]
    BY <1>1 DEF WithColumn
  <2> QED
    BY <2>1, <2>2
<1>8. \A w \in Workers : /\ tables'[w][Count + 1] = column[w]
                         /\ \A i \in Slot : i # Count + 1 => tables'[w][i] = tables[w][i]
  <2>1. ASSUME NEW w \in Workers
        PROVE  /\ tables'[w][Count + 1] = column[w]
               /\ \A i \in Slot : i # Count + 1 => tables'[w][i] = tables[w][i]
    <3>1. tables[w] \in [Slot -> Tables \cup {NULL}]
      BY <1>4
    <3> QED
      BY <1>3, <1>6, <3>1
  <2> QED
    BY <2>1
<1> QED
  BY <1>1, <1>2, <1>3, <1>7, <1>8 DEF Added

(* An add keeps the invariant.                                             *)
LEMMA AddKeeps ==
    ASSUME CtxInv, NEW rule \in Rules, NEW id \in UnusedIds \cup {ZERO_ID}, FlowRuleAdd(rule, id)
    PROVE  CtxInv' /\ (NoLeak => NoLeak')
<1> USE DEF Added
<1>1. PICK column : Added(column, rule, id)
  BY AddStep
<1>2. /\ Count \in Nat
      /\ \A i \in 1..Count : i \in Slot /\ i # Count + 1
      /\ \A w \in Workers, i \in 1..Count : tables[w][i] \in Allocated /\ tables[w][i] \in Tables
      /\ \A w \in Workers, i \in Slot : i > Count => tables[w][i] = NULL
  BY LiveFacts
<1>3. rule.name \in ValidNames
  BY <1>1 DEF RuleSetCorrect, Count, Slot
<1>4. /\ HeapType'
      /\ \A w \in Workers : heap'[column[w]] = [name |-> rule.name, worker |-> w, generation |-> 0]
      /\ \A t \in Allocated : heap'[t] = heap[t]
      /\ \A t \in Tables : t \in Allocated' <=> t \in Allocated \/ \E w \in Workers : column[w] = t
  BY <1>1, <1>3, AllocateFacts DEF CtxInv
<1>5. /\ \A w \in Workers : column[w] \in Tables /\ column[w] \notin Allocated
      /\ \A v, w \in Workers : column[v] = column[w] => v = w
  BY <1>1 DEF Fresh
<1>6. \A i \in 1..(Count + 1) : i \in 1..Count \/ i = Count + 1
  BY <1>2
<1>7. \A w \in Workers, i \in 1..Count : tables'[w][i] = tables[w][i]
  BY <1>1, <1>2
<1>8. ArraysType'
  <2>1. id \in Ids \cup {ZERO_ID}
    BY DEF UnusedIds
  <2> QED
    BY <1>1, <2>1 DEF CtxInv, ArraysType
<1>9. TablesFollowRules'
  <2>1. ASSUME NEW w \in Workers, NEW i \in 1..Count
        PROVE  /\ tables'[w][i] \in Allocated'
               /\ heap'[tables'[w][i]].name = rule_set'.rules[i].name
               /\ heap'[tables'[w][i]].worker = w
    <3>1. /\ heap[tables[w][i]].name = rule_set.rules[i].name
          /\ heap[tables[w][i]].worker = w
      BY <1>2 DEF CtxInv, TablesFollowRules
    <3> QED
      BY <1>1, <1>2, <1>4, <1>7, <3>1
  <2>2. ASSUME NEW w \in Workers
        PROVE  /\ tables'[w][Count + 1] \in Allocated'
               /\ heap'[tables'[w][Count + 1]].name = rule_set'.rules[Count + 1].name
               /\ heap'[tables'[w][Count + 1]].worker = w
    <3>1. tables'[w][Count + 1] = column[w] /\ rule_set'.rules[Count + 1] = rule
      BY <1>1
    <3>2. heap'[column[w]] = [name |-> rule.name, worker |-> w, generation |-> 0]
      BY <1>4
    <3>3. column[w] \in Allocated'
      BY <1>4, <1>5
    <3> QED
      BY <3>1, <3>2, <3>3
  <2>3. ASSUME NEW w \in Workers, NEW i \in Slot, ~(i <= Count + 1)
        PROVE  tables'[w][i] = NULL
    BY <1>1, <1>2, <2>3 DEF Slot
  <2>4. \A i \in Slot : i <= Count + 1 => i \in 1..Count \/ i = Count + 1
    BY <1>2 DEF Slot
  <2> QED
    BY <1>1, <2>1, <2>2, <2>3, <2>4 DEF TablesFollowRules
<1>10. \A w \in Workers, n \in 1..Len(retired) : retired[n][w] \in Allocated /\ retired[n][w] \in Tables
  BY DEF CtxInv, OneOwner, Allocated
<1>11. OneOwner'
  <2>1. ASSUME NEW v \in Workers, NEW w \in Workers, NEW i \in 1..(Count + 1), NEW j \in 1..(Count + 1),
               tables'[v][i] = tables'[w][j]
        PROVE  v = w /\ i = j
    <3>1. CASE i \in 1..Count /\ j \in 1..Count
      BY <1>7, <2>1, <3>1 DEF CtxInv, OneOwner
    <3>2. CASE i = Count + 1 /\ j \in 1..Count
      BY <1>1, <1>2, <1>5, <1>7, <2>1, <3>2
    <3>3. CASE i \in 1..Count /\ j = Count + 1
      BY <1>1, <1>2, <1>5, <1>7, <2>1, <3>3
    <3>4. CASE i = Count + 1 /\ j = Count + 1
      BY <1>1, <1>5, <2>1, <3>4
    <3> QED
      BY <1>6, <3>1, <3>2, <3>3, <3>4
  <2>2. ASSUME NEW v \in Workers, NEW w \in Workers, NEW i \in 1..(Count + 1), NEW n \in 1..Len(retired)
        PROVE  tables'[v][i] # retired[n][w]
    <3>1. CASE i \in 1..Count
      BY <1>7, <3>1 DEF CtxInv, OneOwner
    <3>2. CASE i = Count + 1
      BY <1>1, <1>5, <1>10, <3>2
    <3> QED
      BY <1>6, <3>1, <3>2
  <2>3. \A w \in Workers, n \in 1..Len(retired) : retired[n][w] \in Allocated'
    BY <1>4, <1>10
  <2>4. \A v, w \in Workers, m, n \in 1..Len(retired) : retired[m][v] = retired[n][w] => v = w /\ m = n
    BY DEF CtxInv, OneOwner
  <2> QED
    BY <1>1, <2>1, <2>2, <2>3, <2>4 DEF OneOwner
<1>12. IdsBound'
  <2>1. flow_rule_ids \in [Slot -> Ids \cup {ZERO_ID}]
    BY DEF CtxInv, ArraysType
  <2>2. /\ flow_rule_ids'[Count + 1] = id
        /\ \A i \in Slot : i # Count + 1 => flow_rule_ids'[i] = flow_rule_ids[i]
    BY <1>1, <2>1
  <2>3. \A i \in Slot : flow_rule_ids[i] = id => id = ZERO_ID
    BY DEF UnusedIds
  <2>4. \A i, j \in Slot : flow_rule_ids'[i] = flow_rule_ids'[j] => i = j \/ flow_rule_ids'[i] = ZERO_ID
    BY <1>1, <2>2, <2>3 DEF CtxInv, IdsBound
  <2>5. \A i \in Slot : i > Count + 1 => flow_rule_ids'[i] = ZERO_ID
    <3>1. \A i \in Slot : i > Count + 1 => i > Count /\ i # Count + 1
      BY <1>2 DEF Slot
    <3> QED
      BY <2>2, <3>1 DEF CtxInv, IdsBound
  <2> QED
    BY <1>1, <2>4, <2>5 DEF IdsBound
<1>13. ASSUME NoLeak PROVE NoLeak'
  <2>1. ASSUME NEW t \in Allocated'
        PROVE  \/ \E w \in Workers, i \in 1..(Count + 1) : tables'[w][i] = t
               \/ \E w \in Workers, n \in 1..Len(retired) : retired[n][w] = t
    <3>1. t \in Allocated \/ \E w \in Workers : column[w] = t
      BY <1>4 DEF Allocated
    <3>2. Count + 1 \in 1..(Count + 1) /\ \A i \in 1..Count : i \in 1..(Count + 1)
      BY <1>2
    <3>3. CASE t \in Allocated
      BY <1>7, <1>13, <3>2, <3>3 DEF NoLeak
    <3>4. CASE \E w \in Workers : column[w] = t
      BY <1>1, <3>2, <3>4
    <3> QED
      BY <3>1, <3>3, <3>4
  <2> QED
    BY <1>1, <2>1 DEF NoLeak
<1> QED
  BY <1>1, <1>4, <1>8, <1>9, <1>11, <1>12, <1>13 DEF CtxInv

-----------------------------------------------------------------------------
(* Where the entry that a delete of idx moves to place i was before.       *)
Before(i, idx) == IF i < idx THEN i ELSE i + 1

(* One array of n entries after the compaction loop.                       *)
Compacted(new, a, idx, n, blank) ==
    /\ \A i \in 1..(n - 1) : new[i] = a[Before(i, idx)]
    /\ new[n] = blank
    /\ \A i \in Slot : i > n => new[i] = a[i]

LEMMA CompactFacts ==
    ASSUME NEW S, NEW a \in [Slot -> S], NEW blank \in S,
           NEW n \in 1..SET_MAX, NEW idx \in 1..n
    PROVE  /\ Compact(a, idx, n - 1, blank) \in [Slot -> S]
           /\ Compacted(Compact(a, idx, n - 1, blank), a, idx, n, blank)
<1> DEFINE new == Compact(a, idx, n - 1, blank)
<1>1. n \in Nat /\ idx \in Nat /\ (n - 1) + 1 = n /\ n <= SET_MAX /\ SET_MAX \in Nat
  OBVIOUS
<1>2. new = [i \in Slot |-> IF i \in idx..(n - 1) THEN a[i + 1]
                            ELSE IF i = n THEN blank ELSE a[i]]
  BY <1>1 DEF Compact
<1> HIDE DEF new
<1>3. ASSUME NEW i \in Slot PROVE new[i] \in S
  <2>1. CASE i \in idx..(n - 1)
    <3>1. i + 1 \in Slot
      BY <1>1, <2>1 DEF Slot
    <3> QED
      BY <1>2, <2>1, <3>1
  <2>2. CASE i \notin idx..(n - 1)
    BY <1>2, <2>2
  <2> QED
    BY <2>1, <2>2
<1>4. new \in [Slot -> S]
  BY <1>2, <1>3
<1>5. ASSUME NEW i \in 1..(n - 1) PROVE new[i] = a[Before(i, idx)]
  <2>1. i \in Slot /\ i # n
    BY <1>1 DEF Slot
  <2>2. CASE i < idx
    BY <1>1, <1>2, <2>1, <2>2 DEF Before
  <2>3. CASE ~(i < idx)
    <3>1. i \in idx..(n - 1)
      BY <1>1, <2>3
    <3> QED
      BY <1>2, <2>1, <2>3, <3>1 DEF Before
  <2> QED
    BY <2>2, <2>3
<1>6. new[n] = blank
  <2>1. n \in Slot /\ n \notin idx..(n - 1)
    BY <1>1 DEF Slot
  <2> QED
    BY <1>2, <2>1
<1>7. ASSUME NEW i \in Slot, i > n PROVE new[i] = a[i]
  <2>1. i # n /\ i \notin idx..(n - 1)
    BY <1>1, <1>7 DEF Slot
  <2> QED
    BY <1>2, <2>1
<1> QED
  BY <1>4, <1>5, <1>6, <1>7 DEF new, Compacted

(* What a delete changes, element by element.                              *)
Deleted(idx, name) ==
    /\ rule_set.rules[idx].name = name
    /\ RuleSetCorrect(rule_set') /\ Count' = Count - 1
    /\ \A i \in 1..(Count - 1) :
         /\ Before(i, idx) \in 1..Count /\ Before(i, idx) # idx
         /\ rule_set'.rules[i] = rule_set.rules[Before(i, idx)]
         /\ flow_rule_ids'[i] = flow_rule_ids[Before(i, idx)]
         /\ \A w \in Workers : tables'[w][i] = tables[w][Before(i, idx)]
    /\ \A i \in Slot : i > Count - 1 =>
         /\ flow_rule_ids'[i] = ZERO_ID
         /\ \A w \in Workers : tables'[w][i] = NULL
    /\ heap' = Destroy(Column(idx))
    /\ retired' = retired
    /\ ArraysType'

LEMMA DelStep ==
    ASSUME CtxInv, NEW name, FlowRuleDel(name)
    PROVE  \E idx \in 1..Count : Deleted(idx, name)
<1>1. PICK idx \in Positions(rule_set, name) :
        /\ rule_set' = WithoutRule(rule_set, idx)
        /\ heap' = Destroy(Column(idx))
        /\ tables' = [w \in Workers |-> Compact(tables[w], idx, Count - 1, NULL)]
        /\ flow_rule_ids' = Compact(flow_rule_ids, idx, Count - 1, ZERO_ID)
        /\ retired' = retired
  BY DEF FlowRuleDel
<1>2. /\ Count \in Nat /\ Count <= SET_MAX
      /\ \A i \in 1..Count : i \in Slot
      /\ \A w \in Workers, i \in Slot : i > Count => tables[w][i] = NULL
  BY LiveFacts
<1>3. idx \in 1..Count /\ rule_set.rules[idx].name = name
  BY <1>1 DEF Positions, CtxInv, RuleSetCorrect, Count
<1>4. Count \in 1..SET_MAX /\ Count - 1 \in Nat
  BY <1>2, <1>3
<1>5. \A i \in 1..(Count - 1) : Before(i, idx) \in 1..Count /\ Before(i, idx) # idx
  BY <1>2, <1>3 DEF Before
<1>6. /\ RuleSetCorrect(rule_set') /\ Count' = Count - 1
      /\ \A i \in 1..(Count - 1) : rule_set'.rules[i] = rule_set.rules[Before(i, idx)]
  BY <1>1, <1>3, WithoutRuleCorrect DEF CtxInv, Count, Before
<1>7. /\ flow_rule_ids' \in [Slot -> Ids \cup {ZERO_ID}]
      /\ \A i \in 1..(Count - 1) : flow_rule_ids'[i] = flow_rule_ids[Before(i, idx)]
      /\ flow_rule_ids'[Count] = ZERO_ID
      /\ \A i \in Slot : i > Count => flow_rule_ids'[i] = flow_rule_ids[i]
  <2> DEFINE S == Ids \cup {ZERO_ID}
  <2>1. flow_rule_ids \in [Slot -> S] /\ ZERO_ID \in S
    BY DEF CtxInv, ArraysType
  <2> HIDE DEF S
  <2>2. /\ Compact(flow_rule_ids, idx, Count - 1, ZERO_ID) \in [Slot -> S]
        /\ Compacted(Compact(flow_rule_ids, idx, Count - 1, ZERO_ID),
                     flow_rule_ids, idx, Count, ZERO_ID)
    BY <1>3, <1>4, <2>1, CompactFacts
  <2> QED
    BY <1>1, <2>2 DEF S, Compacted
<1>8. ASSUME NEW w \in Workers
      PROVE  /\ tables'[w] \in [Slot -> Tables \cup {NULL}]
             /\ \A i \in 1..(Count - 1) : tables'[w][i] = tables[w][Before(i, idx)]
             /\ tables'[w][Count] = NULL
             /\ \A i \in Slot : i > Count => tables'[w][i] = tables[w][i]
  <2> DEFINE S == Tables \cup {NULL}
             a == tables[w]
  <2>1. a \in [Slot -> S] /\ NULL \in S
    BY DEF CtxInv, ArraysType
  <2>2. tables'[w] = Compact(a, idx, Count - 1, NULL)
    BY <1>1
  <2> HIDE DEF S, a
  <2>3. /\ Compact(a, idx, Count - 1, NULL) \in [Slot -> S]
        /\ Compacted(Compact(a, idx, Count - 1, NULL), a, idx, Count, NULL)
    BY <1>3, <1>4, <2>1, CompactFacts
  <2> QED
    BY <2>2, <2>3 DEF S, a, Compacted
<1>9. ASSUME NEW i \in Slot, i > Count - 1
      PROVE  flow_rule_ids'[i] = ZERO_ID /\ \A w \in Workers : tables'[w][i] = NULL
  <2>1. i = Count \/ i > Count
    BY <1>4, <1>9 DEF Slot
  <2>2. CASE i = Count
    BY <1>7, <1>8, <2>2
  <2>3. CASE i > Count
    BY <1>2, <1>7, <1>8, <2>3 DEF CtxInv, IdsBound
  <2> QED
    BY <2>1, <2>2, <2>3
<1>10. ArraysType'
  <2>1. tables' = [w \in Workers |-> tables'[w]]
    BY <1>1
  <2>2. tables' \in [Workers -> [Slot -> Tables \cup {NULL}]]
    BY <1>8, <2>1
  <2> QED
    BY <1>1, <1>7, <2>2 DEF CtxInv, ArraysType
<1> QED
  BY <1>1, <1>3, <1>5, <1>6, <1>7, <1>8, <1>9, <1>10 DEF Deleted

(* A delete keeps the invariant.                                           *)
LEMMA DelKeeps ==
    ASSUME CtxInv, NEW name, FlowRuleDel(name)
    PROVE  CtxInv' /\ (NoLeak => NoLeak')
<1> USE DEF Deleted
<1>1. PICK idx \in 1..Count : Deleted(idx, name)
  BY DelStep
<1>2. /\ Count \in Nat
      /\ \A i \in 1..Count : i \in Slot
      /\ \A w \in Workers, i \in 1..Count : tables[w][i] \in Allocated /\ tables[w][i] \in Tables
  BY LiveFacts
<1>3. \A w \in Workers : Column(idx)[w] = tables[w][idx]
  BY DEF Column
<1>4. /\ HeapType'
      /\ \A t \in Tables : (\A w \in Workers : tables[w][idx] # t) => heap'[t] = heap[t]
      /\ \A t \in Tables : t \in Allocated' <=> t \in Allocated /\ \A w \in Workers : tables[w][idx] # t
  BY <1>1, <1>3, DestroyFacts DEF CtxInv
<1>5. ASSUME NEW w \in Workers, NEW i \in 1..Count, i # idx
      PROVE  /\ tables[w][i] \in Allocated' /\ heap'[tables[w][i]] = heap[tables[w][i]]
  <2>1. \A v \in Workers : tables[v][idx] # tables[w][i]
    BY <1>5 DEF CtxInv, OneOwner
  <2> QED
    BY <1>2, <1>4, <2>1
<1>6. TablesFollowRules'
  <2>1. ASSUME NEW w \in Workers, NEW i \in 1..(Count - 1)
        PROVE  /\ tables'[w][i] \in Allocated'
               /\ heap'[tables'[w][i]].name = rule_set'.rules[i].name
               /\ heap'[tables'[w][i]].worker = w
    <3>1. Before(i, idx) \in 1..Count /\ Before(i, idx) # idx
      BY <1>1
    <3>2. /\ heap[tables[w][Before(i, idx)]].name = rule_set.rules[Before(i, idx)].name
          /\ heap[tables[w][Before(i, idx)]].worker = w
      BY <1>2, <3>1 DEF CtxInv, TablesFollowRules
    <3>3. /\ tables[w][Before(i, idx)] \in Allocated'
          /\ heap'[tables[w][Before(i, idx)]] = heap[tables[w][Before(i, idx)]]
      BY <1>5, <3>1
    <3>4. /\ tables'[w][i] = tables[w][Before(i, idx)]
          /\ rule_set'.rules[i] = rule_set.rules[Before(i, idx)]
      BY <1>1
    <3> QED
      BY <3>2, <3>3, <3>4
  <2>2. \A i \in Slot : IF i <= Count - 1 THEN i \in 1..(Count - 1) ELSE i > Count - 1
    BY <1>2 DEF Slot
  <2> QED
    BY <1>1, <2>1, <2>2 DEF TablesFollowRules
<1>7. \A i, j \in 1..(Count - 1) : Before(i, idx) = Before(j, idx) => i = j
  BY <1>2 DEF Before
<1>8. OneOwner'
  <2>1. ASSUME NEW v \in Workers, NEW w \in Workers, NEW i \in 1..(Count - 1), NEW j \in 1..(Count - 1),
               tables'[v][i] = tables'[w][j]
        PROVE  v = w /\ i = j
    <3>1. tables[v][Before(i, idx)] = tables[w][Before(j, idx)]
      BY <1>1, <2>1
    <3>2. Before(i, idx) \in 1..Count /\ Before(j, idx) \in 1..Count
      BY <1>1
    <3>3. v = w /\ Before(i, idx) = Before(j, idx)
      BY <3>1, <3>2 DEF CtxInv, OneOwner
    <3> QED
      BY <1>7, <3>3
  <2>2. ASSUME NEW v \in Workers, NEW w \in Workers, NEW i \in 1..(Count - 1), NEW n \in 1..Len(retired)
        PROVE  tables'[v][i] # retired[n][w]
    BY <1>1 DEF CtxInv, OneOwner
  <2>3. ASSUME NEW w \in Workers, NEW n \in 1..Len(retired)
        PROVE  retired[n][w] \in Allocated'
    <3>1. retired[n][w] \in Allocated /\ retired[n][w] \in Tables
      BY DEF CtxInv, OneOwner, Allocated
    <3>2. \A v \in Workers : tables[v][idx] # retired[n][w]
      BY DEF CtxInv, OneOwner
    <3> QED
      BY <1>4, <3>1, <3>2
  <2>4. \A v, w \in Workers, m, n \in 1..Len(retired) : retired[m][v] = retired[n][w] => v = w /\ m = n
    BY DEF CtxInv, OneOwner
  <2> QED
    BY <1>1, <2>1, <2>2, <2>3, <2>4 DEF OneOwner
<1>9. IdsBound'
  <2>1. ASSUME NEW i \in Slot, NEW j \in Slot, flow_rule_ids'[i] = flow_rule_ids'[j],
               flow_rule_ids'[i] # ZERO_ID
        PROVE  i = j
    <3>1. i \in 1..(Count - 1) /\ j \in 1..(Count - 1)
      BY <1>1, <1>2, <2>1 DEF Slot
    <3>2. flow_rule_ids[Before(i, idx)] = flow_rule_ids[Before(j, idx)]
      BY <1>1, <2>1, <3>1
    <3>3. /\ Before(i, idx) \in Slot /\ Before(j, idx) \in Slot
          /\ flow_rule_ids[Before(i, idx)] # ZERO_ID
      BY <1>1, <1>2, <2>1, <3>1
    <3>4. Before(i, idx) = Before(j, idx)
      BY <3>2, <3>3 DEF CtxInv, IdsBound
    <3> QED
      BY <1>7, <3>1, <3>4
  <2> QED
    BY <1>1, <2>1 DEF IdsBound
<1>10. ASSUME NoLeak PROVE NoLeak'
  <2>1. ASSUME NEW t \in Allocated'
        PROVE  \/ \E w \in Workers, i \in 1..(Count - 1) : tables'[w][i] = t
               \/ \E w \in Workers, n \in 1..Len(retired) : retired[n][w] = t
    <3>1. t \in Allocated /\ \A w \in Workers : tables[w][idx] # t
      BY <1>4 DEF Allocated
    <3>2. ASSUME NEW w \in Workers, NEW i \in 1..Count, tables[w][i] = t
          PROVE  \E j \in 1..(Count - 1) : tables'[w][j] = t
      <4>1. i # idx
        BY <3>1, <3>2
      <4>2. CASE i < idx
        <5>1. i \in 1..(Count - 1) /\ Before(i, idx) = i
          BY <1>2, <4>2 DEF Before
        <5> QED
          BY <1>1, <3>2, <5>1
      <4>3. CASE i > idx
        <5>1. i - 1 \in 1..(Count - 1) /\ Before(i - 1, idx) = i
          BY <1>2, <4>3 DEF Before
        <5> QED
          BY <1>1, <3>2, <5>1
      <4> QED
        BY <4>1, <4>2, <4>3
    <3> QED
      BY <1>10, <3>1, <3>2 DEF NoLeak
  <2> QED
    BY <1>1, <2>1 DEF NoLeak
<1> QED
  BY <1>1, <1>4, <1>6, <1>8, <1>9, <1>10 DEF CtxInv

-----------------------------------------------------------------------------
(* What a snapshot changes, element by element.                            *)
Snapped(i, column, generation, id) ==
    /\ flow_rule_ids[i] = id
    /\ Fresh(column)
    /\ rule_set' = rule_set /\ flow_rule_ids' = flow_rule_ids
    /\ heap' = Allocate(column, rule_set.rules[i].name, generation)
    /\ \A w \in Workers : /\ tables'[w][i] = column[w]
                          /\ \A j \in Slot : j # i => tables'[w][j] = tables[w][j]
    /\ retired' \in Seq([Workers -> Tables])
    /\ Len(retired) \in Nat /\ Len(retired') = Len(retired) + 1
    /\ \A n \in 1..Len(retired) : retired'[n] = retired[n]
    /\ \A w \in Workers : retired'[Len(retired) + 1][w] = tables[w][i]
    /\ ArraysType'

LEMMA SnapshotStep ==
    ASSUME CtxInv, NEW id, SnapshotAndClear(id)
    PROVE  \E i \in 1..Count, generation \in Nat : \E column : Snapped(i, column, generation, id)
<1> DEFINE column == CHOOSE c \in FreshColumns : TRUE
<1>1. PICK i \in IndexOfId(id) :
        /\ FreshColumns # {}
        /\ heap' = Allocate(column, rule_set.rules[i].name, heap[tables[1][i]].generation + 1)
        /\ tables' = WithColumn(i, column)
        /\ retired' = Append(retired, Column(i))
        /\ rule_set' = rule_set /\ flow_rule_ids' = flow_rule_ids
  BY DEF SnapshotAndClear
<1>2. Fresh(column)
  BY <1>1, FreshColumn
<1> HIDE DEF column
<1>3. /\ \A j \in 1..Count : j \in Slot
      /\ \A w \in Workers, j \in 1..Count : tables[w][j] \in Allocated /\ tables[w][j] \in Tables
  BY LiveFacts
<1>4. i \in 1..Count /\ i \in Slot /\ flow_rule_ids[i] = id
  BY <1>1, <1>3 DEF IndexOfId
<1>5. heap[tables[1][i]].generation + 1 \in Nat
  <2>1. 1 \in Workers
    BY DEF Workers
  <2>2. heap[tables[1][i]] \in Contents
    BY <1>3, <1>4, <2>1 DEF CtxInv, HeapType, Allocated
  <2> QED
    BY <2>2 DEF Contents
<1>6. tables \in [Workers -> [Slot -> Tables \cup {NULL}]] /\ retired \in Seq([Workers -> Tables])
  BY DEF CtxInv, ArraysType
<1>7. \A w \in Workers : column[w] \in Tables
  BY <1>2 DEF Fresh
<1>8. ASSUME NEW w \in Workers
      PROVE  /\ tables'[w] \in [Slot -> Tables \cup {NULL}]
             /\ tables'[w][i] = column[w]
             /\ \A j \in Slot : j # i => tables'[w][j] = tables[w][j]
  <2>1. tables[w] \in [Slot -> Tables \cup {NULL}] /\ column[w] \in Tables \cup {NULL}
    BY <1>6, <1>7
  <2>2. tables'[w] = [tables[w] EXCEPT ![i] = column[w]]
    BY <1>1 DEF WithColumn
  <2> QED
    BY <1>4, <2>1, <2>2
<1>9. tables' \in [Workers -> [Slot -> Tables \cup {NULL}]]
  <2>1. tables' = [w \in Workers |-> tables'[w]]
    BY <1>1 DEF WithColumn
  <2> QED
    BY <1>8, <2>1
<1>10. /\ Column(i) \in [Workers -> Tables]
       /\ \A w \in Workers : Column(i)[w] = tables[w][i]
  BY <1>3, <1>4 DEF Column
<1>11. /\ retired' \in Seq([Workers -> Tables])
       /\ Len(retired) \in Nat /\ Len(retired') = Len(retired) + 1
       /\ \A n \in 1..Len(retired) : retired'[n] = retired[n]
       /\ retired'[Len(retired) + 1] = Column(i)
  <2> DEFINE S == [Workers -> Tables]
             c == Column(i)
  <2>1. retired \in Seq(S) /\ c \in S /\ retired' = Append(retired, c)
    BY <1>1, <1>6, <1>10
  <2> HIDE DEF S, c
  <2>2. /\ Append(retired, c) \in Seq(S)
        /\ Len(Append(retired, c)) = Len(retired) + 1
        /\ \A n \in 1..Len(retired) : Append(retired, c)[n] = retired[n]
        /\ Append(retired, c)[Len(retired) + 1] = c
        /\ Len(retired) \in Nat
    BY <2>1
  <2> QED
    BY <2>1, <2>2 DEF S, c
<1>12. ArraysType'
  BY <1>1, <1>9, <1>11 DEF CtxInv, ArraysType
<1> DEFINE generation == heap[tables[1][i]].generation + 1
<1> HIDE DEF generation
<1>13. Snapped(i, column, generation, id)
  BY <1>1, <1>2, <1>4, <1>8, <1>10, <1>11, <1>12 DEF Snapped, generation
<1>14. generation \in Nat
  BY <1>5 DEF generation
<1> QED
  BY <1>4, <1>13, <1>14

(* A snapshot keeps the invariant.                                         *)
LEMMA SnapshotKeeps ==
    ASSUME CtxInv, NEW id, SnapshotAndClear(id)
    PROVE  CtxInv' /\ (NoLeak => NoLeak')
<1> USE DEF Snapped
<1>0. PICK i \in 1..Count, generation \in Nat : \E column : Snapped(i, column, generation, id)
  BY SnapshotStep
<1>1. PICK column : Snapped(i, column, generation, id)
  BY <1>0
<1> DEFINE last == Len(retired) + 1
<1>2. /\ Count \in Nat
      /\ \A j \in 1..Count : j \in Slot
      /\ \A w \in Workers, j \in 1..Count : tables[w][j] \in Allocated /\ tables[w][j] \in Tables
      /\ \A w \in Workers, j \in Slot : j > Count => tables[w][j] = NULL
  BY LiveFacts
<1>3. rule_set.rules[i].name \in ValidNames
  BY DEF CtxInv, RuleSetCorrect, Count
<1>4. /\ HeapType'
      /\ \A w \in Workers : heap'[column[w]] = [name |-> rule_set.rules[i].name, worker |-> w,
                                                 generation |-> generation]
      /\ \A t \in Allocated : heap'[t] = heap[t]
      /\ \A t \in Tables : t \in Allocated' <=> t \in Allocated \/ \E w \in Workers : column[w] = t
  BY <1>1, <1>3, AllocateFacts DEF CtxInv
<1>5. /\ \A w \in Workers : column[w] \in Tables /\ column[w] \notin Allocated
      /\ \A v, w \in Workers : column[v] = column[w] => v = w
  BY <1>1 DEF Fresh
<1>6. Count' = Count /\ RuleSetCorrect(rule_set')
  BY <1>1 DEF CtxInv, Count
<1>7. \A w \in Workers, j \in 1..Count : j # i => tables'[w][j] = tables[w][j]
  BY <1>1, <1>2
<1>8. TablesFollowRules'
  <2>1. ASSUME NEW w \in Workers, NEW j \in 1..Count, j # i
        PROVE  /\ tables'[w][j] \in Allocated'
               /\ heap'[tables'[w][j]].name = rule_set'.rules[j].name
               /\ heap'[tables'[w][j]].worker = w
    <3>1. /\ heap[tables[w][j]].name = rule_set.rules[j].name
          /\ heap[tables[w][j]].worker = w
      BY <1>2 DEF CtxInv, TablesFollowRules
    <3>2. tables'[w][j] = tables[w][j] /\ rule_set' = rule_set
      BY <1>1, <1>7, <2>1
    <3>3. /\ tables[w][j] \in Allocated /\ tables[w][j] \in Allocated'
          /\ heap'[tables[w][j]] = heap[tables[w][j]]
      BY <1>2, <1>4
    <3> QED
      BY <3>1, <3>2, <3>3
  <2>2. ASSUME NEW w \in Workers
        PROVE  /\ tables'[w][i] \in Allocated'
               /\ heap'[tables'[w][i]].name = rule_set'.rules[i].name
               /\ heap'[tables'[w][i]].worker = w
    <3>1. tables'[w][i] = column[w] /\ rule_set' = rule_set
      BY <1>1
    <3>2. heap'[column[w]] = [name |-> rule_set.rules[i].name, worker |-> w, generation |-> generation]
      BY <1>4
    <3>3. column[w] \in Allocated'
      BY <1>4, <1>5
    <3> QED
      BY <3>1, <3>2, <3>3
  <2>3. ASSUME NEW w \in Workers, NEW j \in Slot, ~(j <= Count)
        PROVE  tables'[w][j] = NULL
    BY <1>1, <1>2, <2>3 DEF Slot
  <2>4. \A j \in Slot : j <= Count => j \in 1..Count
    BY <1>2 DEF Slot
  <2> QED
    BY <1>6, <2>1, <2>2, <2>3, <2>4 DEF TablesFollowRules
<1>9. \A w \in Workers, n \in 1..Len(retired) : retired[n][w] \in Allocated /\ retired[n][w] \in Tables
  BY DEF CtxInv, OneOwner, Allocated
<1>10. \A n \in 1..last : n \in 1..Len(retired) \/ n = last
  BY <1>1
<1>11. OneOwner'
  <2>1. ASSUME NEW v \in Workers, NEW w \in Workers, NEW j \in 1..Count, NEW k \in 1..Count,
               tables'[v][j] = tables'[w][k]
        PROVE  v = w /\ j = k
    <3>1. CASE j # i /\ k # i
      BY <1>7, <2>1, <3>1 DEF CtxInv, OneOwner
    <3>2. CASE j = i /\ k # i
      <4>1. tables'[v][j] = column[v] /\ tables'[w][k] \in Allocated
        BY <1>1, <1>2, <1>7, <3>2
      <4> QED
        BY <1>5, <2>1, <4>1
    <3>3. CASE j # i /\ k = i
      <4>1. tables'[w][k] = column[w] /\ tables'[v][j] \in Allocated
        BY <1>1, <1>2, <1>7, <3>3
      <4> QED
        BY <1>5, <2>1, <4>1
    <3>4. CASE j = i /\ k = i
      BY <1>1, <1>5, <2>1, <3>4
    <3> QED
      BY <3>1, <3>2, <3>3, <3>4
  <2>2. ASSUME NEW v \in Workers, NEW w \in Workers, NEW m \in 1..last, NEW n \in 1..last,
               retired'[m][v] = retired'[n][w]
        PROVE  v = w /\ m = n
    <3>1. CASE m # last /\ n # last
      <4>1. /\ m \in 1..Len(retired) /\ n \in 1..Len(retired)
            /\ retired'[m] = retired[m] /\ retired'[n] = retired[n]
        BY <1>1, <1>10, <3>1
      <4>2. retired[m][v] = retired[n][w] => v = w /\ m = n
        BY <4>1 DEF CtxInv, OneOwner
      <4> QED
        BY <2>2, <4>1, <4>2
    <3>2. CASE m = last /\ n # last
      <4>1. n \in 1..Len(retired) /\ retired'[n][w] = retired[n][w] /\ retired'[m][v] = tables[v][i]
        BY <1>1, <1>10, <3>2
      <4>2. tables[v][i] # retired[n][w]
        BY <4>1 DEF CtxInv, OneOwner
      <4> QED
        BY <2>2, <4>1, <4>2
    <3>3. CASE m # last /\ n = last
      <4>1. m \in 1..Len(retired) /\ retired'[m][v] = retired[m][v] /\ retired'[n][w] = tables[w][i]
        BY <1>1, <1>10, <3>3
      <4>2. tables[w][i] # retired[m][v]
        BY <4>1 DEF CtxInv, OneOwner
      <4> QED
        BY <2>2, <4>1, <4>2
    <3>4. CASE m = last /\ n = last
      <4>1. retired'[m][v] = tables[v][i] /\ retired'[n][w] = tables[w][i]
        BY <1>1, <3>4
      <4>2. tables[v][i] = tables[w][i] => v = w
        BY DEF CtxInv, OneOwner
      <4> QED
        BY <2>2, <3>4, <4>1, <4>2
    <3> QED
      BY <3>1, <3>2, <3>3, <3>4
  <2>3. ASSUME NEW v \in Workers, NEW w \in Workers, NEW j \in 1..Count, NEW n \in 1..last
        PROVE  tables'[v][j] # retired'[n][w]
    <3>1. CASE j # i /\ n # last
      <4>1. /\ n \in 1..Len(retired) /\ retired'[n][w] = retired[n][w]
            /\ tables'[v][j] = tables[v][j]
        BY <1>1, <1>7, <1>10, <3>1
      <4>2. tables[v][j] # retired[n][w]
        BY <4>1 DEF CtxInv, OneOwner
      <4> QED
        BY <4>1, <4>2
    <3>2. CASE j # i /\ n = last
      <4>1. tables'[v][j] = tables[v][j] /\ retired'[n][w] = tables[w][i]
        BY <1>1, <1>7, <3>2
      <4>2. tables[v][j] = tables[w][i] => j = i
        BY DEF CtxInv, OneOwner
      <4> QED
        BY <3>2, <4>1, <4>2
    <3>3. CASE j = i /\ n # last
      BY <1>1, <1>5, <1>9, <1>10, <3>3
    <3>4. CASE j = i /\ n = last
      BY <1>1, <1>2, <1>5, <3>4
    <3> QED
      BY <3>1, <3>2, <3>3, <3>4
  <2>4. ASSUME NEW w \in Workers, NEW n \in 1..last
        PROVE  retired'[n][w] \in Allocated'
    <3>1. CASE n # last
      BY <1>1, <1>4, <1>9, <1>10, <3>1
    <3>2. CASE n = last
      BY <1>1, <1>2, <1>4, <3>2
    <3> QED
      BY <3>1, <3>2
  <2> QED
    BY <1>1, <1>6, <2>1, <2>2, <2>3, <2>4 DEF OneOwner
<1>12. IdsBound'
  BY <1>1, <1>6 DEF CtxInv, IdsBound
<1>13. ASSUME NoLeak PROVE NoLeak'
  <2>1. ASSUME NEW t \in Allocated'
        PROVE  \/ \E w \in Workers, j \in 1..Count : tables'[w][j] = t
               \/ \E w \in Workers, n \in 1..last : retired'[n][w] = t
    <3>1. t \in Allocated \/ \E w \in Workers : column[w] = t
      BY <1>4 DEF Allocated
    <3>2. last \in 1..last /\ \A n \in 1..Len(retired) : n \in 1..last
      BY <1>1
    <3>3. ASSUME NEW w \in Workers, column[w] = t PROVE tables'[w][i] = t
      BY <1>1, <3>3
    <3>4. ASSUME NEW w \in Workers, NEW j \in 1..Count, tables[w][j] = t
          PROVE  tables'[w][j] = t \/ retired'[last][w] = t
      BY <1>1, <1>7, <3>4
    <3>5. ASSUME NEW w \in Workers, NEW n \in 1..Len(retired), retired[n][w] = t
          PROVE  retired'[n][w] = t
      BY <1>1, <3>5
    <3> HIDE DEF last
    <3>6. CASE \E w \in Workers : column[w] = t
      BY <3>3, <3>6
    <3>7. CASE t \in Allocated
      BY <1>13, <3>2, <3>4, <3>5, <3>7 DEF NoLeak
    <3> QED
      BY <3>1, <3>6, <3>7
  <2> QED
    BY <1>1, <1>6, <2>1 DEF NoLeak
<1> QED
  BY <1>1, <1>4, <1>6, <1>8, <1>11, <1>12, <1>13 DEF CtxInv

-----------------------------------------------------------------------------
(* A failed add has taken back everything it did.                          *)
LEMMA AddAllocFailsUnchanged ==
    ASSUME CtxInv, NEW rule \in Rules, NEW w \in Workers, FlowRuleAddAllocFails(rule, w)
    PROVE  UNCHANGED ctxvars
<1>1. /\ AddResult(rule_set, rule) = "OK"
      /\ rule_set' = WithoutRule(WithRule(rule_set, rule), Count + 1)
      /\ tables' = [v \in Workers |->
                      IF v < w THEN [tables[v] EXCEPT ![Count + 1] = NULL] ELSE tables[v]]
      /\ UNCHANGED <<flow_rule_ids, retired, heap>>
  BY DEF FlowRuleAddAllocFails
<1> DEFINE more == WithRule(rule_set, rule)
<1>2. /\ RuleSetCorrect(more) /\ Count + 1 \in Slot
      /\ Len(more.rules) = Count + 1
      /\ \A i \in 1..Count : more.rules[i] = rule_set.rules[i]
      /\ more.rules[Count + 1] = rule
      /\ more.used_keys = rule_set.used_keys + rule.max_keys
  BY <1>1, WithRuleCorrect DEF CtxInv, Count, Slot, WithRule
<1>3. Count \in Nat
  BY LiveFacts
<1> HIDE DEF more
<1>4. rule_set' = rule_set
  <2>1. Count + 1 \in 1..Len(more.rules)
    BY <1>2, <1>3
  <2>2. /\ RuleSetCorrect(rule_set') /\ Len(rule_set'.rules) = Count
        /\ \A i \in 1..Count : rule_set'.rules[i] = more.rules[i]
        /\ rule_set'.used_keys = more.used_keys - rule.max_keys
    <3>1. /\ RuleSetCorrect(WithoutRule(more, Count + 1))
          /\ Len(WithoutRule(more, Count + 1).rules) = Len(more.rules) - 1
          /\ \A i \in 1..(Len(more.rules) - 1) :
               WithoutRule(more, Count + 1).rules[i]
                 = IF i < Count + 1 THEN more.rules[i] ELSE more.rules[i + 1]
      BY <1>2, <2>1, WithoutRuleCorrect
    <3>2. WithoutRule(more, Count + 1).used_keys = more.used_keys - rule.max_keys
      BY <1>2 DEF WithoutRule
    <3>3. rule_set' = WithoutRule(more, Count + 1)
      BY <1>1 DEF more
    <3>4. Len(more.rules) - 1 = Count /\ \A i \in 1..Count : i < Count + 1
      BY <1>2, <1>3
    <3> QED
      BY <3>1, <3>2, <3>3, <3>4
  <2>3. rule_set'.rules = rule_set.rules
    <3>1. rule_set.rules \in Seq(Rules) /\ rule_set'.rules \in Seq(Rules)
      BY <2>2 DEF CtxInv, RuleSetCorrect
    <3>2. Len(rule_set'.rules) = Len(rule_set.rules)
      BY <2>2 DEF Count
    <3>3. \A i \in 1..Len(rule_set.rules) : rule_set'.rules[i] = rule_set.rules[i]
      BY <1>2, <2>2 DEF Count
    <3> QED
      BY <3>1, <3>2, <3>3, SeqEqual
  <2>4. rule.max_keys \in Nat
    BY <1>1 DEF AddResult, Valid
  <2>5. rule_set.used_keys \in Int
    BY DEF CtxInv, RuleSetCorrect
  <2>6. rule_set'.used_keys = rule_set.used_keys
    BY <1>2, <2>2, <2>4, <2>5
  <2>7. /\ rule_set = [rules |-> rule_set.rules, used_keys |-> rule_set.used_keys]
        /\ rule_set' = [rules |-> rule_set'.rules, used_keys |-> rule_set'.used_keys]
    BY <2>2 DEF CtxInv, RuleSetCorrect
  <2> QED
    BY <2>3, <2>6, <2>7
<1>5. tables' = tables
  <2>1. tables \in [Workers -> [Slot -> Tables \cup {NULL}]]
    BY DEF CtxInv, ArraysType
  <2>2. ASSUME NEW v \in Workers PROVE [tables[v] EXCEPT ![Count + 1] = NULL] = tables[v]
    <3>1. tables[v][Count + 1] = NULL
      BY <1>2, <1>3, LiveFacts
    <3>2. tables[v] \in [Slot -> Tables \cup {NULL}]
      BY <2>1
    <3> QED
      BY <1>2, <3>1, <3>2
  <2> QED
    BY <1>1, <2>1, <2>2
<1> QED
  BY <1>1, <1>4, <1>5 DEF ctxvars

(* What changes nothing keeps the invariant.                               *)
LEMMA UnchangedKeeps ==
    ASSUME CtxInv, UNCHANGED ctxvars
    PROVE  CtxInv' /\ (NoLeak => NoLeak')
BY DEF ctxvars, CtxInv, NoLeak, HeapType, ArraysType, TablesFollowRules, OneOwner, IdsBound,
       Allocated, Count

(* Every step of the context is one of these.                              *)
LEMMA StepCases ==
    ASSUME CtxInv, [Next]_vars
    PROVE  \/ \E rule \in Rules, id \in UnusedIds \cup {ZERO_ID} :
                FlowRuleAdd(rule, id) /\ result' = "OK"
           \/ \E name \in ValidNames : FlowRuleDel(name) /\ result' = "OK"
           \/ \E id \in Ids \cup {ZERO_ID} : SnapshotAndClear(id) /\ result' = "OK"
           \/ UNCHANGED ctxvars
<1>1. ASSUME NEW rule \in Rules, NEW w \in Workers, FlowRuleAddAllocFails(rule, w)
      PROVE  UNCHANGED ctxvars
  BY <1>1, AddAllocFailsUnchanged
<1>2. ASSUME NEW rule \in Rules, NEW id \in UnusedIds \cup {ZERO_ID}, FlowRuleAdd(rule, id)
      PROVE  result' = "OK"
  BY <1>2 DEF FlowRuleAdd
<1>3. ASSUME NEW name \in ValidNames, FlowRuleDel(name) PROVE result' = "OK"
  BY <1>3 DEF FlowRuleDel
<1>4. ASSUME NEW id \in Ids \cup {ZERO_ID}, SnapshotAndClear(id) PROVE result' = "OK"
  BY <1>4 DEF SnapshotAndClear
<1>5. ASSUME NEW rule \in Rules, FlowRuleAddRejected(rule) PROVE UNCHANGED ctxvars
  BY <1>5 DEF FlowRuleAddRejected
<1>6. ASSUME NEW name \in ValidNames, FlowRuleDelNotFound(name) PROVE UNCHANGED ctxvars
  BY <1>6 DEF FlowRuleDelNotFound
<1>7. ASSUME NEW id \in Ids \cup {ZERO_ID}, SnapshotRejected(id) \/ SnapshotAllocFails(id)
      PROVE  UNCHANGED ctxvars
  BY <1>7 DEF SnapshotRejected, SnapshotAllocFails
<1>8. CASE UNCHANGED vars
  BY <1>8 DEF vars
<1> QED
  BY <1>1, <1>2, <1>3, <1>4, <1>5, <1>6, <1>7, <1>8 DEF Next

(* The invariant is inductive.                                             *)
LEMMA Invariance == Spec => [](CtxInv /\ NoLeak)
<1>1. Init => CtxInv /\ NoLeak
  BY CtxInit
<1>2. CtxInv /\ NoLeak /\ [Next]_vars => CtxInv' /\ NoLeak'
  <2> SUFFICES ASSUME CtxInv, NoLeak, [Next]_vars PROVE CtxInv' /\ NoLeak'
    OBVIOUS
  <2>1. ASSUME NEW rule \in Rules, NEW id \in UnusedIds \cup {ZERO_ID}, FlowRuleAdd(rule, id)
        PROVE  CtxInv' /\ NoLeak'
    BY <2>1, AddKeeps
  <2>2. ASSUME NEW name \in ValidNames, FlowRuleDel(name) PROVE CtxInv' /\ NoLeak'
    BY <2>2, DelKeeps
  <2>3. ASSUME NEW id \in Ids \cup {ZERO_ID}, SnapshotAndClear(id) PROVE CtxInv' /\ NoLeak'
    BY <2>3, SnapshotKeeps
  <2>4. CASE UNCHANGED ctxvars
    BY <2>4, UnchangedKeeps
  <2> QED
    BY <2>1, <2>2, <2>3, <2>4, StepCases
<1> QED
  BY <1>1, <1>2, PTL DEF Spec

-----------------------------------------------------------------------------
(* Every state of the context is well typed: the rules are valid, named    *)
(* apart and at most SET_MAX, and the arrays hold tables, ids and columns  *)
(* of tables (infmon_api_ctx_t).                                           *)
TypeOK == HeapType /\ ArraysType /\ RuleSetCorrect(rule_set)

THEOREM TypeCorrect == Spec => []TypeOK
<1>1. CtxInv => TypeOK
  BY DEF CtxInv, TypeOK
<1> QED
  BY <1>1, Invariance, PTL

(* used_keys is exactly what the installed rules are charged, whichever    *)
(* adds were refused or rolled back and whichever rules deleted            *)
(* (infmon_flow_rule_add, infmon_flow_rule_rm).                            *)
THEOREM BudgetExactCorrect == Spec => []BudgetExact
<1>1. CtxInv => BudgetExact
  BY DEF CtxInv, RuleSetCorrect, BudgetExact
<1> QED
  BY <1>1, Invariance, PTL

(* The i-th tables belong to the i-th rule, however deletes shift the      *)
(* arrays (infmon_api_flow_rule_del).                                      *)
THEOREM TablesFollowRulesCorrect == Spec => []TablesFollowRules
<1>1. CtxInv => TablesFollowRules
  BY DEF CtxInv
<1> QED
  BY <1>1, Invariance, PTL

(* An injective image of a finite set has as many elements.                *)
LEMMA ImageSize ==
    ASSUME NEW S, IsFiniteSet(S), NEW f, f = [x \in S |-> f[x]],
           \A x, y \in S : f[x] = f[y] => x = y,
           NEW T, T = {f[x] : x \in S}
    PROVE  IsFiniteSet(T) /\ Cardinality(T) = Cardinality(S)
<1>1. f \in Bijection(S, T)
  <2>1. f \in [S -> T] /\ \A t \in T : \E x \in S : f[x] = t
    OBVIOUS
  <2> QED
    BY <2>1 DEF Bijection, Injection, Surjection, IsInjective
<1>2. ExistsBijection(S, T)
  BY <1>1 DEF ExistsBijection
<1> QED
  BY <1>2, FS_Bijection

(* The tables of the invariant, counted.                                   *)
LEMMA OwnedOnce ==
    ASSUME CtxInv, NoLeak
    PROVE  TablesOwnedOnce
<1> DEFINE L == {tables[c[1]][c[2]] : c \in LiveCells}
           R == {retired[c[2]][c[1]] : c \in RetiredCells}
           live == [c \in LiveCells |-> tables[c[1]][c[2]]]
           old == [c \in RetiredCells |-> retired[c[2]][c[1]]]
<1>1. /\ Count \in Nat /\ Count <= SET_MAX
      /\ \A i \in 1..Count : i \in Slot
      /\ \A w \in Workers, i \in 1..Count : /\ tables[w][i] \in Allocated
                                            /\ tables[w][i] \in Tables
      /\ \A w \in Workers, i \in Slot : i > Count => tables[w][i] = NULL
  BY LiveFacts
<1>2. LiveCells = Workers \X (1..Count)
  <2>1. ASSUME NEW w \in Workers, NEW i \in Slot
        PROVE  tables[w][i] # NULL <=> i \in 1..Count
    BY <1>1 DEF Slot
  <2> QED
    BY <1>1, <2>1 DEF LiveCells
<1>3. Len(retired) \in Nat
  BY DEF CtxInv, ArraysType
<1>4. IsFiniteSet(LiveCells) /\ IsFiniteSet(RetiredCells)
  <2>1. IsFiniteSet(Workers) /\ IsFiniteSet(1..Count) /\ IsFiniteSet(1..Len(retired))
    BY <1>1, <1>3, FS_Interval DEF Workers
  <2> QED
    BY <1>2, <2>1, FS_Product DEF RetiredCells
<1>5. IsFiniteSet(L) /\ Cardinality(L) = Cardinality(LiveCells)
  <2>1. \A x, y \in LiveCells : live[x] = live[y] => x = y
    BY <1>2 DEF CtxInv, OneOwner
  <2>2. L = {live[c] : c \in LiveCells} /\ live = [c \in LiveCells |-> live[c]]
    OBVIOUS
  <2> HIDE DEF L, live
  <2> QED
    BY <1>4, <2>1, <2>2, ImageSize
<1>6. IsFiniteSet(R) /\ Cardinality(R) = Cardinality(RetiredCells)
  <2>1. \A x, y \in RetiredCells : old[x] = old[y] => x = y
    BY DEF CtxInv, OneOwner, RetiredCells
  <2>2. R = {old[c] : c \in RetiredCells} /\ old = [c \in RetiredCells |-> old[c]]
    OBVIOUS
  <2> HIDE DEF R, old
  <2> QED
    BY <1>4, <2>1, <2>2, ImageSize
<1>7. L \cap R = {}
  BY <1>2 DEF CtxInv, OneOwner, RetiredCells
<1>8. Allocated = L \cup R
  <2>1. L \subseteq Allocated
    BY <1>1, <1>2
  <2>2. R \subseteq Allocated
    BY DEF CtxInv, OneOwner, RetiredCells
  <2>3. ASSUME NEW t \in Allocated PROVE t \in L \cup R
    <3>1. ASSUME NEW w \in Workers, NEW i \in 1..Count, tables[w][i] = t PROVE t \in L
      <4>1. <<w, i>> \in LiveCells /\ tables[<<w, i>>[1]][<<w, i>>[2]] = t
        BY <1>2, <3>1
      <4> QED
        BY <4>1
    <3>2. ASSUME NEW w \in Workers, NEW n \in 1..Len(retired), retired[n][w] = t PROVE t \in R
      <4>1. <<w, n>> \in RetiredCells /\ retired[<<w, n>>[2]][<<w, n>>[1]] = t
        BY <3>2 DEF RetiredCells
      <4> QED
        BY <4>1
    <3> QED
      BY <3>1, <3>2 DEF NoLeak
  <2> QED
    BY <2>1, <2>2, <2>3
<1>9. Cardinality(Allocated) = Cardinality(LiveCells) + Cardinality(RetiredCells)
  <2> HIDE DEF L, R
  <2>1. Cardinality(L \cup R) = Cardinality(L) + Cardinality(R) - Cardinality(L \cap R)
    BY <1>5, <1>6, FS_Union
  <2>2. Cardinality(L \cap R) = 0
    BY <1>7, FS_EmptySet
  <2>3. Cardinality(L) \in Nat /\ Cardinality(R) \in Nat
    BY <1>5, <1>6, FS_CardinalityType
  <2> QED
    BY <1>5, <1>6, <1>8, <2>1, <2>2, <2>3
<1> QED
  BY <1>8, <1>9 DEF TablesOwnedOnce

(* Nothing leaks, nothing is owned twice: every allocated table is in one  *)
(* cell of the context or of the ring of retired columns.                  *)
THEOREM TablesOwnedOnceCorrect == Spec => []TablesOwnedOnce
<1>1. CtxInv /\ NoLeak => TablesOwnedOnce
  BY OwnedOnce
<1> QED
  BY <1>1, Invariance, PTL

(* An operation that fails is undone completely (flow_rule_add_internal's  *)
(* roll-back, infmon_snapshot_and_clear's allocations before its swaps).   *)
THEOREM FailureChangesNothingCorrect == Spec => FailureChangesNothing
<1>1. CtxInv /\ [Next]_vars => [result' # "OK" => UNCHANGED ctxvars]_vars
  BY StepCases
<1> QED
  BY <1>1, Invariance, PTL DEF Spec, FailureChangesNothing

(* An id goes on naming its rule and its tables while others come and go   *)
(* (find_flow_rule_index over the shifted flow_rule_ids).                  *)
THEOREM IdBindingStableCorrect == Spec => IdBindingStable
<1> DEFINE Kept(i, j) ==
      /\ rule_set.rules[i] = rule_set.rules'[j]
      /\ \/ \A w \in Workers : tables[w][i] = tables'[w][j]
         \/ \E n \in 1..Len(retired') :
              \A w \in Workers : retired'[n][w] = tables[w][i]
<1>1. ASSUME CtxInv, [Next]_vars,
             NEW i \in 1..Count, NEW j \in 1..Count',
             flow_rule_ids[i] # ZERO_ID, flow_rule_ids[i] = flow_rule_ids'[j]
      PROVE  Kept(i, j)
  <2>1. /\ Count \in Nat /\ Count <= SET_MAX
        /\ \A k \in 1..Count : k \in Slot
    BY <1>1, LiveFacts
  <2>2. \A k, l \in Slot : flow_rule_ids[k] = flow_rule_ids[l] => k = l \/ flow_rule_ids[k] = ZERO_ID
    BY <1>1 DEF CtxInv, IdsBound
  <2>3. ASSUME NEW rule \in Rules, NEW id \in UnusedIds \cup {ZERO_ID}, FlowRuleAdd(rule, id)
        PROVE  Kept(i, j)
    <3>1. PICK column : Added(column, rule, id)
      BY <1>1, <2>3, AddStep
    <3>2. flow_rule_ids \in [Slot -> Ids \cup {ZERO_ID}]
      BY <1>1 DEF CtxInv, ArraysType
    <3>3. j \in 1..Count \/ j = Count + 1
      BY <2>1, <3>1 DEF Added
    <3>4. CASE j = Count + 1
      <4>1. flow_rule_ids'[j] = id
        BY <3>1, <3>2, <3>4 DEF Added
      <4>2. i \in Slot /\ flow_rule_ids[i] = id
        BY <1>1, <2>1, <4>1
      <4> QED
        BY <1>1, <4>2 DEF UnusedIds
    <3>5. CASE j \in 1..Count
      <4>1. j \in Slot /\ j # Count + 1 /\ i \in Slot
        BY <2>1, <3>5
      <4>2. flow_rule_ids'[j] = flow_rule_ids[j]
        BY <3>1, <3>2, <4>1 DEF Added
      <4>3. i = j
        BY <1>1, <2>2, <4>1, <4>2
      <4>4. rule_set'.rules[j] = rule_set.rules[j] /\ \A w \in Workers : tables'[w][j] = tables[w][j]
        BY <3>1, <3>5, <4>1 DEF Added
      <4> QED
        BY <4>3, <4>4
    <3> QED
      BY <3>3, <3>4, <3>5
  <2>4. ASSUME NEW name \in ValidNames, FlowRuleDel(name) PROVE Kept(i, j)
    <3>1. PICK idx \in 1..Count : Deleted(idx, name)
      BY <1>1, <2>4, DelStep
    <3>2. j \in 1..(Count - 1)
      BY <2>1, <3>1 DEF Deleted
    <3>3. /\ Before(j, idx) \in 1..Count
          /\ rule_set'.rules[j] = rule_set.rules[Before(j, idx)]
          /\ flow_rule_ids'[j] = flow_rule_ids[Before(j, idx)]
          /\ \A w \in Workers : tables'[w][j] = tables[w][Before(j, idx)]
      BY <3>1, <3>2 DEF Deleted
    <3>4. i = Before(j, idx)
      BY <1>1, <2>1, <2>2, <3>3
    <3> QED
      BY <3>3, <3>4
  <2>5. ASSUME NEW id \in Ids \cup {ZERO_ID}, SnapshotAndClear(id) PROVE Kept(i, j)
    <3>0. PICK k \in 1..Count, generation \in Nat : \E column : Snapped(k, column, generation, id)
      BY <1>1, <2>5, SnapshotStep
    <3>1. PICK column : Snapped(k, column, generation, id)
      BY <3>0
    <3>2. Count' = Count /\ rule_set' = rule_set /\ flow_rule_ids' = flow_rule_ids
      BY <3>1 DEF Snapped, Count
    <3>3. i = j /\ i \in Slot
      BY <1>1, <2>1, <2>2, <3>2
    <3>4. CASE i = k
      <4>1. /\ Len(retired') \in 1..Len(retired')
            /\ \A w \in Workers : retired'[Len(retired')][w] = tables[w][i]
        BY <3>1, <3>4 DEF Snapped
      <4> QED
        BY <3>2, <3>3, <4>1
    <3>5. CASE i # k
      BY <3>1, <3>2, <3>3, <3>5 DEF Snapped
    <3> QED
      BY <3>4, <3>5
  <2>6. CASE UNCHANGED ctxvars
    <3>1. i = j
      BY <1>1, <2>1, <2>2, <2>6 DEF ctxvars, Count
    <3> QED
      BY <2>6, <3>1 DEF ctxvars
  <2> QED
    BY <1>1, <2>3, <2>4, <2>5, <2>6, StepCases
<1>2. CtxInv /\ [Next]_vars =>
        [\A i \in 1..Count, j \in 1..Count' :
           (flow_rule_ids[i] # ZERO_ID /\ flow_rule_ids[i] = flow_rule_ids'[j]) => Kept(i, j)]_vars
  BY <1>1
<1> QED
  BY <1>2, Invariance, PTL DEF Spec, IdBindingStable

-----------------------------------------------------------------------------
(* The inductive invariants.                                               *)
FrameKinds == {"match", "counter", "update"}
Entries == [index : Slot, name : ValidNames]

PublishedType ==
    /\ pm_rules \in {"none", "api", "cli"} /\ publishing \in BOOLEAN
    /\ ref_count \in [api : Nat, cli : Nat]
    /\ RuleSetCorrect(cli_set)
    /\ pm_tables \in [Workers -> [Slot -> Tables \cup {NULL}]]
    /\ packets \in [Tables -> Nat]
    /\ num_workers \in {0, NumWorkers}

(* A table that is neither destroyed nor retired.                          *)
InUse(t, allocated, ring) ==
    /\ t \in allocated
    /\ \A w \in Workers, n \in 1..Len(ring) : ring[n][w] # t

(* Between two handlers: what is published is in use, and, if the API      *)
(* published it, what the context holds.                                   *)
PublishedInUse ==
    ~publishing =>
        /\ \A w \in Workers, i \in Slot : pm_tables[w][i] # NULL => InUse(pm_tables[w][i], Allocated, retired)
        /\ pm_rules = "api" => ref_count.api = Count /\ pm_tables = tables

(* The workers stand still while a handler is at work; a frame under way   *)
(* in the counter node is the first in its queue, and the pointers loaded  *)
(* for it are those published.                                             *)
Frames ==
    /\ queue \in [Workers -> Seq(FrameKinds)]
    /\ scratch \in [Workers -> Seq(Entries)]
    /\ held \in [Workers -> [Slot -> Tables \cup {NULL}]]
    /\ \A w \in Workers :
         /\ queue[w] # << >> => ~publishing
         /\ \A k \in 2..Len(queue[w]) : queue[w][k] # "update"
         /\ queue[w] # << >> /\ Head(queue[w]) = "update" => held[w] = pm_tables[w]

PlaneInv == CtxInv /\ PublishedType /\ PublishedInUse /\ Frames

(* A published table that is not the context's is the CLI's own: it was    *)
(* created for the rule of that index in the CLI's rule set.               *)
CliTables ==
    \A w \in Workers, i \in Slot :
        pm_tables[w][i] # NULL /\ pm_tables[w][i] # tables[w][i] =>
            i <= Len(cli_set.rules) /\ CreatedFor(pm_tables[w][i], cli_set.rules[i].name, w)

(* Between two handlers: an API call publishes the context's own tables,   *)
(* and the CLI only ever stores at the index of the rule it adds.          *)
CliUndisturbed == ~publishing => CliTables

-----------------------------------------------------------------------------
(* The rules a worker finds, between two handlers.                         *)
LEMMA PublishedRulesAre ==
    ASSUME PlaneInv, ~publishing
    PROVE  PublishedRules = CASE pm_rules = "api" -> rule_set.rules
                              [] pm_rules = "cli" -> cli_set.rules
                              [] OTHER            -> << >>
<1>1. pm_rules \in {"none", "api", "cli"}
  BY DEF PlaneInv, PublishedType
<1>2. ASSUME pm_rules = "api" PROVE SubSeq(rule_set.rules, 1, Min({ref_count.api, Count})) = rule_set.rules
  <2>1. ref_count.api = Count /\ rule_set.rules \in Seq(Rules) /\ Count = Len(rule_set.rules) /\ Count \in Nat
    BY <1>2 DEF PlaneInv, PublishedInUse, CtxInv, RuleSetCorrect, Count
  <2>2. {ref_count.api, Count} = {Count}
    BY <2>1
  <2>3. Min({Count}) = Count
    BY <2>1 DEF Min
  <2>4. SubSeq(rule_set.rules, 1, Len(rule_set.rules)) = rule_set.rules
    BY <2>1
  <2> QED
    BY <2>1, <2>2, <2>3, <2>4
<1> QED
  BY <1>1, <1>2 DEF PublishedRules

LEMMA PublishedRulesType ==
    ASSUME PlaneInv, ~publishing
    PROVE  /\ PublishedRules \in Seq(Rules) /\ Len(PublishedRules) <= SET_MAX
           /\ \A i \in 1..Len(PublishedRules) : PublishedRules[i].name \in ValidNames
<1>1. RuleSetCorrect(rule_set) /\ RuleSetCorrect(cli_set) /\ pm_rules \in {"none", "api", "cli"}
  BY DEF PlaneInv, PublishedType, CtxInv
<1>2. CASE pm_rules = "api"
  <2>1. PublishedRules = rule_set.rules
    BY <1>2, PublishedRulesAre
  <2> QED
    BY <1>1, <2>1 DEF RuleSetCorrect
<1>3. CASE pm_rules = "cli"
  <2>1. PublishedRules = cli_set.rules
    BY <1>3, PublishedRulesAre
  <2> QED
    BY <1>1, <2>1 DEF RuleSetCorrect
<1>4. CASE pm_rules = "none"
  <2>1. PublishedRules = << >>
    BY <1>4, PublishedRulesAre
  <2> QED
    BY <2>1
<1> QED
  BY <1>1, <1>2, <1>3, <1>4

(* Tables allocated outside the context disturb nothing in it.             *)
LEMMA AllocatingKeeps ==
    ASSUME CtxInv, HeapType', Allocated \subseteq Allocated', \A t \in Allocated : heap'[t] = heap[t],
           UNCHANGED <<rule_set, tables, flow_rule_ids, retired>>
    PROVE  CtxInv'
<1>1. rule_set' = rule_set /\ tables' = tables /\ flow_rule_ids' = flow_rule_ids /\ retired' = retired
      /\ Count' = Count
  BY DEF Count
<1>2. TablesFollowRules'
  BY <1>1 DEF CtxInv, TablesFollowRules
<1>3. OneOwner'
  BY <1>1 DEF CtxInv, OneOwner
<1>4. ArraysType' /\ IdsBound' /\ RuleSetCorrect(rule_set')
  BY <1>1 DEF CtxInv, ArraysType, IdsBound
<1> QED
  BY <1>2, <1>3, <1>4 DEF CtxInv

(* A rule that was accepted has a valid name.                              *)
LEMMA AddedName ==
    ASSUME NEW set, NEW rule, AddResult(set, rule) = "OK"
    PROVE  rule.name \in ValidNames
BY DEF AddResult, Valid

(* A counted table stays what it is unless the allocator hands it out.     *)
LEMMA PacketsType ==
    ASSUME PublishedType, NEW newheap
    PROVE  /\ PacketsOf(newheap) \in [Tables -> Nat]
           /\ \A t \in Tables : heap[t] = newheap[t] => PacketsOf(newheap)[t] = packets[t]
BY DEF PublishedType, PacketsOf

LEMMA PlaneInit ==
    ASSUME DPInit
    PROVE  PlaneInv /\ CliUndisturbed
<1>1. CtxInv
  BY CtxInit DEF DPInit
<1>2. PublishedType
  <2>1. RuleSetCorrect(cli_set)
    BY EmptyRuleSetCorrect DEF DPInit
  <2>2. /\ pm_rules \in {"none", "api", "cli"} /\ publishing \in BOOLEAN
        /\ ref_count \in [api : Nat, cli : Nat]
    BY DEF DPInit
  <2>3. pm_tables \in [Workers -> [Slot -> Tables \cup {NULL}]] /\ packets \in [Tables -> Nat]
    BY DEF DPInit, NoTables
  <2>4. num_workers \in {0, NumWorkers}
    BY DEF DPInit
  <2> QED
    BY <2>1, <2>2, <2>3, <2>4 DEF PublishedType
<1>3. \A w \in Workers, i \in Slot : pm_tables[w][i] = NULL
  BY DEF DPInit, NoTables
<1>4. PublishedInUse
  BY <1>3 DEF DPInit, PublishedInUse
<1>5. Frames
  <2>1. held \in [Workers -> [Slot -> Tables \cup {NULL}]]
    BY DEF DPInit, NoTables
  <2> QED
    BY <2>1 DEF DPInit, Frames
<1>6. CliUndisturbed
  BY <1>3 DEF CliUndisturbed, CliTables
<1> QED
  BY <1>1, <1>2, <1>4, <1>5, <1>6 DEF PlaneInv

-----------------------------------------------------------------------------
(* The main thread: workers stand between two loop iterations.             *)
LEMMA WorkersStand ==
    ASSUME Frames, Quiet, UNCHANGED workervars
    PROVE  Frames'
<1>1. queue' = queue /\ scratch' = scratch /\ held' = held
  BY DEF workervars
<1>2. \A w \in Workers : queue'[w] = << >>
  BY <1>1 DEF Quiet
<1>3. \A w \in Workers : 2..Len(queue'[w]) = {}
  BY <1>2
<1> QED
  BY <1>1, <1>2, <1>3 DEF Frames

(* While a handler is at work no frame is pending.                         *)
LEMMA PublishingIsQuiet ==
    ASSUME Frames, publishing
    PROVE  Quiet
BY DEF Frames, Quiet

(* The first step of a handler leaves all publishing to its second.        *)
Handler ==
    /\ MainThreadFree /\ publishing' = TRUE
    /\ packets' \in [Tables -> Nat] /\ num_workers' = NumWorkers
    /\ UNCHANGED <<pm_rules, ref_count, pm_tables, cli_set>>
    /\ UNCHANGED workervars

LEMMA HandlerKeeps ==
    ASSUME PlaneInv, Handler, CtxInv'
    PROVE  PlaneInv' /\ CliUndisturbed'
<1>1. Frames'
  BY WorkersStand DEF Handler, MainThreadFree, PlaneInv
<1>2. PublishedType'
  BY DEF Handler, PlaneInv, PublishedType
<1>3. PublishedInUse'
  BY DEF Handler, PublishedInUse
<1>4. CliUndisturbed'
  BY DEF Handler, CliUndisturbed
<1> QED
  BY <1>1, <1>2, <1>3, <1>4 DEF PlaneInv

(* The conversions of a rule name no other, and are rules themselves.      *)
LEMMA Converted ==
    ASSUME NEW rule \in Rules
    PROVE  /\ FromMessage(rule) \in Rules /\ FromMessage(rule).name = rule.name
           /\ FromCommand(rule) \in Rules /\ FromCommand(rule).name = rule.name
BY DEF FromMessage, FromCommand

LEMMA AddHandlerKeeps ==
    ASSUME PlaneInv, NEW rule \in Rules, NEW id \in UnusedIds, AddHandler(rule, id)
    PROVE  PlaneInv' /\ CliUndisturbed'
<1>1. Handler
  BY PacketsType DEF AddHandler, Handler, Ensured, PlaneInv
<1>2. PICK spec \in Rules : FlowRuleAdd(spec, id)
  BY Converted DEF AddHandler
<1>3. CtxInv'
  BY <1>2, AddKeeps DEF PlaneInv
<1> QED
  BY <1>1, <1>3, HandlerKeeps

LEMMA DelHandlerKeeps ==
    ASSUME PlaneInv, NEW id \in Ids, DelHandler(id)
    PROVE  PlaneInv' /\ CliUndisturbed'
<1>1. Handler
  BY DEF DelHandler, Handler, Ensured, PlaneInv, PublishedType
<1>2. PICK i \in IndexOfId(id) : FlowRuleDel(rule_set.rules[i].name)
  BY DEF DelHandler
<1>3. CtxInv'
  BY <1>2, DelKeeps DEF PlaneInv
<1> QED
  BY <1>1, <1>3, HandlerKeeps

LEMMA SnapshotHandlerKeeps ==
    ASSUME PlaneInv, NEW id \in Ids, SnapshotHandler(id)
    PROVE  PlaneInv' /\ CliUndisturbed'
<1>1. Handler
  BY PacketsType DEF SnapshotHandler, Handler, Ensured, PlaneInv
<1>2. CtxInv'
  BY SnapshotKeeps DEF SnapshotHandler, PlaneInv
<1> QED
  BY <1>1, <1>2, HandlerKeeps

(* The first API request of all, when it changes nothing else.             *)
LEMMA EnsureKeeps ==
    ASSUME PlaneInv, Ensure
    PROVE  PlaneInv' /\ (CliUndisturbed => CliUndisturbed')
<1>1. /\ Quiet /\ num_workers' = NumWorkers /\ UNCHANGED ctxvars /\ UNCHANGED workervars
      /\ pm_rules' = pm_rules /\ ref_count' = ref_count /\ pm_tables' = pm_tables
      /\ cli_set' = cli_set /\ publishing' = publishing /\ packets' = packets
      /\ rule_set' = rule_set /\ tables' = tables /\ heap' = heap /\ retired' = retired
  BY DEF Ensure, Ensured, MainThreadFree, vars, ctxvars
<1>2. CtxInv'
  BY <1>1, UnchangedKeeps DEF PlaneInv
<1>3. PublishedType'
  BY <1>1 DEF PlaneInv, PublishedType
<1>4. PublishedInUse'
  BY <1>1 DEF PlaneInv, PublishedInUse, Allocated, Count
<1>5. Frames'
  BY <1>1, WorkersStand DEF PlaneInv
<1>6. CliUndisturbed => CliUndisturbed'
  BY <1>1 DEF CliUndisturbed, CliTables, CreatedFor, Allocated
<1> QED
  BY <1>2, <1>3, <1>4, <1>5, <1>6 DEF PlaneInv

(* The tables of the context are in use.                                   *)
LEMMA ContextInUse ==
    ASSUME CtxInv
    PROVE  \A w \in Workers, i \in Slot : tables[w][i] # NULL => InUse(tables[w][i], Allocated, retired)
<1> SUFFICES ASSUME NEW w \in Workers, NEW i \in Slot, tables[w][i] # NULL
             PROVE  InUse(tables[w][i], Allocated, retired)
  OBVIOUS
<1>1. Count \in Nat /\ ~(i > Count) /\ i \in Nat /\ i >= 1
  BY LiveFacts DEF Slot
<1>2. i \in 1..Count
  BY <1>1
<1>3. tables[w][i] \in Allocated
  BY <1>2, LiveFacts
<1> QED
  BY <1>2, <1>3 DEF InUse, CtxInv, OneOwner

LEMMA PublishKeeps ==
    ASSUME PlaneInv, Publish
    PROVE  PlaneInv' /\ CliUndisturbed'
<1>1. /\ publishing /\ pm_rules' = "api" /\ ref_count' = [ref_count EXCEPT !.api = Count]
      /\ pm_tables' = tables /\ publishing' = FALSE /\ UNCHANGED ctxvars /\ cli_set' = cli_set
      /\ packets' = packets /\ num_workers' = num_workers /\ UNCHANGED workervars
  BY DEF Publish, vars
<1>2. /\ rule_set' = rule_set /\ tables' = tables /\ retired' = retired /\ heap' = heap
      /\ Count' = Count /\ Count \in Nat
  BY <1>1, LiveFacts DEF ctxvars, Count, PlaneInv
<1>3. CtxInv'
  BY <1>1, UnchangedKeeps DEF PlaneInv
<1>4. Frames'
  BY <1>1, PublishingIsQuiet, WorkersStand DEF PlaneInv
<1>5. ref_count \in [api : Nat, cli : Nat]
  BY DEF PlaneInv, PublishedType
<1>6. ref_count' \in [api : Nat, cli : Nat] /\ ref_count'.api = Count
  BY <1>1, <1>2, <1>5
<1>7. PublishedType'
  BY <1>1, <1>6 DEF PlaneInv, PublishedType, CtxInv, ArraysType
<1>8. \A w \in Workers, i \in Slot : tables[w][i] # NULL => InUse(tables[w][i], Allocated, retired)
  BY ContextInUse DEF PlaneInv
<1>9. PublishedInUse'
  <2>1. \A w \in Workers, i \in Slot : tables'[w][i] # NULL => InUse(tables'[w][i], Allocated', retired')
    BY <1>2, <1>8 DEF InUse, Allocated
  <2> QED
    BY <1>1, <1>2, <1>6, <2>1 DEF PublishedInUse
<1>10. CliUndisturbed'
  BY <1>1, <1>2 DEF CliUndisturbed, CliTables
<1> QED
  BY <1>3, <1>4, <1>7, <1>9, <1>10 DEF PlaneInv

-----------------------------------------------------------------------------
(* The debug CLI: a rule set of its own, tables stored where the workers   *)
(* look.                                                                   *)
CliAdded(rule, stored) ==
    LET n == Len(cli_set.rules) + 1
    IN /\ MainThreadFree /\ n \in Slot /\ num_workers' = num_workers
       /\ RuleSetCorrect(cli_set') /\ Len(cli_set'.rules) = n
       /\ cli_set'.rules[n] = rule
       /\ \A i \in 1..(n - 1) : cli_set'.rules[i] = cli_set.rules[i]
       /\ pm_tables' \in [Workers -> [Slot -> Tables \cup {NULL}]]
       /\ \A w \in Workers :
            /\ pm_tables'[w][n] \in {pm_tables[w][n], stored[w]}
            /\ \A i \in Slot : i # n => pm_tables'[w][i] = pm_tables[w][i]
       /\ ref_count' = [ref_count EXCEPT !.cli = n]
       /\ pm_rules' = "cli" /\ publishing' = publishing
       /\ packets' \in [Tables -> Nat]
       /\ UNCHANGED <<rule_set, tables, flow_rule_ids, retired>>
       /\ UNCHANGED workervars

(* What the CLI stores: nothing, or new tables of the rule.                *)
Stored(rule, stored) ==
    /\ \A w \in Workers : stored[w] # NULL =>
         /\ InUse(stored[w], Allocated', retired')
         /\ heap'[stored[w]].name = rule.name /\ heap'[stored[w]].worker = w
    /\ Allocated \subseteq Allocated'
    /\ \A t \in Allocated : heap'[t] = heap[t]

LEMMA CliAddedKeeps ==
    ASSUME PlaneInv, NEW rule \in Rules, NEW stored, CliAdded(rule, stored),
           Stored(rule, stored), CtxInv'
    PROVE  PlaneInv' /\ (CliUndisturbed => CliUndisturbed')
<1> DEFINE n == Len(cli_set.rules) + 1
<1>1. /\ MainThreadFree /\ n \in Slot /\ num_workers' = num_workers
      /\ RuleSetCorrect(cli_set') /\ Len(cli_set'.rules) = n
      /\ cli_set'.rules[n] = rule
      /\ \A i \in 1..(n - 1) : cli_set'.rules[i] = cli_set.rules[i]
      /\ pm_tables' \in [Workers -> [Slot -> Tables \cup {NULL}]]
      /\ \A w \in Workers :
           /\ pm_tables'[w][n] \in {pm_tables[w][n], stored[w]}
           /\ \A i \in Slot : i # n => pm_tables'[w][i] = pm_tables[w][i]
      /\ ref_count' = [ref_count EXCEPT !.cli = n]
      /\ pm_rules' = "cli" /\ publishing' = publishing
      /\ packets' \in [Tables -> Nat]
      /\ rule_set' = rule_set /\ tables' = tables /\ retired' = retired
      /\ UNCHANGED workervars
  BY DEF CliAdded
<1>2. n \in Nat /\ n - 1 = Len(cli_set.rules) /\ n >= 1
  BY DEF PlaneInv, PublishedType, RuleSetCorrect
<1> HIDE DEF n
<1>3. Frames'
  BY <1>1, WorkersStand DEF MainThreadFree, PlaneInv
<1>4. PublishedType'
  <2>1. ref_count' \in [api : Nat, cli : Nat]
    BY <1>1, <1>2 DEF PlaneInv, PublishedType
  <2> QED
    BY <1>1, <2>1 DEF PlaneInv, PublishedType
<1>5. PublishedInUse'
  <2>1. ASSUME NEW w \in Workers, NEW i \in Slot, pm_tables'[w][i] # NULL
        PROVE  InUse(pm_tables'[w][i], Allocated', retired')
    <3>1. CASE pm_tables'[w][i] = stored[w]
      BY <2>1, <3>1 DEF Stored
    <3>2. CASE pm_tables'[w][i] = pm_tables[w][i]
      <4>1. InUse(pm_tables[w][i], Allocated, retired)
        BY <1>1, <2>1, <3>2 DEF MainThreadFree, PlaneInv, PublishedInUse
      <4> QED
        BY <1>1, <3>2, <4>1 DEF InUse, Stored
    <3> QED
      BY <1>1, <3>1, <3>2
  <2> QED
    BY <1>1, <2>1 DEF PublishedInUse
<1>6. ASSUME CliUndisturbed, NEW w \in Workers, NEW i \in Slot,
              pm_tables'[w][i] # NULL, pm_tables'[w][i] # tables'[w][i]
      PROVE  i <= n /\ CreatedFor(pm_tables[w][i], cli_set.rules[i].name, w)'
  <2>1. pm_tables[w][i] # NULL /\ pm_tables[w][i] # tables[w][i] =>
           i <= n - 1 /\ CreatedFor(pm_tables[w][i], cli_set.rules[i].name, w)
    BY <1>1, <1>2, <1>6 DEF MainThreadFree, CliUndisturbed, CliTables
  <2>2. CASE pm_tables'[w][i] = pm_tables[w][i]
    <3>1. i \in 1..(n - 1) /\ CreatedFor(pm_tables[w][i], cli_set.rules[i].name, w)
      BY <1>1, <1>2, <1>6, <2>1, <2>2 DEF Slot
    <3>2. i <= n /\ cli_set'.rules[i] = cli_set.rules[i]
      BY <1>1, <1>2, <3>1
    <3> QED
      BY <2>2, <3>1, <3>2 DEF CreatedFor, Stored
  <2>3. CASE i = n /\ pm_tables'[w][i] = stored[w]
    <3>1. i <= n /\ cli_set'.rules[i] = rule
      BY <1>1, <1>2, <2>3
    <3> QED
      BY <1>6, <2>3, <3>1 DEF CreatedFor, Stored, InUse
  <2> QED
    BY <1>1, <2>2, <2>3
<1>7. CliUndisturbed => CliUndisturbed'
  BY <1>1, <1>6 DEF CliUndisturbed, CliTables
<1> QED
  BY <1>3, <1>4, <1>5, <1>7 DEF PlaneInv

(* What a rule added by the CLI does to its rule set.                      *)
LEMMA CliSet ==
    ASSUME PlaneInv, NEW rule \in Rules, AddResult(cli_set, rule) = "OK",
           cli_set' = WithRule(cli_set, rule)
    PROVE  /\ RuleSetCorrect(cli_set') /\ Len(cli_set.rules) + 1 \in Slot
           /\ Len(cli_set'.rules) = Len(cli_set.rules) + 1
           /\ cli_set'.rules[Len(cli_set.rules) + 1] = rule
           /\ \A i \in 1..Len(cli_set.rules) : cli_set'.rules[i] = cli_set.rules[i]
           /\ Len(cli_set.rules) \in Nat /\ rule.name \in ValidNames
<1> DEFINE set == cli_set
<1>1. RuleSetCorrect(set) /\ AddResult(set, rule) = "OK" /\ cli_set' = WithRule(set, rule)
  BY DEF PlaneInv, PublishedType
<1>2. rule.name \in ValidNames
  BY <1>1 DEF AddResult, Valid
<1>3. Len(set.rules) \in Nat
  BY <1>1 DEF RuleSetCorrect
<1> HIDE DEF set
<1>4. /\ RuleSetCorrect(WithRule(set, rule))
      /\ Len(set.rules) + 1 \in 1..SET_MAX
      /\ Len(WithRule(set, rule).rules) = Len(set.rules) + 1
      /\ WithRule(set, rule).rules[Len(set.rules) + 1] = rule
      /\ \A i \in 1..Len(set.rules) : WithRule(set, rule).rules[i] = set.rules[i]
  BY <1>1, WithRuleCorrect
<1> QED
  BY <1>1, <1>2, <1>3, <1>4 DEF set, Slot

(* Entry n of every worker is overwritten, or of some of them.             *)
LEMMA StoreFacts ==
    ASSUME NEW S, NEW old \in [Workers -> [Slot -> S]], NEW n \in Slot, NEW some,
           NEW stored, \A w \in Workers : stored[w] \in S, NEW new,
           new = [w \in Workers |-> IF w \in some THEN [old[w] EXCEPT ![n] = stored[w]] ELSE old[w]]
    PROVE  /\ new \in [Workers -> [Slot -> S]]
           /\ \A w \in Workers : /\ new[w][n] \in {old[w][n], stored[w]}
                                 /\ \A i \in Slot : i # n => new[w][i] = old[w][i]
<1>1. ASSUME NEW w \in Workers
      PROVE  /\ new[w] \in [Slot -> S] /\ new[w][n] \in {old[w][n], stored[w]}
             /\ \A i \in Slot : i # n => new[w][i] = old[w][i]
  <2>1. old[w] \in [Slot -> S] /\ stored[w] \in S
    OBVIOUS
  <2>2. CASE w \in some
    <3>1. new[w] = [old[w] EXCEPT ![n] = stored[w]]
      BY <2>2
    <3> QED
      BY <2>1, <3>1
  <2>3. CASE w \notin some
    BY <2>1, <2>3
  <2> QED
    BY <2>2, <2>3
<1> QED
  BY <1>1

(* The workers the CLI knows of are workers.                               *)
LEMMA CliWorkersAre ==
    ASSUME PublishedType
    PROVE  CliWorkers \subseteq Workers
BY DEF PublishedType, CliWorkers, Workers

(* Handing out a column of fresh tables to some of the workers.            *)
SomeAllocated(column, name, some) ==
    heap' = [t \in Tables |-> IF \E w \in some : column[w] = t
                              THEN Allocate(column, name, 0)[t] ELSE heap[t]]

LEMMA SomeFacts ==
    ASSUME HeapType, NEW column, Fresh(column), NEW name \in ValidNames,
           NEW some, some \subseteq Workers, SomeAllocated(column, name, some)
    PROVE  /\ HeapType'
           /\ \A w \in some : heap'[column[w]] = [name |-> name, worker |-> w, generation |-> 0]
           /\ \A t \in Allocated : heap'[t] = heap[t]
           /\ \A t \in Tables : t \in Allocated' <=> t \in Allocated \/ \E w \in some : column[w] = t
<1> DEFINE all == Allocate(column, name, 0)
<1>1. /\ \A w \in Workers : column[w] \in Tables \ Allocated
      /\ \A v, w \in Workers : column[v] = column[w] => v = w
  BY DEF Fresh
<1>2. \A t \in Tables : heap'[t] = IF \E w \in some : column[w] = t THEN all[t] ELSE heap[t]
  BY DEF SomeAllocated
<1>3. ASSUME NEW w \in some
      PROVE  heap'[column[w]] = [name |-> name, worker |-> w, generation |-> 0]
  <2>1. w \in Workers /\ (CHOOSE v \in Workers : column[v] = column[w]) = w
    BY <1>1
  <2>2. all[column[w]] = [name |-> name, worker |-> w, generation |-> 0]
    BY <1>1, <2>1 DEF Allocate
  <2> HIDE DEF all
  <2> QED
    BY <1>1, <1>2, <2>1, <2>2
<1> HIDE DEF all
<1>4. \A t \in Tables : (\A w \in some : column[w] # t) => heap'[t] = heap[t]
  BY <1>2
<1>5. \A t \in Allocated : heap'[t] = heap[t]
  BY <1>1, <1>4 DEF Allocated
<1>6. \A w \in some : [name |-> name, worker |-> w, generation |-> 0] \in Contents
  BY DEF Contents
<1>7. ASSUME NEW t \in Tables PROVE heap'[t] \in Contents \cup {FREE}
  <2>1. CASE \E w \in some : column[w] = t
    BY <1>3, <1>6, <2>1
  <2>2. CASE \A w \in some : column[w] # t
    <3>1. heap[t] \in Contents \cup {FREE}
      BY DEF HeapType
    <3> QED
      BY <1>4, <2>2, <3>1
  <2> QED
    BY <2>1, <2>2
<1>8. HeapType'
  <2>1. heap' = [t \in Tables |-> heap'[t]]
    BY DEF SomeAllocated
  <2> QED
    BY <1>7, <2>1 DEF HeapType
<1>9. FREE \notin Contents
  BY DEF Contents, Workers
<1>10. \A t \in Tables : t \in Allocated' <=> t \in Allocated \/ \E w \in some : column[w] = t
  <2>1. ASSUME NEW w \in some PROVE column[w] \in Allocated'
    <3>1. heap'[column[w]] # FREE
      BY <1>3, <1>6, <1>9
    <3> QED
      BY <1>1, <3>1 DEF Allocated
  <2>2. ASSUME NEW t \in Tables, \A w \in some : column[w] # t
        PROVE  t \in Allocated' <=> t \in Allocated
    BY <1>4, <2>2 DEF Allocated
  <2> QED
    BY <2>1, <2>2
<1> QED
  BY <1>3, <1>5, <1>8, <1>10

(* What CliAdd does, element by element: it hands out tables to the        *)
(* workers the CLI knows of, and stores them.                              *)
CliStored(spec, column) ==
    LET n == Len(cli_set.rules) + 1
    IN /\ Fresh(column)
       /\ SomeAllocated(column, spec.name, CliWorkers)
       /\ packets' = PacketsOf(heap')
       /\ pm_tables' = [w \in Workers |->
                          IF w \in CliWorkers THEN [pm_tables[w] EXCEPT ![n] = column[w]]
                          ELSE pm_tables[w]]

(* What every add of the CLI does: a rule joins its rule set, which is     *)
(* published.                                                              *)
CliJoined(spec) ==
    LET n == Len(cli_set.rules) + 1
    IN /\ MainThreadFree /\ n \in Slot
       /\ RuleSetCorrect(cli_set') /\ Len(cli_set'.rules) = n
       /\ cli_set'.rules[n] = spec
       /\ \A i \in 1..(n - 1) : cli_set'.rules[i] = cli_set.rules[i]
       /\ Len(cli_set.rules) \in Nat /\ spec.name \in ValidNames
       /\ ref_count' = [ref_count EXCEPT !.cli = n]
       /\ pm_rules' = "cli" /\ adds' = [adds EXCEPT !.cli = @ + 1]
       /\ UNCHANGED <<num_workers, publishing, discarded>>
       /\ UNCHANGED workervars

LEMMA CliJoin ==
    ASSUME PlaneInv, NEW rule \in Rules, MainThreadFree,
           AddResult(cli_set, FromCommand(rule)) = "OK", CliPublished(rule)
    PROVE  CliJoined(FromCommand(rule))
<1> DEFINE spec == FromCommand(rule)
<1>1. spec \in Rules /\ AddResult(cli_set, spec) = "OK" /\ cli_set' = WithRule(cli_set, spec)
  BY Converted DEF CliPublished
<1> HIDE DEF spec
<1>2. /\ RuleSetCorrect(cli_set') /\ Len(cli_set.rules) + 1 \in Slot
      /\ Len(cli_set'.rules) = Len(cli_set.rules) + 1
      /\ cli_set'.rules[Len(cli_set.rules) + 1] = spec
      /\ \A i \in 1..Len(cli_set.rules) : cli_set'.rules[i] = cli_set.rules[i]
      /\ Len(cli_set.rules) \in Nat /\ spec.name \in ValidNames
  BY <1>1, CliSet
<1>3. (Len(cli_set.rules) + 1) - 1 = Len(cli_set.rules)
  BY <1>2
<1> QED
  BY <1>2, <1>3 DEF CliPublished, CliJoined, spec

LEMMA CliAddStep ==
    ASSUME PlaneInv, NEW rule \in Rules, CliAdd(rule)
    PROVE  /\ CliJoined(FromCommand(rule))
           /\ \E column : CliStored(FromCommand(rule), column)
           /\ UNCHANGED <<rule_set, tables, flow_rule_ids, retired>>
<1>1. CliJoined(FromCommand(rule))
  BY CliJoin DEF CliAdd
<1>2. FromCommand(rule).name = rule.name
  BY Converted
<1>3. Fresh(CHOOSE c \in FreshColumns : TRUE)
  BY FreshColumn DEF CliAdd
<1>4. CliStored(FromCommand(rule), CHOOSE c \in FreshColumns : TRUE)
  BY <1>2, <1>3 DEF CliAdd, CliStored, SomeAllocated
<1>5. UNCHANGED <<rule_set, tables, flow_rule_ids, retired>>
  BY DEF CliAdd
<1> QED
  BY <1>1, <1>4, <1>5

LEMMA CliAddKeeps ==
    ASSUME PlaneInv, NEW rule \in Rules, CliAdd(rule)
    PROVE  PlaneInv' /\ (CliUndisturbed => CliUndisturbed')
<1> DEFINE n == Len(cli_set.rules) + 1
<1>1. PICK spec \in Rules :
        /\ CliJoined(spec) /\ \E column : CliStored(spec, column)
        /\ UNCHANGED <<rule_set, tables, flow_rule_ids, retired>>
  BY CliAddStep, Converted
<1>2. PICK column : CliStored(spec, column)
  BY <1>1
<1>3. spec.name \in ValidNames /\ Fresh(column) /\ CliWorkers \subseteq Workers
      /\ SomeAllocated(column, spec.name, CliWorkers) /\ HeapType
  BY <1>1, <1>2, CliWorkersAre DEF CliJoined, CliStored, PlaneInv, CtxInv
<1>4. /\ HeapType'
      /\ \A w \in CliWorkers : heap'[column[w]] = [name |-> spec.name, worker |-> w, generation |-> 0]
      /\ \A t \in Allocated : heap'[t] = heap[t]
      /\ \A t \in Tables : t \in Allocated' <=> t \in Allocated \/ \E w \in CliWorkers : column[w] = t
  BY <1>3, SomeFacts
<1>5. Allocated \subseteq Allocated'
  BY <1>4 DEF Allocated
<1>6. CtxInv'
  BY <1>1, <1>4, <1>5, AllocatingKeeps DEF PlaneInv
<1> DEFINE stored == [w \in Workers |-> IF w \in CliWorkers THEN column[w] ELSE NULL]
<1>7. \A w \in Workers : column[w] \in Tables /\ column[w] \notin Allocated
  BY <1>3 DEF Fresh
<1>8. \A w \in Workers : stored[w] \in Tables \cup {NULL}
  BY <1>7
<1>9. Stored(spec, stored)
  <2>1. \A w \in Workers, m \in 1..Len(retired) : retired[m][w] \in Allocated
    BY DEF PlaneInv, CtxInv, OneOwner
  <2>2. ASSUME NEW w \in CliWorkers
        PROVE  /\ InUse(column[w], Allocated', retired')
               /\ heap'[column[w]].name = spec.name /\ heap'[column[w]].worker = w
    <3>1. w \in Workers /\ column[w] \in Allocated'
      BY <1>3, <1>4, <1>7
    <3>2. InUse(column[w], Allocated', retired')
      BY <1>1, <1>7, <2>1, <3>1 DEF InUse
    <3>3. heap'[column[w]] = [name |-> spec.name, worker |-> w, generation |-> 0]
      BY <1>4
    <3>4. heap'[column[w]].name = spec.name /\ heap'[column[w]].worker = w
      BY ONLY <3>3
    <3> QED
      BY <3>2, <3>4
  <2>3. \A w \in Workers : stored[w] # NULL => w \in CliWorkers /\ stored[w] = column[w]
    OBVIOUS
  <2> HIDE DEF stored
  <2> QED
    BY <1>4, <1>5, <2>2, <2>3 DEF Stored
<1>10. /\ pm_tables' \in [Workers -> [Slot -> Tables \cup {NULL}]]
       /\ \A w \in Workers :
            /\ pm_tables'[w][n] \in {pm_tables[w][n], stored[w]}
            /\ \A i \in Slot : i # n => pm_tables'[w][i] = pm_tables[w][i]
  <2> DEFINE S == Tables \cup {NULL}
             old == pm_tables
             new == pm_tables'
             some == CliWorkers
  <2>1. old \in [Workers -> [Slot -> S]] /\ \A w \in Workers : stored[w] \in S
    BY <1>8 DEF PlaneInv, PublishedType
  <2>2. new = [w \in Workers |-> IF w \in some THEN [old[w] EXCEPT ![n] = stored[w]] ELSE old[w]]
    BY <1>2 DEF CliStored
  <2>3. n \in Slot
    BY <1>1 DEF CliJoined
  <2> HIDE DEF S, old, new, n, some, stored
  <2>4. /\ new \in [Workers -> [Slot -> S]]
        /\ \A w \in Workers : /\ new[w][n] \in {old[w][n], stored[w]}
                              /\ \A i \in Slot : i # n => new[w][i] = old[w][i]
    BY <2>1, <2>2, <2>3, StoreFacts
  <2> QED
    BY <2>4 DEF S, old, new
<1>11. packets' \in [Tables -> Nat]
  BY <1>2, PacketsType DEF PlaneInv, CliStored
<1> HIDE DEF stored
<1>12. CliAdded(spec, stored)
  BY <1>1, <1>10, <1>11 DEF CliJoined, CliAdded
<1> QED
  BY <1>6, <1>9, <1>12, CliAddedKeeps

(* The tables that were allocated before stay what they are.               *)
LEMMA CliAllocates ==
    ASSUME PlaneInv, NEW rule \in Rules, CliAdd(rule)
    PROVE  /\ \A t \in Allocated : heap'[t] = heap[t]
           /\ packets' = PacketsOf(heap')
<1>1. PICK spec \in Rules : CliJoined(spec) /\ \E column : CliStored(spec, column)
  BY CliAddStep, Converted
<1>2. PICK column : CliStored(spec, column)
  BY <1>1
<1>3. /\ HeapType /\ Fresh(column) /\ spec.name \in ValidNames /\ CliWorkers \subseteq Workers
      /\ SomeAllocated(column, spec.name, CliWorkers) /\ packets' = PacketsOf(heap')
  BY <1>1, <1>2, CliWorkersAre DEF PlaneInv, CtxInv, CliJoined, CliStored
<1> QED
  BY <1>3, SomeFacts

LEMMA CliAddAllocFailsKeeps ==
    ASSUME PlaneInv, NEW rule \in Rules, NEW u \in CliWorkers, CliAddAllocFails(rule, u)
    PROVE  PlaneInv' /\ (CliUndisturbed => CliUndisturbed')
<1> DEFINE n == Len(cli_set.rules) + 1
           nothing == [w \in Workers |-> NULL]
<1>1. /\ pm_tables' = [w \in Workers |-> IF w < u THEN [pm_tables[w] EXCEPT ![n] = NULL] ELSE pm_tables[w]]
      /\ UNCHANGED ctxvars /\ packets' = packets
  BY DEF CliAddAllocFails, vars
<1>2. PICK spec \in Rules : CliJoined(spec)
  BY CliJoin, Converted DEF CliAddAllocFails
<1>3. CtxInv'
  BY <1>1, UnchangedKeeps DEF PlaneInv
<1>4. /\ rule_set' = rule_set /\ tables' = tables /\ flow_rule_ids' = flow_rule_ids
      /\ retired' = retired /\ heap' = heap
  BY <1>1 DEF ctxvars
<1>5. Stored(spec, nothing)
  BY <1>4 DEF Stored, Allocated
<1>6. /\ pm_tables' \in [Workers -> [Slot -> Tables \cup {NULL}]]
      /\ \A w \in Workers :
           /\ pm_tables'[w][n] \in {pm_tables[w][n], nothing[w]}
           /\ \A i \in Slot : i # n => pm_tables'[w][i] = pm_tables[w][i]
  <2> DEFINE S == Tables \cup {NULL}
             old == pm_tables
             new == pm_tables'
             some == {w \in Workers : w < u}
  <2>1. old \in [Workers -> [Slot -> S]] /\ \A w \in Workers : nothing[w] \in S
    BY DEF PlaneInv, PublishedType
  <2>2. new = [w \in Workers |-> IF w \in some THEN [old[w] EXCEPT ![n] = nothing[w]] ELSE old[w]]
    BY <1>1
  <2>3. n \in Slot
    BY <1>2 DEF CliJoined
  <2> HIDE DEF S, old, new, n, some, nothing
  <2>4. /\ new \in [Workers -> [Slot -> S]]
        /\ \A w \in Workers : /\ new[w][n] \in {old[w][n], nothing[w]}
                              /\ \A i \in Slot : i # n => new[w][i] = old[w][i]
    BY <2>1, <2>2, <2>3, StoreFacts
  <2> QED
    BY <2>4 DEF S, old, new
<1>7. packets' \in [Tables -> Nat]
  BY <1>1 DEF PlaneInv, PublishedType
<1>8. CliAdded(spec, nothing)
  BY <1>1, <1>2, <1>4, <1>6, <1>7 DEF CliJoined, CliAdded
<1> HIDE DEF nothing
<1> QED
  BY <1>3, <1>5, <1>8, CliAddedKeeps

-----------------------------------------------------------------------------
(* The workers.  Their steps leave everything alone but packets, and       *)
(* happen only while no handler is at work.                                *)
WorkerStep == UNCHANGED mainvars /\ packets' \in [Tables -> Nat]

LEMMA WorkerStepKeeps ==
    ASSUME PlaneInv, WorkerStep, Frames'
    PROVE  PlaneInv' /\ (CliUndisturbed => CliUndisturbed')
<1>1. /\ pm_rules' = pm_rules /\ ref_count' = ref_count /\ pm_tables' = pm_tables
      /\ cli_set' = cli_set /\ publishing' = publishing /\ UNCHANGED ctxvars
      /\ num_workers' = num_workers
      /\ rule_set' = rule_set /\ tables' = tables /\ heap' = heap /\ retired' = retired
  BY DEF WorkerStep, mainvars, vars, ctxvars
<1>2. CtxInv'
  BY <1>1, UnchangedKeeps DEF PlaneInv
<1>3. PublishedType'
  BY <1>1 DEF PlaneInv, PublishedType, WorkerStep
<1>4. PublishedInUse'
  BY <1>1 DEF PlaneInv, PublishedInUse, Allocated, Count
<1>5. CliUndisturbed => CliUndisturbed'
  BY <1>1 DEF CliUndisturbed, CliTables, CreatedFor, Allocated
<1> QED
  BY <1>2, <1>3, <1>4, <1>5 DEF PlaneInv

(* One worker's queue, scratch and pointers change.                        *)
LEMMA FramesOf ==
    ASSUME Frames, NEW u \in Workers, ~publishing', pm_tables' = pm_tables,
           queue' \in [Workers -> Seq(FrameKinds)], scratch' \in [Workers -> Seq(Entries)],
           held' \in [Workers -> [Slot -> Tables \cup {NULL}]],
           \A w \in Workers : w # u => queue'[w] = queue[w] /\ held'[w] = held[w],
           \A k \in 2..Len(queue'[u]) : queue'[u][k] # "update",
           queue'[u] # << >> /\ Head(queue'[u]) = "update" => held'[u] = pm_tables[u]
    PROVE  Frames'
<1>1. ASSUME NEW w \in Workers
      PROVE  /\ queue'[w] # << >> => ~publishing'
             /\ \A k \in 2..Len(queue'[w]) : queue'[w][k] # "update"
             /\ queue'[w] # << >> /\ Head(queue'[w]) = "update" => held'[w] = pm_tables'[w]
  <2>1. CASE w = u
    BY <2>1
  <2>2. CASE w # u
    BY <2>2 DEF Frames
  <2> QED
    BY <2>1, <2>2
<1> QED
  BY <1>1 DEF Frames

(* A frame leaves the head of a queue, and none of the others is under way.*)
LEMMA TailFacts ==
    ASSUME NEW q \in Seq(FrameKinds), q # << >>, \A k \in 2..Len(q) : q[k] # "update"
    PROVE  /\ Tail(q) \in Seq(FrameKinds) /\ Len(Tail(q)) = Len(q) - 1 /\ Len(q) \in Nat
           /\ \A k \in 1..Len(Tail(q)) : Tail(q)[k] # "update"
<1>1. /\ Tail(q) \in Seq(FrameKinds) /\ Len(Tail(q)) = Len(q) - 1 /\ Len(q) \in Nat
      /\ \A k \in 1..(Len(q) - 1) : Tail(q)[k] = q[k + 1]
  OBVIOUS
<1>2. \A k \in 1..(Len(q) - 1) : k + 1 \in 2..Len(q)
  BY <1>1
<1> QED
  BY <1>1, <1>2

LEMMA ReceiveKeeps ==
    ASSUME PlaneInv, NEW u \in Workers, NEW m \in 1..MAX_FRAMES, Receive(u, m)
    PROVE  PlaneInv' /\ (CliUndisturbed => CliUndisturbed')
<1> DEFINE q == [k \in 1..m |-> "match"]
<1>1. /\ ~publishing /\ queue' = [queue EXCEPT ![u] = q] /\ UNCHANGED mainvars
      /\ packets' = packets /\ scratch' = scratch /\ held' = held
  BY DEF Receive, WorkersRun
<1>2. q \in Seq(FrameKinds) /\ \A k \in 1..Len(q) : q[k] # "update"
  <2>1. m \in Nat /\ \A k \in 1..m : q[k] \in FrameKinds
    BY DEF FrameKinds
  <2>2. q \in Seq(FrameKinds) /\ Len(q) = m
    BY <2>1, IsASeq, LenProperties
  <2> QED
    BY <2>2
<1> HIDE DEF q
<1>3. /\ queue' \in [Workers -> Seq(FrameKinds)] /\ queue'[u] = q
      /\ \A w \in Workers : w # u => queue'[w] = queue[w]
      /\ scratch' \in [Workers -> Seq(Entries)]
      /\ held' \in [Workers -> [Slot -> Tables \cup {NULL}]]
  BY <1>1, <1>2 DEF PlaneInv, Frames
<1>4. ~publishing' /\ pm_tables' = pm_tables
  BY <1>1 DEF mainvars
<1>5. \A k \in 2..Len(queue'[u]) : queue'[u][k] # "update"
  BY <1>2, <1>3
<1>6. queue'[u] # << >> => Head(queue'[u]) # "update"
  BY <1>2, <1>3
<1>7. Frames'
  BY <1>1, <1>3, <1>4, <1>5, <1>6, FramesOf DEF PlaneInv
<1>8. WorkerStep
  BY <1>1 DEF WorkerStep, PlaneInv, PublishedType
<1> QED
  BY <1>7, <1>8, WorkerStepKeeps

LEMMA FlowMatchKeeps ==
    ASSUME PlaneInv, NEW u \in Workers, FlowMatch(u)
    PROVE  PlaneInv' /\ (CliUndisturbed => CliUndisturbed')
<1> DEFINE entries == [i \in DOMAIN PublishedRules |-> [index |-> i, name |-> PublishedRules[i].name]]
           q == queue[u]
           new == IF PublishedRules = << >> THEN Tail(q) ELSE Append(Tail(q), "counter")
<1>0. Frames /\ queue \in [Workers -> Seq(FrameKinds)] /\ q \in Seq(FrameKinds)
  BY DEF PlaneInv, Frames
<1>1. /\ ~publishing /\ q # << >>
      /\ scratch' = [scratch EXCEPT ![u] = entries]
      /\ UNCHANGED mainvars
      /\ packets' = packets /\ held' = held
  BY DEF FlowMatch, WorkersRun
<1>2. queue' = [queue EXCEPT ![u] = new]
  BY <1>0 DEF FlowMatch
<1>3. entries \in Seq(Entries)
  <2>1. /\ PublishedRules \in Seq(Rules) /\ Len(PublishedRules) <= SET_MAX
        /\ Len(PublishedRules) \in Nat /\ DOMAIN PublishedRules = 1..Len(PublishedRules)
        /\ \A i \in 1..Len(PublishedRules) : PublishedRules[i].name \in ValidNames
    BY <1>1, PublishedRulesType
  <2>2. \A i \in 1..Len(PublishedRules) : i \in Slot
    BY <2>1 DEF Slot
  <2>3. entries = [i \in 1..Len(PublishedRules) |-> [index |-> i, name |-> PublishedRules[i].name]]
    BY <2>1
  <2>4. \A i \in 1..Len(PublishedRules) : [index |-> i, name |-> PublishedRules[i].name] \in Entries
    BY <2>1, <2>2 DEF Entries
  <2> QED
    BY <2>1, <2>3, <2>4, IsASeq
<1> HIDE DEF entries
<1>4. new \in Seq(FrameKinds) /\ \A k \in 1..Len(new) : new[k] # "update"
  <2>1. /\ Tail(q) \in Seq(FrameKinds) /\ \A k \in 1..Len(Tail(q)) : Tail(q)[k] # "update"
    <3>1. \A k \in 2..Len(q) : q[k] # "update"
      BY <1>0 DEF Frames
    <3> HIDE DEF q
    <3> QED
      BY <1>0, <1>1, <3>1, TailFacts
  <2> DEFINE r == Tail(q)
  <2>2. "counter" \in FrameKinds /\ r \in Seq(FrameKinds) /\ \A k \in 1..Len(r) : r[k] # "update"
    BY <2>1 DEF FrameKinds
  <2> HIDE DEF r
  <2>3. /\ Append(r, "counter") \in Seq(FrameKinds)
        /\ \A k \in 1..Len(Append(r, "counter")) : Append(r, "counter")[k] # "update"
    BY <2>2
  <2> QED
    BY <2>2, <2>3 DEF r
<1> HIDE DEF new, q
<1>5. /\ queue' \in [Workers -> Seq(FrameKinds)] /\ queue'[u] = new
      /\ \A w \in Workers : w # u => queue'[w] = queue[w]
  BY <1>0, <1>2, <1>4
<1>6. scratch' \in [Workers -> Seq(Entries)] /\ held' \in [Workers -> [Slot -> Tables \cup {NULL}]]
  BY <1>0, <1>1, <1>3 DEF Frames
<1>7. ~publishing' /\ pm_tables' = pm_tables
  BY <1>1 DEF mainvars
<1>8. (\A k \in 2..Len(queue'[u]) : queue'[u][k] # "update") /\ (queue'[u] # << >> => Head(queue'[u]) # "update")
  BY <1>4, <1>5
<1>9. Frames'
  BY <1>0, <1>1, <1>5, <1>6, <1>7, <1>8, FramesOf
<1>10. WorkerStep
  BY <1>1 DEF WorkerStep, PlaneInv, PublishedType
<1> QED
  BY <1>9, <1>10, WorkerStepKeeps

LEMMA CounterLoadKeeps ==
    ASSUME PlaneInv, NEW u \in Workers, CounterLoad(u)
    PROVE  PlaneInv' /\ (CliUndisturbed => CliUndisturbed')
<1> DEFINE q == queue[u]
           r == Tail(q)
           new == <<"update">> \o r
<1>0. Frames /\ queue \in [Workers -> Seq(FrameKinds)] /\ q \in Seq(FrameKinds)
  BY DEF PlaneInv, Frames
<1>1. /\ ~publishing /\ q # << >> /\ held' = [held EXCEPT ![u] = pm_tables[u]]
      /\ UNCHANGED mainvars /\ packets' = packets /\ scratch' = scratch
  BY DEF CounterLoad, WorkersRun
<1>2. queue' = [queue EXCEPT ![u] = new]
  BY <1>0 DEF CounterLoad
<1>3. r \in Seq(FrameKinds) /\ Len(r) \in Nat /\ \A k \in 1..Len(r) : r[k] # "update"
  <2>1. \A k \in 2..Len(q) : q[k] # "update"
    BY <1>0 DEF Frames
  <2> HIDE DEF q
  <2> QED
    BY <1>0, <1>1, <2>1, TailFacts
<1> HIDE DEF r
<1>4. /\ new \in Seq(FrameKinds) /\ Len(new) = Len(r) + 1
      /\ \A k \in 2..Len(new) : new[k] # "update"
  <2>1. <<"update">> \in Seq(FrameKinds) /\ Len(<<"update">>) = 1
    BY DEF FrameKinds
  <2>2. new \in Seq(FrameKinds) /\ Len(new) = 1 + Len(r)
    BY <1>3, <2>1
  <2>3. \A k \in 2..Len(new) : new[k] = r[k - 1] /\ k - 1 \in 1..Len(r)
    BY <1>3, <2>1, <2>2
  <2> HIDE DEF new
  <2> QED
    BY <1>3, <2>2, <2>3
<1> HIDE DEF new, q
<1>5. /\ queue' \in [Workers -> Seq(FrameKinds)] /\ queue'[u] = new
      /\ \A w \in Workers : w # u => queue'[w] = queue[w] /\ held'[w] = held[w]
      /\ scratch' \in [Workers -> Seq(Entries)]
      /\ held' \in [Workers -> [Slot -> Tables \cup {NULL}]] /\ held'[u] = pm_tables[u]
  <2>1. pm_tables[u] \in [Slot -> Tables \cup {NULL}] /\ held \in [Workers -> [Slot -> Tables \cup {NULL}]]
    BY <1>0 DEF PlaneInv, PublishedType, Frames
  <2> QED
    BY <1>0, <1>1, <1>2, <1>4, <2>1 DEF Frames
<1>6. ~publishing' /\ pm_tables' = pm_tables
  BY <1>1 DEF mainvars
<1>8. Frames'
  BY <1>0, <1>1, <1>4, <1>5, <1>6, FramesOf
<1>9. WorkerStep
  BY <1>1 DEF WorkerStep, PlaneInv, PublishedType
<1> QED
  BY <1>8, <1>9, WorkerStepKeeps

(* How many entries of a scratch vector fall into a set is a number.       *)
LEMMA CountIsNat ==
    ASSUME NEW s \in Seq(Entries), NEW some, some \subseteq DOMAIN s
    PROVE  Cardinality(some) \in Nat
<1>1. DOMAIN s = 1..Len(s) /\ Len(s) \in Nat
  OBVIOUS
<1>2. IsFiniteSet(1..Len(s))
  BY <1>1, FS_Interval
<1> QED
  BY <1>1, <1>2, FS_Subset, FS_CardinalityType

LEMMA CounterUpdateKeeps ==
    ASSUME PlaneInv, NEW u \in Workers, CounterUpdate(u)
    PROVE  PlaneInv' /\ (CliUndisturbed => CliUndisturbed')
<1> DEFINE q == queue[u]
           r == Tail(q)
           hits(t) == {i \in DOMAIN scratch[u] : Target(u, scratch[u][i]) = t}
<1>0. /\ Frames /\ queue \in [Workers -> Seq(FrameKinds)] /\ q \in Seq(FrameKinds)
      /\ scratch[u] \in Seq(Entries) /\ packets \in [Tables -> Nat]
  BY DEF PlaneInv, Frames, PublishedType
<1>1. /\ ~publishing /\ q # << >> /\ queue' = [queue EXCEPT ![u] = r]
      /\ packets' = [t \in Tables |-> packets[t] + Cardinality(hits(t))]
      /\ scratch' = [scratch EXCEPT ![u] = << >>] /\ held' = [held EXCEPT ![u] = NoTables]
      /\ UNCHANGED mainvars
  BY <1>0 DEF CounterUpdate, WorkersRun
<1>2. ASSUME NEW t \in Tables PROVE Cardinality(hits(t)) \in Nat
  <2>1. hits(t) \subseteq DOMAIN scratch[u]
    OBVIOUS
  <2> HIDE DEF hits
  <2> QED
    BY <1>0, <2>1, CountIsNat
<1> HIDE DEF hits
<1>3. packets' \in [Tables -> Nat]
  BY <1>0, <1>1, <1>2
<1>4. r \in Seq(FrameKinds) /\ \A k \in 1..Len(r) : r[k] # "update"
  <2>1. \A k \in 2..Len(q) : q[k] # "update"
    BY <1>0 DEF Frames
  <2> HIDE DEF q
  <2> QED
    BY <1>0, <1>1, <2>1, TailFacts
<1> HIDE DEF r, q
<1>5. NoTables \in [Slot -> Tables \cup {NULL}]
  BY DEF NoTables
<1>6. /\ queue' \in [Workers -> Seq(FrameKinds)] /\ queue'[u] = r
      /\ \A w \in Workers : w # u => queue'[w] = queue[w] /\ held'[w] = held[w]
      /\ scratch' \in [Workers -> Seq(Entries)]
      /\ held' \in [Workers -> [Slot -> Tables \cup {NULL}]]
  <2>1. << >> \in Seq(Entries)
    OBVIOUS
  <2>2. /\ scratch \in [Workers -> Seq(Entries)]
        /\ held \in [Workers -> [Slot -> Tables \cup {NULL}]]
    BY <1>0 DEF Frames
  <2> QED
    BY <1>0, <1>1, <1>4, <1>5, <2>1, <2>2
<1>7. ~publishing' /\ pm_tables' = pm_tables
  BY <1>1 DEF mainvars
<1>8. /\ \A k \in 2..Len(queue'[u]) : queue'[u][k] # "update"
      /\ queue'[u] # << >> => Head(queue'[u]) # "update"
  BY <1>4, <1>6
<1>9. Frames'
  BY <1>0, <1>6, <1>7, <1>8, FramesOf
<1>10. WorkerStep
  BY <1>1, <1>3 DEF WorkerStep
<1> QED
  BY <1>9, <1>10, WorkerStepKeeps

-----------------------------------------------------------------------------
(* Both invariants are inductive.                                          *)
LEMMA PlaneStep ==
    ASSUME PlaneInv, [DPNext]_allvars
    PROVE  PlaneInv' /\ (CliUndisturbed => CliUndisturbed')
<1>1. ASSUME NEW rule \in Rules, NEW id \in UnusedIds, AddHandler(rule, id)
      PROVE  PlaneInv' /\ (CliUndisturbed => CliUndisturbed')
  BY <1>1, AddHandlerKeeps
<1>2. ASSUME NEW id \in Ids, DelHandler(id) \/ SnapshotHandler(id)
      PROVE  PlaneInv' /\ (CliUndisturbed => CliUndisturbed')
  BY <1>2, DelHandlerKeeps, SnapshotHandlerKeeps
<1>3. ASSUME NEW rule \in Rules, CliAdd(rule)
      PROVE  PlaneInv' /\ (CliUndisturbed => CliUndisturbed')
  BY <1>3, CliAddKeeps
<1>4. ASSUME NEW rule \in Rules, NEW w \in CliWorkers, CliAddAllocFails(rule, w)
      PROVE  PlaneInv' /\ (CliUndisturbed => CliUndisturbed')
  BY <1>4, CliAddAllocFailsKeeps
<1>5. ASSUME Ensure \/ Publish
      PROVE  PlaneInv' /\ (CliUndisturbed => CliUndisturbed')
  BY <1>5, EnsureKeeps, PublishKeeps
<1>6. ASSUME NEW w \in Workers,
             (\E n \in 1..MAX_FRAMES : Receive(w, n)) \/ FlowMatch(w) \/ CounterLoad(w) \/ CounterUpdate(w)
      PROVE  PlaneInv' /\ (CliUndisturbed => CliUndisturbed')
  BY <1>6, ReceiveKeeps, FlowMatchKeeps, CounterLoadKeeps, CounterUpdateKeeps
<1>7. CASE UNCHANGED allvars
  <2>1. UNCHANGED mainvars /\ UNCHANGED <<packets, queue, scratch, held>>
    BY <1>7 DEF allvars, dpvars, mainvars
  <2>2. WorkerStep
    BY <2>1 DEF WorkerStep, PlaneInv, PublishedType
  <2>3. Frames'
    BY <2>1 DEF mainvars, PlaneInv, Frames
  <2> QED
    BY <2>2, <2>3, WorkerStepKeeps
<1> QED
  BY <1>1, <1>2, <1>3, <1>4, <1>5, <1>6, <1>7 DEF DPNext

LEMMA PlaneInvariance == DPSpec => []PlaneInv
<1>1. DPInit => PlaneInv
  BY PlaneInit
<1>2. PlaneInv /\ [DPNext]_allvars => PlaneInv'
  BY PlaneStep
<1> QED
  BY <1>1, <1>2, PTL DEF DPSpec

LEMMA CliInvariance == DPSpec => [](PlaneInv /\ CliUndisturbed)
<1>1. DPInit => PlaneInv /\ CliUndisturbed
  BY PlaneInit
<1>2. PlaneInv /\ CliUndisturbed /\ [DPNext]_allvars => PlaneInv' /\ CliUndisturbed'
  BY PlaneStep
<1> QED
  BY <1>1, <1>2, PTL DEF DPSpec

-----------------------------------------------------------------------------
(* The tables published for a rule are that rule's.                        *)
LEMMA PublishedTablesMatch ==
    ASSUME PlaneInv, CliUndisturbed
    PROVE  PublishedTablesMatchRules
<1> DEFINE Matches(w, i) ==
             \/ CreatedFor(pm_tables[w][i], PublishedRules[i].name, w)
             \/ /\ pm_rules = "cli"
                /\ \/ pm_tables[w][i] = NULL
                   \/ i <= Count /\ CreatedFor(pm_tables[w][i], rule_set.rules[i].name, w)
<1> SUFFICES ASSUME ~publishing, NEW w \in Workers, NEW i \in DOMAIN PublishedRules
             PROVE  Matches(w, i)
  BY DEF PublishedTablesMatchRules
<1>1. pm_rules \in {"none", "api", "cli"} /\ PublishedRules \in Seq(Rules)
      /\ Len(PublishedRules) <= SET_MAX
  BY PublishedRulesType DEF PlaneInv, PublishedType
<1>2. CASE pm_rules = "api"
  <2>1. PublishedRules = rule_set.rules /\ pm_tables = tables
    BY <1>2, PublishedRulesAre DEF PlaneInv, PublishedInUse
  <2>2. i \in 1..Count
    BY <1>1, <2>1 DEF Count
  <2>3. i \in Slot /\ i <= Count
    BY <2>2, LiveFacts DEF PlaneInv
  <2> QED
    BY <2>1, <2>3 DEF PlaneInv, CtxInv, TablesFollowRules, CreatedFor
<1>3. CASE pm_rules = "cli"
  <2>1. PublishedRules = cli_set.rules
    BY <1>3, PublishedRulesAre
  <2>2. i <= Len(cli_set.rules) /\ i \in Slot
    BY <1>1, <2>1 DEF Slot
  <2>3. CASE pm_tables[w][i] # NULL /\ pm_tables[w][i] = tables[w][i]
    <3>1. i <= Count
      BY <2>2, <2>3, LiveFacts DEF PlaneInv, Slot
    <3>2. CreatedFor(pm_tables[w][i], rule_set.rules[i].name, w)
      BY <2>2, <2>3, <3>1 DEF PlaneInv, CtxInv, TablesFollowRules, CreatedFor
    <3> QED
      BY <1>3, <3>1, <3>2
  <2>4. CASE pm_tables[w][i] # NULL /\ pm_tables[w][i] # tables[w][i]
    BY <2>1, <2>2, <2>4 DEF CliUndisturbed, CliTables
  <2> QED
    BY <1>3, <2>3, <2>4
<1>4. CASE pm_rules = "none"
  <2>1. PublishedRules = << >>
    BY <1>4, PublishedRulesAre
  <2> QED
    BY <2>1
<1> QED
  BY <1>1, <1>2, <1>3, <1>4

(* The rule list and the table pointers are published by separate stores   *)
(* (infmon_vpp_publish_rules, infmon_flow_rule_add_command_fn), and the    *)
(* two front ends write the same pointers for rule sets of their own.      *)
(* Whatever they did before, and in whatever order: under the API's rules  *)
(* every worker finds the i-th rule's own table at i, and under the CLI's  *)
(* it finds that, none, or the table of the API's i-th rule.               *)
THEOREM PublishedTablesMatchRulesCorrect == DPSpec => []PublishedTablesMatchRules
<1>1. PlaneInv /\ CliUndisturbed => PublishedTablesMatchRules
  BY PublishedTablesMatch
<1> QED
  BY <1>1, CliInvariance, PTL

(* The tables a frame in the counter node is about to update.              *)
LEMMA TargetsInUse ==
    ASSUME PlaneInv, NEW w \in Workers, queue[w] # << >>, Head(queue[w]) = "update",
           NEW i \in DOMAIN scratch[w], Target(w, scratch[w][i]) # NULL
    PROVE  InUse(Target(w, scratch[w][i]), Allocated, retired)
<1>1. scratch[w] \in Seq(Entries) /\ ~publishing /\ held[w] = pm_tables[w]
  BY DEF PlaneInv, Frames
<1>2. scratch[w][i] \in Entries
  BY <1>1
<1>3. scratch[w][i].index \in Slot
  BY <1>2 DEF Entries
<1> QED
  BY <1>1, <1>3 DEF PlaneInv, PublishedInUse, Target

(* No worker updates a table that a delete has destroyed, with one front   *)
(* end or both: the pointers are loaded and used within one loop iteration *)
(* (infmon_counter_node_fn), and the handlers run between two.             *)
THEOREM UpdatesReachLiveTablesCorrect == DPSpec => []UpdatesReachLiveTables
<1>1. PlaneInv => UpdatesReachLiveTables
  BY TargetsInUse DEF UpdatesReachLiveTables, InUse
<1> QED
  BY <1>1, PlaneInvariance, PTL

(* The packets of a table change only when the allocator hands it out.     *)
LEMMA FreshCountsElsewhere ==
    ASSUME CtxInv, NEW column, Fresh(column), NEW name \in ValidNames, NEW generation \in Nat,
           PublishedType, heap' = Allocate(column, name, generation), packets' = PacketsOf(heap')
    PROVE  \A t \in Allocated : packets'[t] = packets[t]
<1>1. \A t \in Allocated : heap'[t] = heap[t]
  BY AllocateFacts DEF CtxInv
<1>2. \A t \in Tables : heap[t] = heap'[t] => packets'[t] = packets[t]
  BY DEF PacketsOf
<1> QED
  BY <1>1, <1>2 DEF Allocated

(* A retired table is final: neither a packet under way when it was        *)
(* retired nor a later handler changes its counters                        *)
(* (infmon_snapshot_and_clear, spec 004 7.2).                              *)
THEOREM RetiredTablesImmutableCorrect == DPSpec => RetiredTablesImmutable
<1> DEFINE Final == \A n \in 1..Len(retired), w \in Workers :
                        packets'[retired[n][w]] = packets[retired[n][w]]
           Kept == \A t \in Allocated : packets'[t] = packets[t]
<1>1. ASSUME PlaneInv, Kept PROVE Final
  BY <1>1 DEF PlaneInv, CtxInv, OneOwner
<1>2. ASSUME packets' = packets PROVE Kept
  BY <1>2
<1>3. ASSUME PlaneInv, NEW rule \in Rules, NEW id \in UnusedIds, AddHandler(rule, id) PROVE Kept
  <2>1. PICK spec \in Rules : FlowRuleAdd(spec, id)
    BY <1>3, Converted DEF AddHandler
  <2>2. CtxInv /\ PublishedType /\ packets' = PacketsOf(heap')
    BY <1>3 DEF PlaneInv, AddHandler
  <2>3. PICK column : Added(column, spec, id)
    BY <2>1, <2>2, AddStep
  <2>4. Fresh(column) /\ heap' = Allocate(column, spec.name, 0)
    BY <2>3 DEF Added
  <2>5. spec.name \in ValidNames
    BY <2>1, AddedName DEF FlowRuleAdd
  <2> QED
    BY <2>2, <2>4, <2>5, FreshCountsElsewhere
<1>4. ASSUME PlaneInv, NEW id \in Ids, SnapshotHandler(id) PROVE Kept
  <2>1. CtxInv /\ PublishedType /\ SnapshotAndClear(id) /\ packets' = PacketsOf(heap')
    BY <1>4 DEF PlaneInv, SnapshotHandler
  <2>2. PICK i \in 1..Count, generation \in Nat : \E column : Snapped(i, column, generation, id)
    BY <2>1, SnapshotStep
  <2>3. PICK column : Snapped(i, column, generation, id)
    BY <2>2
  <2>4. Fresh(column) /\ heap' = Allocate(column, rule_set.rules[i].name, generation)
    BY <2>3 DEF Snapped
  <2>5. rule_set.rules[i].name \in ValidNames
    BY <2>1 DEF CtxInv, RuleSetCorrect, Count
  <2> QED
    BY <2>1, <2>4, <2>5, FreshCountsElsewhere
<1>5. ASSUME PlaneInv, NEW rule \in Rules, CliAdd(rule) PROVE Kept
  <2>1. /\ \A t \in Allocated : heap'[t] = heap[t]
        /\ packets' = PacketsOf(heap')
    BY <1>5, CliAllocates
  <2> QED
    BY <2>1 DEF PacketsOf, Allocated
<1>6. ASSUME PlaneInv, NEW u \in Workers, CounterUpdate(u) PROVE Final
  <2> DEFINE hits(t) == {i \in DOMAIN scratch[u] : Target(u, scratch[u][i]) = t}
  <2>1. /\ queue[u] # << >> /\ Head(queue[u]) = "update"
        /\ packets' = [t \in Tables |-> packets[t] + Cardinality(hits(t))]
    BY <1>6 DEF CounterUpdate
  <2>2. ASSUME NEW n \in 1..Len(retired), NEW w \in Workers
        PROVE  packets'[retired[n][w]] = packets[retired[n][w]]
    <3>1. retired[n][w] \in Allocated /\ retired[n][w] \in Tables
      BY <1>6 DEF PlaneInv, CtxInv, OneOwner, Allocated
    <3>2. hits(retired[n][w]) = {}
      BY <1>6, <2>1, <3>1, TargetsInUse DEF InUse
    <3>3. Cardinality({}) = 0
      BY FS_EmptySet
    <3>4. packets[retired[n][w]] \in Nat
      BY <1>6, <3>1 DEF PlaneInv, PublishedType
    <3>5. packets'[retired[n][w]] = packets[retired[n][w]] + Cardinality(hits(retired[n][w]))
      BY <2>1, <3>1
    <3> HIDE DEF hits
    <3> QED
      BY <3>2, <3>3, <3>4, <3>5
  <2> QED
    BY <2>2
<1>7. ASSUME PlaneInv, [DPNext]_allvars, ~publishing PROVE Final
  <2>1. ASSUME NEW rule \in Rules, NEW w \in CliWorkers, CliAddAllocFails(rule, w) PROVE packets' = packets
    BY <2>1 DEF CliAddAllocFails
  <2>2. ASSUME NEW id \in Ids, DelHandler(id) PROVE packets' = packets
    BY <2>2 DEF DelHandler
  <2>3. ASSUME Ensure \/ Publish PROVE packets' = packets
    BY <2>3 DEF Ensure, Publish
  <2>4. ASSUME NEW w \in Workers,
               (\E n \in 1..MAX_FRAMES : Receive(w, n)) \/ FlowMatch(w) \/ CounterLoad(w)
        PROVE  packets' = packets
    BY <2>4 DEF Receive, FlowMatch, CounterLoad
  <2>5. CASE UNCHANGED allvars
    <3>1. packets' = packets
      BY <2>5 DEF allvars, dpvars
    <3> QED
      BY <1>1, <1>2, <1>7, <3>1
  <2> HIDE DEF Final, Kept
  <2> QED
    BY <1>1, <1>2, <1>3, <1>4, <1>5, <1>6, <1>7, <2>1, <2>2, <2>3, <2>4, <2>5 DEF DPNext
<1>8. PlaneInv /\ [DPNext]_allvars => (~publishing => Final)
  BY <1>7
<1> QED
  BY <1>8, PlaneInvariance, PTL DEF DPSpec, RetiredTablesImmutable

-----------------------------------------------------------------------------
(***************************************************************************)
(* Conservation of packets.  What the workers matched for a name n is the  *)
(* sum of two sequences, what each table of n holds and how many entries   *)
(* of n each worker's scratch vector has, and of the three histories.  It  *)
(* is supposed of one front end, and only then is the target of an entry   *)
(* known to be a table of the entry's rule.                                *)
(***************************************************************************)
Counts(counts, some) == [t \in Tables |-> IF t \in some THEN counts[t] ELSE 0]
Pending(s, n) == [w \in Workers |-> Cardinality(EntriesFor(n, s[w]))]

(* What flow-match appends to the scratch vector.                          *)
EntriesOf(rules) == [i \in DOMAIN rules |-> [index |-> i, name |-> rules[i].name]]

(* The front ends leave traces.                                            *)
OneFrontEnd == adds.api = 0 \/ adds.cli = 0
FrontEnds ==
    /\ adds \in [api : Nat, cli : Nat]
    /\ adds.cli = 0 => pm_rules # "cli"
    /\ adds.api = 0 => Count = 0 /\ ~publishing

(* A scratch vector that is not empty is what flow-match made of the rules *)
(* that are published still: the counter frame that walks it is pending,   *)
(* and no handler runs before.                                             *)
ScratchCurrent ==
    \A w \in Workers : scratch[w] # << >> =>
        queue[w] # << >> /\ scratch[w] = EntriesOf(PublishedRules)

Stock(n) == Total(Counts(packets, TablesOf(n)))

Balanced ==
    OneFrontEnd => \A n \in ValidNames :
        matched[n] = Stock(n) + discarded[n] + Total(Pending(scratch, n)) + overwritten[n] + skipped[n]

Accounts ==
    /\ matched \in [ValidNames -> Nat] /\ discarded \in [ValidNames -> Nat]
    /\ overwritten \in [ValidNames -> Nat] /\ skipped \in [ValidNames -> Nat]
    /\ ScratchCurrent /\ Balanced
    /\ adds.cli = 0 => \A n \in ValidNames : skipped[n] = 0

-----------------------------------------------------------------------------
(* A function on the first n positive numbers is a sequence of length n.   *)
LEMMA ListOf ==
    ASSUME NEW n \in Nat, NEW S, NEW f \in [1..n -> S]
    PROVE  f \in Seq(S) /\ Len(f) = n
  OBVIOUS

(* Both sums are over sequences of natural numbers.                        *)
LEMMA CountsType ==
    ASSUME NEW counts \in [Tables -> Nat], NEW some
    PROVE  /\ Counts(counts, some) \in Seq(Int) /\ Counts(counts, some) \in Seq(Nat)
           /\ Len(Counts(counts, some)) = NumTables
           /\ \A t \in Tables : Counts(counts, some)[t] = IF t \in some THEN counts[t] ELSE 0
<1> DEFINE s == Counts(counts, some)
<1>1. \A t \in Tables : s[t] = IF t \in some THEN counts[t] ELSE 0
  BY DEF Counts
<1>2. s \in [1..NumTables -> Nat] /\ s \in [1..NumTables -> Int]
  BY DEF Counts, Tables
<1> HIDE DEF s
<1>3. s \in Seq(Nat) /\ s \in Seq(Int) /\ Len(s) = NumTables
  BY <1>2, ListOf, TablesAssumption
<1> QED
  BY <1>1, <1>3 DEF s

LEMMA PendingType ==
    ASSUME NEW s \in [Workers -> Seq(Entries)], NEW n
    PROVE  /\ Pending(s, n) \in Seq(Int) /\ Len(Pending(s, n)) = NumWorkers
           /\ \A w \in Workers : /\ Pending(s, n)[w] = Cardinality(EntriesFor(n, s[w]))
                                 /\ Pending(s, n)[w] \in Nat
<1> DEFINE q == Pending(s, n)
<1>1. \A w \in Workers : q[w] = Cardinality(EntriesFor(n, s[w]))
  BY DEF Pending
<1>2. ASSUME NEW w \in Workers PROVE Cardinality(EntriesFor(n, s[w])) \in Nat
  <2>1. s[w] \in Seq(Entries) /\ EntriesFor(n, s[w]) \subseteq DOMAIN s[w]
    BY DEF EntriesFor
  <2> QED
    BY <2>1, CountIsNat
<1>3. q \in [1..NumWorkers -> Int]
  BY <1>2 DEF Pending, Workers
<1> HIDE DEF q
<1>4. q \in Seq(Int) /\ Len(q) = NumWorkers
  BY <1>3, ListOf, WorkersAssumption
<1> QED
  BY <1>1, <1>2, <1>4 DEF q

(* Packets in two disjoint sets of tables.                                 *)
LEMMA CountsSplit ==
    ASSUME NEW counts \in [Tables -> Nat], NEW all, NEW some, NEW others,
           \A t \in Tables : /\ t \in all <=> t \in some \/ t \in others
                             /\ ~(t \in some /\ t \in others)
    PROVE  Total(Counts(counts, all)) = Total(Counts(counts, some)) + Total(Counts(counts, others))
<1> DEFINE a == Counts(counts, all)
           b == Counts(counts, some)
           c == Counts(counts, others)
<1>1. /\ a \in Seq(Int) /\ b \in Seq(Int) /\ c \in Seq(Int)
      /\ Len(a) = NumTables /\ Len(b) = NumTables /\ Len(c) = NumTables
  BY CountsType
<1>2. \A t \in 1..NumTables : a[t] = b[t] + c[t]
  <2>1. \A t \in Tables : /\ a[t] = IF t \in all THEN counts[t] ELSE 0
                          /\ b[t] = IF t \in some THEN counts[t] ELSE 0
                          /\ c[t] = IF t \in others THEN counts[t] ELSE 0
                          /\ counts[t] \in Nat
    BY CountsType
  <2> HIDE DEF a, b, c
  <2> QED
    BY <2>1 DEF Tables
<1> HIDE DEF a, b, c
<1>3. Total(a) = Total(b) + Total(c)
  BY <1>1, <1>2, TotalPlus
<1> QED
  BY <1>3 DEF a, b, c

(* Tables handed out by the allocator are empty.                           *)
LEMMA NewTablesEmpty ==
    ASSUME \A t \in Allocated : heap'[t] = heap[t], packets' = PacketsOf(heap'), NEW n
    PROVE  Counts(packets', TablesOf(n)') = Counts(packets, TablesOf(n))
<1>1. \A t \in Tables : packets'[t] = IF heap[t] # heap'[t] THEN 0 ELSE packets[t]
  BY DEF PacketsOf
<1>2. ASSUME NEW t \in Tables
      PROVE  (IF t \in TablesOf(n)' THEN packets'[t] ELSE 0) = (IF t \in TablesOf(n) THEN packets[t] ELSE 0)
  <2>1. CASE t \in Allocated
    <3>1. t \in Allocated' /\ heap'[t] = heap[t] /\ packets'[t] = packets[t]
      BY <1>1, <2>1 DEF Allocated
    <3> QED
      BY <2>1, <3>1 DEF TablesOf
  <2>2. CASE t \notin Allocated
    <3>1. t \notin TablesOf(n)
      BY <2>2 DEF TablesOf
    <3>2. CASE t \in Allocated'
      <4>1. heap[t] # heap'[t]
        BY <2>2, <3>2 DEF Allocated
      <4> QED
        BY <1>1, <3>1, <4>1
    <3>3. CASE t \notin Allocated'
      BY <3>1, <3>3 DEF TablesOf
    <3> QED
      BY <3>2, <3>3
  <2> QED
    BY <2>1, <2>2
<1> QED
  BY <1>2 DEF Counts

(* Which front ends were used is only ever added to.                       *)
FrontEndsKept == FrontEnds' /\ (OneFrontEnd' => OneFrontEnd) /\ (adds'.cli = 0 => adds.cli = 0)

LEMMA FrontEndsStep ==
    ASSUME PlaneInv, FrontEnds, [DPNext]_allvars
    PROVE  FrontEndsKept
<1>1. ASSUME NEW rule \in Rules, NEW id \in UnusedIds, AddHandler(rule, id)
      PROVE  FrontEndsKept
  <2>1. adds' = [adds EXCEPT !.api = @ + 1] /\ pm_rules' = pm_rules
    BY <1>1 DEF AddHandler
  <2>2. adds' \in [api : Nat, cli : Nat] /\ adds'.api # 0 /\ adds'.cli = adds.cli
    BY <2>1 DEF FrontEnds
  <2> QED
    BY <2>1, <2>2 DEF FrontEnds, FrontEndsKept, OneFrontEnd
<1>2. ASSUME NEW id \in Ids, DelHandler(id) \/ SnapshotHandler(id)
      PROVE  FrontEndsKept
  <2>1. adds' = adds /\ pm_rules' = pm_rules
    BY <1>2 DEF DelHandler, SnapshotHandler
  <2>2. Count # 0
    <3>1. IndexOfId(id) # {}
      BY <1>2 DEF DelHandler, SnapshotHandler, SnapshotAndClear
    <3>2. IndexOfId(id) \subseteq 1..Count
      BY DEF IndexOfId
    <3> QED
      BY <3>1, <3>2
  <2> QED
    BY <2>1, <2>2 DEF FrontEnds, FrontEndsKept, OneFrontEnd
<1>3. ASSUME NEW rule \in Rules, CliPublished(rule), rule_set' = rule_set
      PROVE  FrontEndsKept
  <2>1. adds' = [adds EXCEPT !.cli = @ + 1] /\ publishing' = publishing /\ Count' = Count
    BY <1>3 DEF CliPublished, Count
  <2>2. adds' \in [api : Nat, cli : Nat] /\ adds'.cli # 0 /\ adds'.api = adds.api
    BY <2>1 DEF FrontEnds
  <2> QED
    BY <2>1, <2>2 DEF FrontEnds, FrontEndsKept, OneFrontEnd
<1>4. ASSUME Publish PROVE FrontEndsKept
  <2>1. publishing /\ adds' = adds /\ pm_rules' = "api"
    BY <1>4 DEF Publish
  <2>2. adds.api # 0
    BY <2>1 DEF FrontEnds
  <2> QED
    BY <2>1, <2>2 DEF FrontEnds, FrontEndsKept, OneFrontEnd
<1>5. ASSUME adds' = adds, pm_rules' = pm_rules, rule_set' = rule_set, publishing' = publishing
      PROVE  FrontEndsKept
  BY <1>5 DEF FrontEnds, FrontEndsKept, OneFrontEnd, Count
<1>6. ASSUME NEW rule \in Rules, CliAdd(rule) PROVE FrontEndsKept
  BY <1>3, <1>6 DEF CliAdd
<1>7. ASSUME NEW rule \in Rules, NEW w \in CliWorkers, CliAddAllocFails(rule, w) PROVE FrontEndsKept
  BY <1>3, <1>7 DEF CliAddAllocFails, vars, ctxvars
<1>8. ASSUME Ensure PROVE FrontEndsKept
  BY <1>5, <1>8 DEF Ensure, vars, ctxvars
<1>9. ASSUME NEW w \in Workers,
             (\E n \in 1..MAX_FRAMES : Receive(w, n)) \/ FlowMatch(w) \/ CounterLoad(w) \/ CounterUpdate(w)
      PROVE  FrontEndsKept
  <2>1. UNCHANGED mainvars
    BY <1>9 DEF Receive, FlowMatch, CounterLoad, CounterUpdate
  <2> QED
    BY <1>5, <2>1 DEF mainvars, vars, ctxvars
<1>10. CASE UNCHANGED allvars
  BY <1>5, <1>10 DEF allvars, dpvars, vars, ctxvars
<1> QED
  BY <1>1, <1>2, <1>4, <1>6, <1>7, <1>8, <1>9, <1>10 DEF DPNext

(* What the main thread does while no frame is pending.                    *)
LEMMA StandingAccounts ==
    ASSUME Accounts, FrontEndsKept, Quiet, UNCHANGED workervars, discarded' \in [ValidNames -> Nat],
           \A n \in ValidNames :
               Total(Counts(packets', TablesOf(n)')) + discarded'[n]
                 = Total(Counts(packets, TablesOf(n))) + discarded[n]
    PROVE  Accounts'
<1>1. /\ queue' = queue /\ scratch' = scratch /\ matched' = matched
      /\ overwritten' = overwritten /\ skipped' = skipped
  BY DEF workervars
<1>2. ScratchCurrent'
  BY <1>1 DEF Accounts, ScratchCurrent, Quiet
<1>3. Balanced'
  BY <1>1 DEF Accounts, Balanced, Stock, FrontEndsKept
<1>4. adds'.cli = 0 => \A n \in ValidNames : skipped'[n] = 0
  BY <1>1 DEF Accounts, FrontEndsKept
<1> QED
  BY <1>1, <1>2, <1>3, <1>4 DEF Accounts

(* Of those, the ones that destroy no table.                               *)
LEMMA KeepingAccounts ==
    ASSUME Accounts, FrontEndsKept, Quiet, UNCHANGED workervars, discarded' = discarded,
           \A t \in Allocated : heap'[t] = heap[t], packets' = PacketsOf(heap')
    PROVE  Accounts'
<1>1. \A n \in ValidNames : Counts(packets', TablesOf(n)') = Counts(packets, TablesOf(n))
  BY NewTablesEmpty
<1>2. discarded' \in [ValidNames -> Nat]
  BY DEF Accounts
<1> QED
  BY <1>1, <1>2, StandingAccounts

LEMMA SameHeap ==
    ASSUME PublishedType, heap' = heap, packets' = packets
    PROVE  (\A t \in Allocated : heap'[t] = heap[t]) /\ packets' = PacketsOf(heap')
BY DEF PublishedType, PacketsOf

LEMMA AddAccounts ==
    ASSUME PlaneInv, FrontEndsKept, Accounts, NEW rule \in Rules, NEW id \in UnusedIds, AddHandler(rule, id)
    PROVE  Accounts'
<1>1. CtxInv /\ FlowRuleAdd(FromMessage(rule), id) /\ packets' = PacketsOf(heap')
  BY DEF PlaneInv, AddHandler
<1>2. Quiet /\ discarded' = discarded /\ UNCHANGED workervars
  BY DEF AddHandler, MainThreadFree
<1>3. PICK spec \in Rules : FlowRuleAdd(spec, id)
  BY <1>1, Converted
<1>4. PICK column : Added(column, spec, id)
  BY <1>1, <1>3, AddStep
<1>5. Fresh(column) /\ heap' = Allocate(column, spec.name, 0) /\ spec.name \in ValidNames
  BY <1>1, <1>3, <1>4, AddedName DEF Added, FlowRuleAdd
<1>6. \A t \in Allocated : heap'[t] = heap[t]
  BY <1>1, <1>5, AllocateFacts DEF CtxInv, Fresh
<1> QED
  BY <1>1, <1>2, <1>6, KeepingAccounts

LEMMA SnapshotAccounts ==
    ASSUME PlaneInv, FrontEndsKept, Accounts, NEW id \in Ids, SnapshotHandler(id)
    PROVE  Accounts'
<1>1. CtxInv /\ SnapshotAndClear(id) /\ packets' = PacketsOf(heap')
  BY DEF PlaneInv, SnapshotHandler
<1>2. Quiet /\ discarded' = discarded /\ UNCHANGED workervars
  BY DEF SnapshotHandler, MainThreadFree
<1>3. PICK i \in 1..Count, generation \in Nat : \E column : Snapped(i, column, generation, id)
  BY <1>1, SnapshotStep
<1>4. PICK column : Snapped(i, column, generation, id)
  BY <1>3
<1>5. /\ Fresh(column) /\ heap' = Allocate(column, rule_set.rules[i].name, generation)
      /\ rule_set.rules[i].name \in ValidNames
  BY <1>1, <1>4 DEF Snapped, CtxInv, RuleSetCorrect, Count
<1>6. \A t \in Allocated : heap'[t] = heap[t]
  BY <1>1, <1>5, AllocateFacts DEF CtxInv, Fresh
<1> QED
  BY <1>1, <1>2, <1>6, KeepingAccounts

(* A CLI add that lacks a table changes no table either.                   *)
LEMMA CliAccounts ==
    ASSUME PlaneInv, FrontEndsKept, Accounts, NEW rule \in Rules,
           CliAdd(rule) \/ \E w \in CliWorkers : CliAddAllocFails(rule, w)
    PROVE  Accounts'
<1>1. Quiet /\ discarded' = discarded /\ UNCHANGED workervars
  BY DEF CliAdd, CliAddAllocFails, CliPublished, MainThreadFree
<1>2. (\A t \in Allocated : heap'[t] = heap[t]) /\ packets' = PacketsOf(heap')
  <2>1. CASE CliAdd(rule)
    BY <2>1, CliAllocates
  <2>2. CASE \E w \in CliWorkers : CliAddAllocFails(rule, w)
    BY <2>2, SameHeap DEF CliAddAllocFails, vars, ctxvars, PlaneInv
  <2> QED
    BY <2>1, <2>2
<1> QED
  BY <1>1, <1>2, KeepingAccounts

LEMMA PublishAccounts ==
    ASSUME PlaneInv, FrontEndsKept, Accounts, Ensure \/ Publish
    PROVE  Accounts'
<1>1. /\ heap' = heap /\ packets' = packets /\ discarded' = discarded
      /\ UNCHANGED workervars
  BY DEF Ensure, Publish, vars, ctxvars
<1>2. Quiet
  BY PublishingIsQuiet DEF Ensure, Publish, MainThreadFree, PlaneInv
<1> QED
  BY <1>1, <1>2, SameHeap, KeepingAccounts DEF PlaneInv

(* What the tables of a deleted rule held is discarded, no more.           *)
LEMMA DelAccounts ==
    ASSUME PlaneInv, FrontEndsKept, Accounts, NEW id \in Ids, DelHandler(id)
    PROVE  Accounts'
<1>1. PICK i \in IndexOfId(id) :
        /\ FlowRuleDel(rule_set.rules[i].name)
        /\ discarded' = [discarded EXCEPT ![rule_set.rules[i].name] = @ + PacketsIn(Range(Column(i)))]
  BY DEF DelHandler
<1> DEFINE name == rule_set.rules[i].name
           gone == Total(Counts(packets, Range(Column(i))))
<1>2. /\ Quiet /\ packets' = packets
      /\ UNCHANGED workervars /\ CtxInv /\ PublishedType /\ PublishedType'
  BY DelHandlerKeeps DEF DelHandler, MainThreadFree, PlaneInv
<1>3. i \in 1..Count /\ name \in ValidNames
  BY <1>2 DEF IndexOfId, CtxInv, RuleSetCorrect, Count
<1>4. heap' = Destroy(Column(i))
  <2>1. PICK k \in 1..Count : Deleted(k, name)
    BY <1>1, <1>2, DelStep
  <2>2. rule_set.rules[k].name = name /\ heap' = Destroy(Column(k))
    BY <2>1 DEF Deleted
  <2>3. k = i
    BY <1>2, <1>3, <2>2 DEF CtxInv, RuleSetCorrect, Count
  <2> QED
    BY <2>2, <2>3
<1>5. /\ \A t \in Tables : t \in Range(Column(i)) <=> \E w \in Workers : Column(i)[w] = t
      /\ \A t \in Tables : t \in Range(Column(i)) => t \in Allocated /\ heap[t].name = name
  <2>1. \A w \in Workers : Column(i)[w] = tables[w][i]
    BY DEF Column
  <2>2. \A t : t \in Range(Column(i)) <=> \E w \in Workers : Column(i)[w] = t
    BY DEF Range, Column
  <2>3. \A w \in Workers : tables[w][i] \in Allocated /\ heap[tables[w][i]].name = name
    <3>1. i \in Slot /\ i <= Count
      BY <1>2, <1>3, LiveFacts
    <3> QED
      BY <1>2, <3>1 DEF CtxInv, TablesFollowRules
  <2> QED
    BY <2>1, <2>2, <2>3
<1>6. /\ \A t \in Tables : t \notin Range(Column(i)) => heap'[t] = heap[t]
      /\ \A t \in Tables : t \in Allocated' <=> t \in Allocated /\ t \notin Range(Column(i))
  BY <1>2, <1>4, <1>5, DestroyFacts DEF CtxInv
<1>7. packets \in [Tables -> Nat] /\ PacketsIn(Range(Column(i))) = gone
  BY <1>2 DEF PacketsIn, PublishedType, Counts
<1>8. gone \in Nat
  BY <1>7, CountsType, TotalNat
<1> HIDE DEF gone
<1>9. discarded' \in [ValidNames -> Nat] /\ discarded'[name] = discarded[name] + gone
      /\ \A n \in ValidNames : n # name => discarded'[n] = discarded[n]
  <2>1. discarded \in [ValidNames -> Nat]
    BY DEF Accounts
  <2>2. discarded' = [discarded EXCEPT ![name] = discarded[name] + gone]
    BY <1>1, <1>7
  <2> HIDE DEF name
  <2> QED
    BY <1>3, <1>8, <2>1, <2>2
<1>11. ASSUME NEW n \in ValidNames
       PROVE  Total(Counts(packets', TablesOf(n)')) + discarded'[n]
                 = Total(Counts(packets, TablesOf(n))) + discarded[n]
  <2>1. \A t \in Tables : t \in TablesOf(n)' <=> t \in TablesOf(n) /\ t \notin Range(Column(i))
    BY <1>6 DEF TablesOf
  <2>2. CASE n = name
    <3>1. \A t \in Tables : t \in Range(Column(i)) => t \in TablesOf(n)
      BY <1>5, <2>2 DEF TablesOf
    <3>2. Total(Counts(packets, TablesOf(n))) = Total(Counts(packets, TablesOf(n)')) + gone
      <4> DEFINE kept == TablesOf(n)'
      <4>1. \A t \in Tables : /\ t \in TablesOf(n) <=> t \in kept \/ t \in Range(Column(i))
                              /\ ~(t \in kept /\ t \in Range(Column(i)))
        BY <2>1, <3>1
      <4> HIDE DEF kept
      <4>2. Total(Counts(packets, TablesOf(n))) = Total(Counts(packets, kept)) + Total(Counts(packets, Range(Column(i))))
        BY <1>7, <4>1, CountsSplit
      <4> QED
        BY <4>2 DEF gone, kept
    <3>3. Total(Counts(packets, TablesOf(n)')) \in Int /\ discarded[n] \in Int
      <4> DEFINE kept == TablesOf(n)'
      <4>1. discarded \in [ValidNames -> Nat]
        BY DEF Accounts
      <4>2. discarded[n] \in Int
        BY <4>1
      <4> HIDE DEF kept
      <4>3. Total(Counts(packets, kept)) \in Int
        BY <1>7, CountsType, TotalType
      <4> QED
        BY <4>2, <4>3 DEF kept
    <3> QED
      BY <1>2, <1>8, <1>9, <2>2, <3>2, <3>3
  <2>3. CASE n # name
    <3>1. \A t \in Tables : t \in TablesOf(n)' <=> t \in TablesOf(n)
      BY <1>5, <2>1, <2>3 DEF TablesOf
    <3>2. Counts(packets, TablesOf(n)') = Counts(packets, TablesOf(n))
      BY <3>1 DEF Counts
    <3> QED
      BY <1>2, <1>9, <2>3, <3>2
  <2> QED
    BY <2>2, <2>3
<1> QED
  BY <1>2, <1>9, <1>11, StandingAccounts

(* The workers see the rules as they are.                                  *)
LEMMA SameRules ==
    ASSUME UNCHANGED mainvars
    PROVE  /\ PublishedRules' = PublishedRules /\ (OneFrontEnd' <=> OneFrontEnd)
           /\ adds' = adds /\ discarded' = discarded /\ heap' = heap
           /\ \A n : TablesOf(n)' = TablesOf(n)
<1>1. /\ rule_set' = rule_set /\ heap' = heap /\ pm_rules' = pm_rules /\ ref_count' = ref_count
      /\ cli_set' = cli_set /\ discarded' = discarded /\ adds' = adds
  BY DEF mainvars, vars, ctxvars
<1>2. PublishedRules' = PublishedRules
  BY <1>1 DEF PublishedRules, Count
<1> QED
  BY <1>1, <1>2 DEF TablesOf, Allocated, OneFrontEnd

(* The names of the published rules are distinct.                          *)
LEMMA PublishedNames ==
    ASSUME PlaneInv, ~publishing
    PROVE  \A i, j \in 1..Len(PublishedRules) :
               PublishedRules[i].name = PublishedRules[j].name => i = j
<1>1. RuleSetCorrect(rule_set) /\ RuleSetCorrect(cli_set) /\ pm_rules \in {"none", "api", "cli"}
  BY DEF PlaneInv, PublishedType, CtxInv
<1>2. CASE pm_rules = "api"
  <2>1. PublishedRules = rule_set.rules
    BY <1>2, PublishedRulesAre DEF PlaneInv, PublishedInUse
  <2> QED
    BY <1>1, <2>1 DEF RuleSetCorrect
<1>3. CASE pm_rules = "cli"
  <2>1. PublishedRules = cli_set.rules
    BY <1>3, PublishedRulesAre
  <2> QED
    BY <1>1, <2>1 DEF RuleSetCorrect
<1>4. CASE pm_rules = "none"
  <2>1. PublishedRules = << >>
    BY <1>4, PublishedRulesAre
  <2> QED
    BY <2>1
<1> QED
  BY <1>1, <1>2, <1>3, <1>4

(* With one front end, what a worker finds for a published rule is a table *)
(* of that rule, or none if the rule came through the CLI.                 *)
LEMMA PublishedTargets ==
    ASSUME PlaneInv, CliUndisturbed, FrontEnds, OneFrontEnd, ~publishing, NEW w \in Workers,
           NEW i \in 1..Len(PublishedRules)
    PROVE  /\ pm_tables[w][i] # NULL => /\ pm_tables[w][i] \in Allocated
                                        /\ heap[pm_tables[w][i]].name = PublishedRules[i].name
           /\ adds.cli = 0 => pm_tables[w][i] # NULL
<1>1. pm_rules = "cli" => Count = 0 /\ adds.cli # 0
  BY DEF FrontEnds, OneFrontEnd
<1>2. i \in DOMAIN PublishedRules
  <2>1. PublishedRules \in Seq(Rules)
    BY PublishedRulesType
  <2> QED
    BY <2>1
<1>3. \/ pm_rules = "cli" /\ pm_tables[w][i] = NULL
      \/ CreatedFor(pm_tables[w][i], PublishedRules[i].name, w)
  <2>1. ~(i <= 0)
    BY PublishedRulesType
  <2> QED
    BY <1>1, <1>2, <2>1, PublishedTablesMatch DEF PublishedTablesMatchRules
<1>4. \A t \in Allocated : t # NULL
  BY DEF Allocated, Tables
<1> QED
  BY <1>1, <1>3, <1>4 DEF CreatedFor

(* One entry per published rule.                                           *)
LEMMA EntriesFacts ==
    ASSUME PlaneInv, ~publishing
    PROVE  /\ DOMAIN EntriesOf(PublishedRules) = 1..Len(PublishedRules)
           /\ Len(PublishedRules) \in Nat
           /\ \A i \in 1..Len(PublishedRules) :
                 EntriesOf(PublishedRules)[i] = [index |-> i, name |-> PublishedRules[i].name]
<1>1. PublishedRules \in Seq(Rules)
  BY PublishedRulesType
<1> QED
  BY <1>1 DEF EntriesOf

(* A step of worker u keeps the other workers' scratch vectors and frames. *)
LEMMA ScratchOf ==
    ASSUME ScratchCurrent, UNCHANGED mainvars, NEW u \in Workers,
           \A w \in Workers : w # u => queue'[w] = queue[w] /\ scratch'[w] = scratch[w],
           scratch'[u] # << >> => queue'[u] # << >> /\ scratch'[u] = EntriesOf(PublishedRules)
    PROVE  ScratchCurrent'
<1>1. PublishedRules' = PublishedRules
  BY SameRules
<1>2. ASSUME NEW w \in Workers, scratch'[w] # << >>
      PROVE  queue'[w] # << >> /\ scratch'[w] = EntriesOf(PublishedRules)
  <2>1. CASE w = u
    BY <1>2, <2>1
  <2>2. CASE w # u
    BY <1>2, <2>2 DEF ScratchCurrent
  <2> QED
    BY <2>1, <2>2
<1> QED
  BY <1>1, <1>2 DEF ScratchCurrent

LEMMA ReceiveAccounts ==
    ASSUME PlaneInv, Accounts, NEW u \in Workers, NEW m \in 1..MAX_FRAMES, Receive(u, m)
    PROVE  Accounts'
<1>1. /\ queue' = [queue EXCEPT ![u] = [k \in 1..m |-> "match"]] /\ queue[u] = << >>
      /\ UNCHANGED mainvars /\ packets' = packets /\ scratch' = scratch /\ matched' = matched
      /\ overwritten' = overwritten /\ skipped' = skipped
  BY DEF Receive
<1>2. queue \in [Workers -> Seq(FrameKinds)]
  BY DEF PlaneInv, Frames
<1>3. \A w \in Workers : w # u => queue'[w] = queue[w]
  BY <1>1, <1>2
<1>4. scratch[u] = << >>
  BY <1>1 DEF Accounts, ScratchCurrent
<1>5. ScratchCurrent'
  BY <1>1, <1>3, <1>4, ScratchOf DEF Accounts
<1>6. \A n : Counts(packets', TablesOf(n)') = Counts(packets, TablesOf(n))
  BY <1>1, SameRules
<1> QED
  BY <1>1, <1>5, <1>6, SameRules DEF Accounts, Balanced, Stock

(* One worker's scratch vector changes.                                    *)
Scratches == [Workers -> Seq(Entries)]
SameButAt(s, r, u) == \A w \in Workers : w # u => r[w] = s[w]
Moved(s, r, u, n) ==
    /\ Total(Pending(r, n)) = Total(Pending(s, n))
                                + (Cardinality(EntriesFor(n, r[u])) - Cardinality(EntriesFor(n, s[u])))
    /\ Total(Pending(s, n)) \in Int /\ Total(Pending(r, n)) \in Int

LEMMA PendingChanged ==
    ASSUME NEW s \in Scratches, NEW r \in Scratches, NEW u \in Workers, SameButAt(s, r, u), NEW n
    PROVE  Moved(s, r, u, n)
<1> DEFINE a == Pending(s, n)
           b == Pending(r, n)
<1>1. /\ a \in Seq(Int) /\ b \in Seq(Int) /\ Len(a) = NumWorkers /\ Len(b) = NumWorkers
      /\ \A w \in Workers : /\ a[w] = Cardinality(EntriesFor(n, s[w])) /\ a[w] \in Nat
                            /\ b[w] = Cardinality(EntriesFor(n, r[w])) /\ b[w] \in Nat
  BY PendingType DEF Scratches
<1> HIDE DEF a, b
<1>2. Len(b) = Len(a) /\ \A w \in 1..Len(a) : w # u => b[w] = a[w]
  BY <1>1 DEF Workers, SameButAt
<1>3. u \in 1..Len(a)
  BY <1>1 DEF Workers
<1>4. Total(b) = Total(a) + (b[u] - a[u])
  BY <1>1, <1>2, <1>3, TotalChanged
<1>5. Total(a) \in Int /\ Total(b) \in Int
  BY <1>1, TotalType
<1> QED
  BY <1>1, <1>4, <1>5 DEF a, b, Moved

(* A name is entered once or not at all.                                   *)
LEMMA EnteredOnce ==
    ASSUME PlaneInv, ~publishing, NEW n
    PROVE  /\ EntriesFor(n, << >>) = {} /\ Cardinality(EntriesFor(n, << >>)) = 0
           /\ \A k \in 1..Len(PublishedRules) :
                 PublishedRules[k].name = n => /\ EntriesFor(n, EntriesOf(PublishedRules)) = {k}
                                               /\ Cardinality(EntriesFor(n, EntriesOf(PublishedRules))) = 1
           /\ (\A k \in 1..Len(PublishedRules) : PublishedRules[k].name # n) =>
                 EntriesFor(n, EntriesOf(PublishedRules)) = {}
<1> DEFINE e == EntriesOf(PublishedRules)
<1>1. /\ DOMAIN e = 1..Len(PublishedRules)
      /\ \A i \in 1..Len(PublishedRules) : e[i] = [index |-> i, name |-> PublishedRules[i].name]
  BY EntriesFacts
<1>2. \A i, j \in 1..Len(PublishedRules) : PublishedRules[i].name = PublishedRules[j].name => i = j
  BY PublishedNames
<1> HIDE DEF e
<1>3. \A i \in 1..Len(PublishedRules) : e[i].name = PublishedRules[i].name
  BY <1>1
<1>4. ASSUME NEW k \in 1..Len(PublishedRules), PublishedRules[k].name = n PROVE EntriesFor(n, e) = {k}
  BY <1>1, <1>2, <1>3, <1>4 DEF EntriesFor
<1>5. ASSUME \A k \in 1..Len(PublishedRules) : PublishedRules[k].name # n PROVE EntriesFor(n, e) = {}
  BY <1>1, <1>3, <1>5 DEF EntriesFor
<1>6. EntriesFor(n, << >>) = {}
  BY DEF EntriesFor
<1>7. Cardinality({}) = 0 /\ \A k : Cardinality({k}) = 1
  BY FS_EmptySet, FS_Singleton
<1> QED
  BY <1>4, <1>5, <1>6, <1>7 DEF e

LEMMA FlowMatchAccounts ==
    ASSUME PlaneInv, Accounts, NEW u \in Workers, FlowMatch(u)
    PROVE  Accounts'
<1> DEFINE e == EntriesOf(PublishedRules)
           lost(n) == Cardinality(EntriesFor(n, scratch[u]))
<1>1. /\ ~publishing /\ queue[u] # << >> /\ Head(queue[u]) = "match"
      /\ scratch' = [scratch EXCEPT ![u] = e] /\ UNCHANGED mainvars /\ packets' = packets
      /\ skipped' = skipped
  BY DEF FlowMatch, WorkersRun, EntriesOf
<1>2. /\ queue \in [Workers -> Seq(FrameKinds)] /\ scratch \in [Workers -> Seq(Entries)]
      /\ scratch' \in [Workers -> Seq(Entries)]
  BY FlowMatchKeeps DEF PlaneInv, Frames
<1>3. matched' = [n \in ValidNames |-> IF \E r \in Range(PublishedRules) : r.name = n
                                       THEN matched[n] + 1 ELSE matched[n]]
  BY DEF FlowMatch
<1>4. overwritten' = [n \in ValidNames |-> overwritten[n] + lost(n)]
  BY DEF FlowMatch
<1>5. PublishedRules \in Seq(Rules) /\ Len(PublishedRules) \in Nat
  BY <1>1, PublishedRulesType
<1>6. e = << >> <=> PublishedRules = << >>
  BY <1>5 DEF EntriesOf
<1>7. \A n : lost(n) \in Nat
  <2>1. ASSUME NEW n PROVE lost(n) \in Nat
    <3>1. scratch[u] \in Seq(Entries) /\ EntriesFor(n, scratch[u]) \subseteq DOMAIN scratch[u]
      BY <1>2 DEF EntriesFor
    <3> QED
      BY <3>1, CountIsNat
  <2> QED
    BY <2>1
<1>8. PublishedRules # << >> => queue'[u] # << >>
  <2>1. PublishedRules # << >> => queue' = [queue EXCEPT ![u] = Append(Tail(queue[u]), "counter")]
    BY DEF FlowMatch
  <2>2. Tail(queue[u]) \in Seq(FrameKinds)
    BY <1>1, <1>2
  <2>3. Append(Tail(queue[u]), "counter") # << >>
    BY <2>2
  <2> QED
    BY <1>2, <2>1, <2>3
<1>9. \A w \in Workers : w # u => queue'[w] = queue[w] /\ scratch'[w] = scratch[w]
  BY <1>1, <1>2 DEF FlowMatch
<1>10. scratch'[u] = e
  BY <1>1, <1>2
<1> HIDE DEF e, lost
<1>11. ScratchCurrent'
  <2>1. scratch'[u] # << >> => queue'[u] # << >> /\ scratch'[u] = EntriesOf(PublishedRules)
    BY <1>6, <1>8, <1>10 DEF e
  <2> QED
    BY <1>1, <1>9, <2>1, ScratchOf DEF Accounts
<1>12. \A n : Counts(packets', TablesOf(n)') = Counts(packets, TablesOf(n))
  BY <1>1, SameRules
<1>13. matched' \in [ValidNames -> Nat] /\ overwritten' \in [ValidNames -> Nat]
  BY <1>3, <1>4, <1>7 DEF Accounts
<1>14. ASSUME OneFrontEnd, NEW n \in ValidNames
       PROVE  matched'[n] = Stock(n) + discarded[n] + Total(Pending(scratch', n)) + overwritten'[n] + skipped[n]
  <2>1. matched[n] = Stock(n) + discarded[n] + Total(Pending(scratch, n)) + overwritten[n] + skipped[n]
    BY <1>14 DEF Accounts, Balanced
  <2>2. /\ Total(Pending(scratch', n)) = Total(Pending(scratch, n))
                                           + (Cardinality(EntriesFor(n, e)) - lost(n))
        /\ Total(Pending(scratch, n)) \in Int
    <3>1. scratch \in Scratches /\ scratch' \in Scratches /\ SameButAt(scratch, scratch', u)
      BY <1>2, <1>9 DEF Scratches, SameButAt
    <3>2. Moved(scratch, scratch', u, n)
      BY <3>1, PendingChanged
    <3> QED
      BY <1>10, <3>2 DEF Moved, lost
  <2>3. Cardinality({}) = 0
    BY FS_EmptySet
  <2>4. /\ Stock(n) \in Int /\ discarded[n] \in Int /\ matched[n] \in Int
        /\ overwritten[n] \in Int /\ skipped[n] \in Int /\ lost(n) \in Int
    <3>1. packets \in [Tables -> Nat]
      BY DEF PlaneInv, PublishedType
    <3>2. Stock(n) \in Int
      BY <3>1, CountsType, TotalType DEF Stock
    <3> QED
      BY <1>7, <3>2 DEF Accounts
  <2>5. overwritten'[n] = overwritten[n] + lost(n)
    BY <1>4
  <2>6. CASE \E k \in 1..Len(PublishedRules) : PublishedRules[k].name = n
    <3>1. Cardinality(EntriesFor(n, e)) = 1
      BY <1>1, <2>6, EnteredOnce DEF e
    <3>2. matched'[n] = matched[n] + 1
      <4>1. \E r \in Range(PublishedRules) : r.name = n
        BY <1>5, <2>6 DEF Range
      <4> QED
        BY <1>3, <4>1
    <3> QED
      BY <2>1, <2>2, <2>4, <2>5, <3>1, <3>2
  <2>7. CASE \A k \in 1..Len(PublishedRules) : PublishedRules[k].name # n
    <3>1. Cardinality(EntriesFor(n, e)) = 0
      BY <1>1, <2>3, <2>7, EnteredOnce DEF e
    <3>2. matched'[n] = matched[n]
      <4>1. ~ \E r \in Range(PublishedRules) : r.name = n
        BY <1>5, <2>7 DEF Range
      <4> QED
        BY <1>3, <4>1
    <3> QED
      BY <2>1, <2>2, <2>4, <2>5, <3>1, <3>2
  <2> QED
    BY <2>6, <2>7
<1>15. Balanced'
  BY <1>1, <1>12, <1>14, SameRules DEF Balanced, Stock
<1> QED
  BY <1>1, <1>11, <1>13, <1>15, SameRules DEF Accounts

LEMMA CounterLoadAccounts ==
    ASSUME PlaneInv, Accounts, NEW u \in Workers, CounterLoad(u)
    PROVE  Accounts'
<1>1. /\ queue[u] # << >> /\ queue' = [queue EXCEPT ![u] = <<"update">> \o Tail(queue[u])]
      /\ UNCHANGED mainvars /\ packets' = packets /\ scratch' = scratch /\ matched' = matched
      /\ overwritten' = overwritten /\ skipped' = skipped
  BY DEF CounterLoad
<1>2. queue \in [Workers -> Seq(FrameKinds)]
  BY DEF PlaneInv, Frames
<1>3. Tail(queue[u]) \in Seq(FrameKinds)
  BY <1>1, <1>2
<1>4. <<"update">> \o Tail(queue[u]) # << >>
  BY <1>3
<1>5. queue'[u] # << >> /\ \A w \in Workers : w # u => queue'[w] = queue[w]
  BY <1>1, <1>2, <1>4
<1>6. ScratchCurrent'
  <2>1. scratch'[u] # << >> => scratch'[u] = EntriesOf(PublishedRules)
    BY <1>1 DEF Accounts, ScratchCurrent
  <2> QED
    BY <1>1, <1>5, <2>1, ScratchOf DEF Accounts
<1>7. \A n : Counts(packets', TablesOf(n)') = Counts(packets, TablesOf(n))
  BY <1>1, SameRules
<1> QED
  BY <1>1, <1>6, <1>7, SameRules DEF Accounts, Balanced, Stock

(* How often a frame in the counter node updates a table.                  *)
Hits(u, t) == {i \in DOMAIN scratch[u] : Target(u, scratch[u][i]) = t}
HitCounts(u) == [t \in Tables |-> Cardinality(Hits(u, t))]

LEMMA HitCountsType ==
    ASSUME Frames, NEW u \in Workers
    PROVE  HitCounts(u) \in [Tables -> Nat]
<1>1. ASSUME NEW t \in Tables PROVE Cardinality(Hits(u, t)) \in Nat
  <2>1. scratch[u] \in Seq(Entries) /\ Hits(u, t) \subseteq DOMAIN scratch[u]
    BY DEF Frames, Hits
  <2> QED
    BY <2>1, CountIsNat
<1> QED
  BY <1>1 DEF HitCounts

(* The entries whose table is null.                                        *)
Missed(u, n) == {i \in EntriesFor(n, scratch[u]) : Target(u, scratch[u][i]) = NULL}

(* For each entry of a name the frame updates one table of that name, or   *)
(* none; and it misses none if no rule came through the CLI.               *)
LEMMA HitsOnce ==
    ASSUME PlaneInv, CliUndisturbed, FrontEnds, OneFrontEnd, Accounts, NEW u \in Workers,
           queue[u] # << >>, Head(queue[u]) = "update", NEW n \in ValidNames
    PROVE  /\ Total(Counts(HitCounts(u), TablesOf(n))) + Cardinality(Missed(u, n))
                 = Cardinality(EntriesFor(n, scratch[u]))
           /\ adds.cli = 0 => Cardinality(Missed(u, n)) = 0
<1> DEFINE d == Counts(HitCounts(u), TablesOf(n))
<1>1. /\ ~publishing /\ held[u] = pm_tables[u] /\ HitCounts(u) \in [Tables -> Nat]
      /\ scratch[u] = << >> \/ scratch[u] = EntriesOf(PublishedRules)
  BY HitCountsType DEF PlaneInv, Frames, Accounts, ScratchCurrent
<1>2. /\ d \in Seq(Int) /\ Len(d) = NumTables
      /\ \A t \in Tables : d[t] = IF t \in TablesOf(n) THEN Cardinality(Hits(u, t)) ELSE 0
  BY <1>1, CountsType DEF HitCounts
<1> HIDE DEF d
<1>3. /\ Cardinality({}) = 0 /\ \A k : Cardinality({k}) = 1
  BY FS_EmptySet, FS_Singleton
<1>4. CASE scratch[u] = << >>
  <2>1. \A t \in Tables : Hits(u, t) = {}
    BY <1>4 DEF Hits
  <2>2. \A t \in 1..Len(d) : d[t] = 0
    BY <1>2, <1>3, <2>1 DEF Tables
  <2>3. Total(d) = 0
    BY <1>2, <2>2, TotalZero
  <2>4. EntriesFor(n, scratch[u]) = {} /\ Missed(u, n) = {}
    BY <1>1, <1>4, EnteredOnce DEF Missed
  <2> QED
    BY <1>3, <2>3, <2>4 DEF d
<1>5. CASE scratch[u] = EntriesOf(PublishedRules)
  <2>1. /\ DOMAIN scratch[u] = 1..Len(PublishedRules)
        /\ \A i \in 1..Len(PublishedRules) : scratch[u][i] = [index |-> i, name |-> PublishedRules[i].name]
    BY <1>1, <1>5, EntriesFacts
  <2>2. \A i \in 1..Len(PublishedRules) : Target(u, scratch[u][i]) = pm_tables[u][i]
    <3>1. ASSUME NEW i \in 1..Len(PublishedRules) PROVE Target(u, scratch[u][i]) = pm_tables[u][i]
      <4>1. scratch[u][i].index = i
        <5> DEFINE named == PublishedRules[i].name
        <5>1. scratch[u][i] = [index |-> i, name |-> named]
          BY <2>1
        <5> HIDE DEF named
        <5> QED
          BY <5>1
      <4>2. Target(u, scratch[u][i]) = held[u][scratch[u][i].index]
        BY DEF Target
      <4> QED
        BY <1>1, <4>1, <4>2
    <3> QED
      BY <3>1
  <2>3. \A t : Hits(u, t) = {i \in 1..Len(PublishedRules) : pm_tables[u][i] = t}
    BY <2>1, <2>2 DEF Hits
  <2>4. \A i \in 1..Len(PublishedRules) :
          /\ pm_tables[u][i] # NULL => /\ pm_tables[u][i] \in Allocated
                                       /\ heap[pm_tables[u][i]].name = PublishedRules[i].name
          /\ adds.cli = 0 => pm_tables[u][i] # NULL
    BY <1>1, PublishedTargets
  <2>5. \A t \in TablesOf(n) : t # NULL /\ t \in Tables /\ heap[t].name = n
    BY DEF TablesOf, Allocated
  <2>6. \A t \in TablesOf(n) : \A i \in Hits(u, t) :
          /\ i \in 1..Len(PublishedRules) /\ pm_tables[u][i] = t /\ PublishedRules[i].name = n
    BY <2>3, <2>4, <2>5
  <2>7. CASE \A k \in 1..Len(PublishedRules) : PublishedRules[k].name # n
    <3>1. \A t \in TablesOf(n) : Hits(u, t) = {}
      BY <2>6, <2>7
    <3>2. \A t \in 1..Len(d) : d[t] = 0
      BY <1>2, <1>3, <3>1 DEF Tables
    <3>3. Total(d) = 0
      BY <1>2, <3>2, TotalZero
    <3>4. EntriesFor(n, scratch[u]) = {} /\ Missed(u, n) = {}
      BY <1>1, <1>5, <2>7, EnteredOnce DEF Missed
    <3> QED
      BY <1>3, <3>3, <3>4 DEF d
  <2>8. ASSUME NEW k \in 1..Len(PublishedRules), PublishedRules[k].name = n
        PROVE  /\ Total(d) + Cardinality(Missed(u, n)) = Cardinality(EntriesFor(n, scratch[u]))
               /\ adds.cli = 0 => Cardinality(Missed(u, n)) = 0
    <3> DEFINE table == pm_tables[u][k]
    <3>1. EntriesFor(n, scratch[u]) = {k} /\ Cardinality(EntriesFor(n, scratch[u])) = 1
      BY <1>1, <1>5, <2>8, EnteredOnce
    <3>2. \A i, j \in 1..Len(PublishedRules) : PublishedRules[i].name = PublishedRules[j].name => i = j
      BY <1>1, PublishedNames
    <3>3. \A i \in Missed(u, n) : i = k /\ table = NULL
      BY <2>2, <3>1 DEF Missed
    <3>4. table = NULL => k \in Missed(u, n)
      BY <2>2, <3>1 DEF Missed
    <3>5. /\ table # NULL => table \in Allocated /\ heap[table].name = n
          /\ adds.cli = 0 => table # NULL
      BY <2>4, <2>8
    <3>6. \A t \in TablesOf(n) : \A i \in Hits(u, t) : i = k /\ t = table
      <4>1. ASSUME NEW t \in TablesOf(n), NEW i \in Hits(u, t) PROVE i = k /\ t = table
        <5>1. i = k
          BY <2>6, <2>8, <3>2
        <5> QED
          BY <2>6, <5>1
      <4> QED
        BY <4>1
    <3>7. table \in TablesOf(n) => k \in Hits(u, table)
      BY <2>3
    <3> HIDE DEF table
    <3>8. CASE table # NULL
      <4>1. table \in TablesOf(n)
        BY <3>5, <3>8 DEF TablesOf
      <4>2. Hits(u, table) = {k} /\ \A t \in TablesOf(n) : t # table => Hits(u, t) = {}
        BY <3>6, <3>7, <4>1
      <4>3. Missed(u, n) = {}
        BY <3>3, <3>8
      <4>4. table \in 1..Len(d)
        BY <1>2, <2>5, <4>1 DEF Tables
      <4>5. d[table] = 1 /\ \A t \in 1..Len(d) : t # table => d[t] = 0
        BY <1>2, <1>3, <2>5, <4>1, <4>2 DEF Tables
      <4>6. Total(d) = 1
        BY <1>2, <4>4, <4>5, TotalOne
      <4> QED
        BY <1>3, <3>1, <4>3, <4>6
    <3>9. CASE table = NULL
      <4>1. \A t \in TablesOf(n) : Hits(u, t) = {}
        BY <2>5, <3>6, <3>9
      <4>2. \A t \in 1..Len(d) : d[t] = 0
        BY <1>2, <1>3, <4>1 DEF Tables
      <4>3. Total(d) = 0
        BY <1>2, <4>2, TotalZero
      <4>4. Missed(u, n) = {k}
        BY <3>3, <3>4, <3>9
      <4> QED
        BY <1>3, <3>1, <3>5, <3>9, <4>3, <4>4
    <3> QED
      BY <3>8, <3>9
  <2> QED
    BY <2>7, <2>8 DEF d
<1> QED
  BY <1>1, <1>4, <1>5

LEMMA CounterUpdateAccounts ==
    ASSUME PlaneInv, CliUndisturbed, FrontEnds, Accounts, NEW u \in Workers, CounterUpdate(u)
    PROVE  Accounts'
<1> DEFINE missed(n) == Cardinality(Missed(u, n))
<1>1. /\ ~publishing /\ queue[u] # << >> /\ Head(queue[u]) = "update"
      /\ queue' = [queue EXCEPT ![u] = Tail(@)] /\ scratch' = [scratch EXCEPT ![u] = << >>]
      /\ UNCHANGED mainvars /\ matched' = matched /\ overwritten' = overwritten
  BY DEF CounterUpdate, WorkersRun
<1>2. /\ queue \in [Workers -> Seq(FrameKinds)] /\ scratch \in Scratches /\ scratch' \in Scratches
      /\ packets \in [Tables -> Nat] /\ packets' \in [Tables -> Nat]
      /\ HitCounts(u) \in [Tables -> Nat]
  BY CounterUpdateKeeps, HitCountsType DEF PlaneInv, Frames, PublishedType, Scratches
<1>3. \A t \in Tables : packets'[t] = packets[t] + HitCounts(u)[t]
  BY DEF CounterUpdate, HitCounts, Hits
<1>4. skipped' = [n \in ValidNames |-> skipped[n] + missed(n)]
  BY DEF CounterUpdate, SkippedNow, Missed
<1>5. \A n : missed(n) \in Nat
  <2>1. ASSUME NEW n PROVE missed(n) \in Nat
    <3>1. scratch[u] \in Seq(Entries) /\ Missed(u, n) \subseteq DOMAIN scratch[u]
      BY <1>2 DEF Missed, EntriesFor, Scratches
    <3> QED
      BY <3>1, CountIsNat
  <2> QED
    BY <2>1
<1>6. scratch'[u] = << >> /\ SameButAt(scratch, scratch', u)
      /\ \A w \in Workers : w # u => queue'[w] = queue[w] /\ scratch'[w] = scratch[w]
  BY <1>1, <1>2 DEF Scratches, SameButAt
<1> HIDE DEF missed
<1>7. ScratchCurrent'
  BY <1>1, <1>6, ScratchOf DEF Accounts
<1>8. skipped' \in [ValidNames -> Nat]
  BY <1>4, <1>5 DEF Accounts
<1>9. ASSUME OneFrontEnd, NEW n \in ValidNames
      PROVE  /\ matched[n] = Total(Counts(packets', TablesOf(n))) + discarded[n]
                               + Total(Pending(scratch', n)) + overwritten[n] + skipped'[n]
             /\ adds.cli = 0 => skipped'[n] = 0
  <2>1. matched[n] = Stock(n) + discarded[n] + Total(Pending(scratch, n)) + overwritten[n] + skipped[n]
    BY <1>9 DEF Accounts, Balanced
  <2>2. Moved(scratch, scratch', u, n)
    BY <1>2, <1>6, PendingChanged
  <2>3. Cardinality(EntriesFor(n, scratch'[u])) = 0
    BY <1>1, <1>6, EnteredOnce
  <2>4. /\ Total(Counts(HitCounts(u), TablesOf(n))) + missed(n) = Cardinality(EntriesFor(n, scratch[u]))
        /\ adds.cli = 0 => missed(n) = 0
    BY <1>1, <1>9, HitsOnce DEF missed
  <2>5. Total(Counts(packets', TablesOf(n)))
          = Total(Counts(packets, TablesOf(n))) + Total(Counts(HitCounts(u), TablesOf(n)))
    <3> DEFINE a == Counts(packets, TablesOf(n))
               b == Counts(HitCounts(u), TablesOf(n))
               c == Counts(packets', TablesOf(n))
    <3>1. /\ a \in Seq(Int) /\ b \in Seq(Int) /\ c \in Seq(Int)
          /\ Len(a) = NumTables /\ Len(b) = NumTables /\ Len(c) = NumTables
      BY <1>2, CountsType
    <3>2. \A t \in Tables : c[t] = a[t] + b[t]
      <4>1. \A t \in Tables : /\ a[t] = IF t \in TablesOf(n) THEN packets[t] ELSE 0
                              /\ b[t] = IF t \in TablesOf(n) THEN HitCounts(u)[t] ELSE 0
                              /\ c[t] = IF t \in TablesOf(n) THEN packets'[t] ELSE 0
        BY DEF Counts
      <4> HIDE DEF a, b, c
      <4> QED
        BY <1>3, <4>1
    <3> HIDE DEF a, b, c
    <3>3. \A t \in 1..Len(a) : c[t] = a[t] + b[t]
      BY <3>1, <3>2 DEF Tables
    <3>4. Total(c) = Total(a) + Total(b)
      BY <3>1, <3>3, TotalPlus
    <3> QED
      BY <3>4 DEF a, b, c
  <2>6. /\ Stock(n) = Total(Counts(packets, TablesOf(n))) /\ Stock(n) \in Int
        /\ Total(Counts(HitCounts(u), TablesOf(n))) \in Int
    BY <1>2, CountsType, TotalType DEF Stock
  <2>7. /\ discarded[n] \in Int /\ overwritten[n] \in Int /\ skipped[n] \in Int /\ missed(n) \in Int
        /\ adds.cli = 0 => skipped[n] = 0
    BY <1>5 DEF Accounts
  <2>8. skipped'[n] = skipped[n] + missed(n)
    BY <1>4
  <2> QED
    BY <2>1, <2>2, <2>3, <2>4, <2>5, <2>6, <2>7, <2>8 DEF Moved
<1>10. Balanced'
  BY <1>1, <1>9, SameRules DEF Balanced, Stock
<1>11. adds'.cli = 0 => \A n \in ValidNames : skipped'[n] = 0
  BY <1>1, <1>9, SameRules DEF OneFrontEnd
<1> QED
  BY <1>1, <1>7, <1>8, <1>10, <1>11, SameRules DEF Accounts

LEMMA AccountsInit ==
    ASSUME DPInit
    PROVE  FrontEnds /\ Accounts
<1>1. /\ matched \in [ValidNames -> Nat] /\ discarded \in [ValidNames -> Nat]
      /\ overwritten \in [ValidNames -> Nat] /\ skipped \in [ValidNames -> Nat]
      /\ \A n \in ValidNames : /\ matched[n] = 0 /\ discarded[n] = 0
                               /\ overwritten[n] = 0 /\ skipped[n] = 0
  BY DEF DPInit
<1>2. ScratchCurrent
  BY DEF DPInit, ScratchCurrent
<1>3. FrontEnds
  <2>1. Count = 0
    BY DEF DPInit, Init, Count, EmptyRuleSet
  <2>2. adds \in [api : Nat, cli : Nat] /\ pm_rules # "cli" /\ ~publishing
    BY DEF DPInit
  <2> QED
    BY <2>1, <2>2 DEF FrontEnds
<1>4. Balanced
  <2>1. packets \in [Tables -> Nat] /\ \A t \in Tables : packets[t] = 0
    BY DEF DPInit
  <2>2. scratch \in [Workers -> Seq(Entries)] /\ \A w \in Workers : scratch[w] = << >>
    BY DEF DPInit
  <2>3. ASSUME NEW n \in ValidNames
        PROVE  Stock(n) = 0 /\ Total(Pending(scratch, n)) = 0
    <3> DEFINE a == Counts(packets, TablesOf(n))
               b == Pending(scratch, n)
    <3>1. a \in Seq(Int) /\ Len(a) = NumTables /\ \A t \in Tables : a[t] = 0
      BY <2>1, CountsType
    <3>2. \A w \in Workers : EntriesFor(n, scratch[w]) = {}
      BY <2>2 DEF EntriesFor
    <3>3. b \in Seq(Int) /\ Len(b) = NumWorkers /\ \A w \in Workers : b[w] = 0
      <4>1. Cardinality({}) = 0
        BY FS_EmptySet
      <4>2. /\ b \in Seq(Int) /\ Len(b) = NumWorkers
            /\ \A w \in Workers : b[w] = Cardinality(EntriesFor(n, scratch[w]))
        BY <2>2, PendingType
      <4> HIDE DEF b
      <4> QED
        BY <3>2, <4>1, <4>2
    <3> HIDE DEF a, b
    <3>4. (\A t \in 1..Len(a) : a[t] = 0) /\ (\A w \in 1..Len(b) : b[w] = 0)
      BY <3>1, <3>3 DEF Tables, Workers
    <3>5. Total(a) = 0 /\ Total(b) = 0
      BY <3>1, <3>3, <3>4, TotalZero
    <3> QED
      BY <3>5 DEF a, b, Stock
  <2> QED
    BY <1>1, <2>3 DEF Balanced
<1> QED
  BY <1>1, <1>2, <1>3, <1>4 DEF Accounts

LEMMA AccountsStep ==
    ASSUME PlaneInv, CliUndisturbed, FrontEnds, Accounts, [DPNext]_allvars
    PROVE  FrontEnds' /\ Accounts'
<1>0. FrontEndsKept
  BY FrontEndsStep
<1>1. ASSUME NEW rule \in Rules, NEW id \in UnusedIds, AddHandler(rule, id) PROVE Accounts'
  BY <1>0, <1>1, AddAccounts
<1>2. ASSUME NEW id \in Ids, DelHandler(id) \/ SnapshotHandler(id) PROVE Accounts'
  BY <1>0, <1>2, DelAccounts, SnapshotAccounts
<1>3. ASSUME NEW rule \in Rules, CliAdd(rule) \/ \E w \in CliWorkers : CliAddAllocFails(rule, w)
      PROVE  Accounts'
  BY <1>0, <1>3, CliAccounts
<1>4. ASSUME Ensure \/ Publish PROVE Accounts'
  BY <1>0, <1>4, PublishAccounts
<1>5. ASSUME NEW w \in Workers,
             (\E n \in 1..MAX_FRAMES : Receive(w, n)) \/ FlowMatch(w) \/ CounterLoad(w) \/ CounterUpdate(w)
      PROVE  Accounts'
  BY <1>5, ReceiveAccounts, FlowMatchAccounts, CounterLoadAccounts, CounterUpdateAccounts
<1>6. ASSUME UNCHANGED allvars PROVE Accounts'
  <2>1. /\ UNCHANGED mainvars /\ packets' = packets /\ scratch' = scratch /\ queue' = queue
        /\ matched' = matched /\ overwritten' = overwritten /\ skipped' = skipped
    BY <1>6 DEF allvars, dpvars, mainvars
  <2>2. ScratchCurrent'
    BY <2>1, SameRules DEF ScratchCurrent, Accounts
  <2>3. (\A n : TablesOf(n)' = TablesOf(n)) /\ adds' = adds /\ discarded' = discarded
    BY <2>1, SameRules
  <2>4. Balanced'
    BY <2>1, <2>3 DEF Accounts, Balanced, Stock, OneFrontEnd
  <2> QED
    BY <2>1, <2>2, <2>3, <2>4 DEF Accounts
<1>7. Accounts'
  BY <1>1, <1>2, <1>3, <1>4, <1>5, <1>6 DEF DPNext
<1> QED
  BY <1>0, <1>7 DEF FrontEndsKept

(* What the workers matched is counted for its rule, or is one of the      *)
(* losses CountsConserved names, whatever rules are added, deleted and     *)
(* snapshotted between any two frames of any worker, and however many      *)
(* frames a loop iteration has (spec 004 7.2).                             *)
THEOREM CountsConservedCorrect == DPSpec => []CountsConserved
<1> DEFINE Inv == PlaneInv /\ CliUndisturbed /\ FrontEnds /\ Accounts
<1>1. DPInit => Inv
  BY PlaneInit, AccountsInit
<1>2. Inv /\ [DPNext]_allvars => Inv'
  BY PlaneStep, AccountsStep
<1>3. ASSUME Accounts PROVE CountsConserved
  <2>1. ASSUME NEW n \in ValidNames
        PROVE  PacketsIn(TablesOf(n)) = Stock(n) /\ InScratch(n) = Total(Pending(scratch, n))
    BY DEF PacketsIn, Counts, InScratch, Pending, Stock
  <2>2. (adds.api = 0 \/ adds.cli = 0) => \A n \in ValidNames :
          matched[n] = PacketsIn(TablesOf(n)) + discarded[n] + InScratch(n) + overwritten[n] + skipped[n]
    BY <1>3, <2>1 DEF Accounts, Balanced, OneFrontEnd
  <2> QED
    BY <1>3, <2>2 DEF CountsConserved, Accounts
<1>4. Inv => CountsConserved
  BY <1>3
<1> QED
  BY <1>1, <1>2, <1>4, PTL DEF DPSpec
=============================================================================
