------------------------- MODULE ControlRulesProofs -------------------------
(***************************************************************************)
(* Proofs about ControlRules, for every number of clients, rules, commands *)
(* and faults, and every configuration: however requests are abandoned,    *)
(* replies lost and programs restarted, ids name their rules, the list     *)
(* follows the backend, and the whole is the registry infmonctl promises.  *)
(***************************************************************************)
EXTENDS ControlRules, ListLemmas, FiniteSetTheorems

(* The facts about the constants every proof below uses.                   *)
USE ConfiguredAssumption, ClientsAssumption, BoundsAssumption

-----------------------------------------------------------------------------
(* The inductive invariants.                                               *)

(* Where the server stands, and what it has in hand there.                 *)
Stage ==
    /\ server \in {"accept", "handle", "called", "down"}
    /\ server \in {"handle", "called"} => request \in Commands
    /\ server \in {"accept", "down"} => request = Idle /\ backend_id = 0
    /\ server = "down" =>
         /\ rules = Configured /\ rule_id_map = << >> /\ backlog = << >>
         /\ waiting = [c \in Clients |-> 0]

(* The requests that were sent and not answered: the one in hand is older  *)
(* than those in the backlog, which are in the order they were sent in.    *)
Queue ==
    /\ backlog \in Seq(Commands)
    /\ sent \in Nat
    /\ \A i \in 1..Len(backlog) : backlog[i].seq <= sent
    /\ \A i, j \in 1..Len(backlog) : i < j => backlog[i].seq < backlog[j].seq
    /\ server \in {"handle", "called"} =>
         /\ request.seq <= sent
         /\ \A i \in 1..Len(backlog) : request.seq < backlog[i].seq

Pending == Range(backlog) \cup ({request} \ {Idle})

(* A client that waits, waits for the last of its requests.                *)
Waits ==
    /\ waiting \in [Clients -> Nat] /\ exit \in [Clients -> Nat]
    /\ \A c \in Clients : waiting[c] # 0 =>
         /\ \E p \in Pending : p.client = c /\ p.seq = waiting[c]
         /\ \A p \in Pending : p.client = c => p.seq <= waiting[c]

(* The frontend's list: no name twice, and an id only for a listed name.   *)
List ==
    /\ rules \in Seq(Rules \cup Range(Configured))
    /\ DistinctNames(rules)
    /\ DOMAIN rule_id_map \subseteq NamesOf(rules)
    /\ \A n \in DOMAIN rule_id_map : rule_id_map[n] \in 1..issued
    /\ vapi \in {"none", "connected", "gone"}

(* The rules the handler makes of the clients', and the one it made of the *)
(* rule of name n in a list.                                               *)
Installable == {FromMessage(r) : r \in Rules}
Made(rule, list, n) == \E r \in Range(list) : r.name = n /\ rule = FromMessage(r)

(* The backend's rules and their ids, one for one.                         *)
Backend ==
    /\ set.rules \in Seq(Installable) /\ DistinctNames(set.rules)
    /\ issued \in Nat /\ ids \in Seq(1..issued) /\ Len(ids) = Len(set.rules)
    /\ \A i, j \in 1..Len(ids) : ids[i] = ids[j] => i = j
    /\ lost \in Nat /\ restarts \in Nat

(* An id the frontend holds, or is about to record, is no stranger's.      *)
Ids ==
    \A n \in DOMAIN rule_id_map : \A i \in 1..Len(ids) :
        ids[i] = rule_id_map[n] => Made(set.rules[i], rules, n)

(* Between the backend's answer and the frontend's own update.             *)
Answered ==
    server = "called" =>
        /\ request.op \in {"add", "rm"}
        /\ request.op = "add" => ~Listed(request.rule.name)
        /\ request.op = "rm" => Listed(request.rule.name)
        /\ backend_id \in 0..issued
        /\ request.op = "add" /\ backend_id # 0 =>
             \A i \in 1..Len(ids) : ids[i] = backend_id => set.rules[i] = FromMessage(request.rule)

CtlInv == Stage /\ Queue /\ Waits /\ List /\ Backend /\ Ids /\ Answered

(* While nothing restarted.  The answer in hand counts as recorded: its    *)
(* name is set aside until the frontend's update.                          *)
Steady == restarts = 0 /\ vapi = "connected"
InHand == IF server = "called" /\ backend_id # 0 THEN {request.rule.name} ELSE {}

Follows ==
    /\ restarts = 0 => server # "down"
    /\ Steady =>
        /\ \A n \in NamesOf(rules) \ DOMAIN rule_id_map :
             n \in NamesOf(Configured) /\ n \notin NamesOf(set.rules)
        /\ server = "called" /\ backend_id # 0 =>
             (request.op = "add" <=> request.rule.name \in NamesOf(set.rules))
        /\ Cardinality(Unlisted \ InHand) + Cardinality(Uninstalled \ InHand) <= lost

-----------------------------------------------------------------------------
(* The operators.                                                          *)

(* What a command is made of.                                              *)
LEMMA CommandType ==
    ASSUME NEW p \in Commands
    PROVE  /\ p.client \in Clients /\ p.client # "none"
           /\ p.seq \in Nat \ {0} /\ p.op \in {"add", "rm", "show"} /\ p.rule \in Rules
           /\ p # Idle
<1>1. p \in [client : Clients, seq : 1..MAX_COMMANDS, op : {"add", "rm", "show"}, rule : Rules]
  BY DEF Commands
<1>2. p.client \in Clients /\ p.seq \in 1..MAX_COMMANDS /\ p.op \in {"add", "rm", "show"}
      /\ p.rule \in Rules
  BY <1>1
<1>3. Idle.client = "none"
  BY DEF Idle
<1> QED
  BY <1>2, <1>3

(* The handler keeps the name.                                             *)
LEMMA Converted ==
    /\ \A r : FromMessage(r).name = r.name
    /\ \A rule, list, n : Made(rule, list, n) => rule.name = n
    /\ \A r \in Rules : FromMessage(r) \in Installable
<1>1. \A r : FromMessage(r).name = r.name
  BY DEF FromMessage
<1> QED
  BY <1>1 DEF Made, Installable

(* Retaining is a recursion over the list's positions.                     *)
Kept(f, s, name, n) ==
    f = [i \in 0..n |-> IF i = 0 THEN << >>
                         ELSE IF s[i].name = name THEN f[i - 1] ELSE Append(f[i - 1], s[i])]

Keeping(f, s, name) ==
    /\ f[0] = << >>
    /\ \A i \in 1..Len(s) :
         f[i] = IF s[i].name = name THEN f[i - 1] ELSE Append(f[i - 1], s[i])

LEMMA KeepingExists ==
    ASSUME NEW S, NEW s \in Seq(S), NEW name
    PROVE  \E f : Kept(f, s, name, Len(s))
<1> DEFINE T == {n \in Nat : \E f : Kept(f, s, name, n)}
<1>1. 0 \in T
  <2>1. Kept([i \in 0..0 |-> << >>], s, name, 0)
    BY DEF Kept
  <2> QED
    BY <2>1
<1>2. ASSUME NEW n \in Nat, n \in T PROVE n + 1 \in T
  <2>1. PICK f : Kept(f, s, name, n)
    BY <1>2
  <2> DEFINE last == IF s[n + 1].name = name THEN f[n] ELSE Append(f[n], s[n + 1])
             g == [i \in 0..(n + 1) |-> IF i = n + 1 THEN last ELSE f[i]]
  <2>2. \A i \in 0..n : f[i] = IF i = 0 THEN << >>
                         ELSE IF s[i].name = name THEN f[i - 1] ELSE Append(f[i - 1], s[i])
    BY <2>1 DEF Kept
  <2>3. \A i \in 0..(n + 1) : g[i] = IF i = 0 THEN << >>
                         ELSE IF s[i].name = name THEN g[i - 1] ELSE Append(g[i - 1], s[i])
    <3>1. ASSUME NEW i \in 0..(n + 1)
          PROVE  g[i] = IF i = 0 THEN << >>
                         ELSE IF s[i].name = name THEN g[i - 1] ELSE Append(g[i - 1], s[i])
      <4>1. CASE i = n + 1
        <5>1. g[i] = last /\ i - 1 = n /\ i # 0 /\ g[n] = f[n]
          BY <4>1
        <5> QED
          BY <4>1, <5>1
      <4>2. CASE i \in 0..n
        <5>1. g[i] = f[i] /\ (i # 0 => g[i - 1] = f[i - 1])
          BY <4>2
        <5> HIDE DEF g
        <5> QED
          BY <2>2, <4>2, <5>1
      <4> QED
        BY <4>1, <4>2
    <3> QED
      BY <3>1
  <2>4. g = [i \in 0..(n + 1) |-> g[i]]
    OBVIOUS
  <2> HIDE DEF g
  <2>5. Kept(g, s, name, n + 1)
    BY <2>3, <2>4 DEF Kept
  <2> QED
    BY <2>5
<1> HIDE DEF T
<1>3. Nat \subseteq T
  BY <1>1, <1>2, NatInductive
<1>4. Len(s) \in T
  BY <1>3
<1> QED
  BY <1>4 DEF T

(* What Retain keeps: the rules of other names, none of them twice.        *)
Retained(t, S, s, name) ==
    /\ t \in Seq(S)
    /\ Range(t) = {r \in Range(s) : r.name # name}
    /\ DistinctNames(t)

LEMMA RetainFacts ==
    ASSUME NEW S, NEW s \in Seq(S), NEW name, DistinctNames(s)
    PROVE  Retained(Retain(s, name), S, s, name)
<1> DEFINE h == CHOOSE f : Kept(f, s, name, Len(s))
<1>1. Kept(h, s, name, Len(s))
  BY KeepingExists
<1>2. Retain(s, name) = h[Len(s)]
  BY DEF Retain, Kept
<1> HIDE DEF h
<1>3. Keeping(h, s, name)
  <2>1. \A i \in 0..Len(s) : h[i] = IF i = 0 THEN << >>
                         ELSE IF s[i].name = name THEN h[i - 1] ELSE Append(h[i - 1], s[i])
    BY <1>1 DEF Kept
  <2>2. Len(s) \in Nat
    OBVIOUS
  <2> QED
    BY <2>1, <2>2 DEF Keeping
<1> DEFINE Upto(n) == {s[i] : i \in 1..n}
           Good(n) == /\ h[n] \in Seq(S)
                      /\ Range(h[n]) = {r \in Upto(n) : r.name # name}
                      /\ DistinctNames(h[n])
           T == {n \in Nat : n \in 0..Len(s) => Good(n)}
<1>4. 0 \in T
  <2>1. h[0] = << >>
    BY <1>3 DEF Keeping
  <2>2. << >> \in Seq(S) /\ Range(<< >>) = {} /\ DistinctNames(<< >>)
    BY DEF Range, DistinctNames
  <2>3. Upto(0) = {}
    OBVIOUS
  <2>4. Good(0)
    BY <2>1, <2>2, <2>3
  <2> QED
    BY <2>4
<1>5. ASSUME NEW n \in Nat, n \in T PROVE n + 1 \in T
  <2> SUFFICES ASSUME n + 1 \in 0..Len(s) PROVE Good(n + 1)
    OBVIOUS
  <2>1. Good(n) /\ n + 1 \in 1..Len(s) /\ s[n + 1] \in S
    BY <1>5
  <2>2. h[n + 1] = IF s[n + 1].name = name THEN h[n] ELSE Append(h[n], s[n + 1])
    BY <1>3, <2>1 DEF Keeping
  <2>3. Upto(n + 1) = Upto(n) \cup {s[n + 1]}
    OBVIOUS
  <2>4. CASE s[n + 1].name = name
    BY <2>1, <2>2, <2>3, <2>4
  <2>5. CASE s[n + 1].name # name
    <3> DEFINE a == h[n]
               x == s[n + 1]
               b == Append(a, x)
    <3>1. a \in Seq(S) /\ x \in S
      BY <2>1
    <3>2. /\ b \in Seq(S) /\ Len(b) = Len(a) + 1 /\ b[Len(a) + 1] = x
          /\ DOMAIN b = 1..(Len(a) + 1) /\ DOMAIN a = 1..Len(a) /\ Len(a) \in Nat
          /\ \A i \in 1..Len(a) : b[i] = a[i]
      BY <3>1
    <3>3. Range(b) = Range(a) \cup {x}
      BY <3>2 DEF Range
    <3>4. \A r \in Range(a) : r.name # x.name
      <4>1. ASSUME NEW i \in 1..n PROVE s[i].name # x.name
        BY <2>1, i \in DOMAIN s, n + 1 \in DOMAIN s DEF DistinctNames
      <4> QED
        BY <2>1, <4>1
    <3>5. \A i \in 1..Len(a) : b[i].name # x.name
      BY <3>2, <3>4 DEF Range
    <3>6. DistinctNames(b)
      <4>1. \A i, j \in 1..Len(a) : b[i].name = b[j].name => i = j
        BY <2>1, <3>2 DEF DistinctNames
      <4>2. \A i \in 1..(Len(a) + 1) : i \in 1..Len(a) \/ i = Len(a) + 1
        BY <3>2
      <4> HIDE DEF a, b, x
      <4> QED
        BY <3>2, <3>5, <4>1, <4>2 DEF DistinctNames
    <3>7. h[n + 1] = b
      BY <2>2, <2>5
    <3> QED
      <4>1. Range(b) = {r \in Upto(n + 1) : r.name # name}
        BY <2>1, <2>3, <2>5, <3>3
      <4> QED
        BY <3>2, <3>6, <3>7, <4>1
  <2> QED
    BY <2>4, <2>5
<1> HIDE DEF T
<1>6. Nat \subseteq T
  BY <1>4, <1>5, NatInductive
<1>7. Good(Len(s))
  BY <1>6 DEF T
<1>8. Upto(Len(s)) = Range(s)
  BY DEF Range
<1> QED
  BY <1>2, <1>7, <1>8 DEF Retained

(* Names, and rules, of a list that a rule is appended to.                 *)
LEMMA AppendFacts ==
    ASSUME NEW S, NEW s \in Seq(S), NEW x \in S
    PROVE  /\ Append(s, x) \in Seq(S) /\ Len(Append(s, x)) = Len(s) + 1
           /\ \A i \in 1..Len(s) : Append(s, x)[i] = s[i]
           /\ Append(s, x)[Len(s) + 1] = x
           /\ DOMAIN s = 1..Len(s) /\ DOMAIN Append(s, x) = 1..(Len(s) + 1)
           /\ Range(Append(s, x)) = Range(s) \cup {x}
<1>1. /\ Append(s, x) \in Seq(S) /\ Len(Append(s, x)) = Len(s) + 1
      /\ \A i \in 1..Len(s) : Append(s, x)[i] = s[i]
      /\ Append(s, x)[Len(s) + 1] = x
      /\ DOMAIN s = 1..Len(s) /\ DOMAIN Append(s, x) = 1..(Len(s) + 1) /\ Len(s) \in Nat
  OBVIOUS
<1> QED
  BY <1>1 DEF Range

LEMMA NamesAppend ==
    ASSUME NEW S, NEW s \in Seq(S), NEW x \in S
    PROVE  /\ NamesOf(Append(s, x)) = NamesOf(s) \cup {x.name}
           /\ DistinctNames(s) /\ x.name \notin NamesOf(s) => DistinctNames(Append(s, x))
<1> DEFINE t == Append(s, x)
<1>1. /\ Len(s) \in Nat /\ DOMAIN s = 1..Len(s) /\ DOMAIN t = 1..(Len(s) + 1)
      /\ \A i \in 1..Len(s) : t[i] = s[i]
      /\ t[Len(s) + 1] = x
  BY AppendFacts
<1>2. \A i \in 1..(Len(s) + 1) : i \in 1..Len(s) \/ i = Len(s) + 1
  BY <1>1
<1> HIDE DEF t
<1>3. NamesOf(t) = NamesOf(s) \cup {x.name}
  BY <1>1, <1>2 DEF NamesOf
<1>4. ASSUME DistinctNames(s), x.name \notin NamesOf(s) PROVE DistinctNames(t)
  <2>1. \A i \in 1..Len(s) : t[i].name # x.name
    BY <1>1, <1>4 DEF NamesOf
  <2>2. \A i, j \in 1..Len(s) : t[i].name = t[j].name => i = j
    BY <1>1, <1>4 DEF DistinctNames
  <2> QED
    BY <1>1, <1>2, <2>1, <2>2 DEF DistinctNames
<1> QED
  BY <1>3, <1>4 DEF t

(* The names of a list are the names of its rules.                         *)
LEMMA NamesOfRange ==
    ASSUME NEW s, NEW name
    PROVE  name \in NamesOf(s) <=> \E r \in Range(s) : r.name = name
BY DEF NamesOf, Range

(* The names of a list are finitely many.                                  *)
LEMMA NamesFinite ==
    ASSUME NEW S, NEW s \in Seq(S)
    PROVE  IsFiniteSet(NamesOf(s))
<1> DEFINE f == [i \in 1..Len(s) |-> s[i].name]
<1>1. DOMAIN s = 1..Len(s) /\ Len(s) \in Nat
  OBVIOUS
<1>2. IsFiniteSet(1..Len(s))
  BY <1>1, FS_Interval
<1>3. {f[i] : i \in 1..Len(s)} = NamesOf(s)
  BY <1>1 DEF NamesOf
<1>4. f \in Surjection(1..Len(s), NamesOf(s))
  BY <1>1 DEF NamesOf, Surjection
<1> QED
  BY <1>2, <1>4, FS_Surjection

(* What removing a position does to a list of rules.                       *)
LEMMA NamesRemove ==
    ASSUME NEW S, NEW s \in Seq(S), NEW k \in 1..Len(s), DistinctNames(s)
    PROVE  /\ DistinctNames(RemoveAt(s, k))
           /\ NamesOf(RemoveAt(s, k)) = NamesOf(s) \ {s[k].name}
<1> DEFINE t == RemoveAt(s, k)
<1>1. /\ t \in Seq(S) /\ Len(t) = Len(s) - 1 /\ Len(s) \in Nat /\ k \in Nat /\ 1 <= k /\ k <= Len(s)
      /\ \A i \in 1..(Len(s) - 1) : t[i] = IF i < k THEN s[i] ELSE s[i + 1]
  BY RemoveAtFacts
<1>2. DOMAIN s = 1..Len(s) /\ DOMAIN t = 1..(Len(s) - 1)
  BY <1>1
<1> HIDE DEF t
<1>3. \A i, j \in 1..Len(s) : s[i].name = s[j].name => i = j
  BY <1>2 DEF DistinctNames
<1>4. DistinctNames(t)
  <2>1. ASSUME NEW i \in 1..(Len(s) - 1), NEW j \in 1..(Len(s) - 1), t[i].name = t[j].name
        PROVE  i = j
    <3> DEFINE I == IF i < k THEN i ELSE i + 1
               J == IF j < k THEN j ELSE j + 1
    <3>1. I \in 1..Len(s) /\ J \in 1..Len(s) /\ t[i] = s[I] /\ t[j] = s[J]
      BY <1>1
    <3>2. I = J
      BY <1>3, <2>1, <3>1
    <3> QED
      BY <1>1, <3>2
  <2> QED
    BY <1>2, <2>1 DEF DistinctNames
<1>5. ASSUME NEW n PROVE n \in NamesOf(t) <=> n \in NamesOf(s) \ {s[k].name}
  <2>1. ASSUME n \in NamesOf(t) PROVE n \in NamesOf(s) \ {s[k].name}
    <3>1. PICK i \in 1..(Len(s) - 1) : t[i].name = n
      BY <1>2, <2>1 DEF NamesOf
    <3> DEFINE I == IF i < k THEN i ELSE i + 1
    <3>2. I \in 1..Len(s) /\ t[i] = s[I] /\ I # k
      BY <1>1
    <3> HIDE DEF I
    <3> QED
      BY <1>1, <1>2, <1>3, <3>1, <3>2 DEF NamesOf
  <2>2. ASSUME n \in NamesOf(s) \ {s[k].name} PROVE n \in NamesOf(t)
    <3>1. PICK i \in 1..Len(s) : s[i].name = n
      BY <1>2, <2>2 DEF NamesOf
    <3>2. i # k
      BY <2>2, <3>1
    <3> DEFINE I == IF i < k THEN i ELSE i - 1
    <3>3. I \in 1..(Len(s) - 1) /\ t[I] = s[i]
      BY <1>1, <3>2
    <3> HIDE DEF I
    <3> QED
      BY <1>2, <3>1, <3>3 DEF NamesOf
  <2> QED
    BY <2>1, <2>2
<1> QED
  BY <1>4, <1>5 DEF t

-----------------------------------------------------------------------------
(* The commands: what each step does to the requests that are pending.     *)
Ordered == Stage /\ Queue /\ Waits

(* The request in hand is pending, and is not in the backlog.              *)
LEMMA InHandIsPending ==
    ASSUME Ordered, server \in {"handle", "called"}
    PROVE  /\ request \in Commands /\ request \in Pending /\ request \notin Range(backlog)
           /\ Pending = Range(backlog) \cup {request}
<1>1. request \in Commands
  BY DEF Ordered, Stage
<1>2. request # Idle
  BY <1>1, CommandType
<1>3. ASSUME request \in Range(backlog) PROVE FALSE
  <2>1. PICK i \in DOMAIN backlog : backlog[i] = request
    BY <1>3 DEF Range
  <2>2. i \in 1..Len(backlog) /\ request.seq < backlog[i].seq /\ request.seq \in Nat
    BY <1>1, <2>1, CommandType DEF Ordered, Queue
  <2> QED
    BY <2>1, <2>2
<1> QED
  BY <1>1, <1>2, <1>3 DEF Pending

(* Without a request in hand, the backlog is what is pending.              *)
LEMMA BacklogIsPending ==
    ASSUME Ordered, server \in {"accept", "down"}
    PROVE  Pending = Range(backlog) /\ request = Idle
BY DEF Ordered, Stage, Pending

(* What is pending is a command, and was sent.                             *)
LEMMA PendingType ==
    ASSUME Ordered, NEW p \in Pending
    PROVE  p \in Commands /\ p.seq <= sent
<1>1. CASE p \in Range(backlog)
  <2>1. PICK i \in DOMAIN backlog : backlog[i] = p
    BY <1>1 DEF Range
  <2>2. i \in 1..Len(backlog) /\ backlog[i] \in Commands
    BY <2>1 DEF Ordered, Queue
  <2> QED
    BY <2>1, <2>2 DEF Ordered, Queue
<1>2. CASE p = request /\ request # Idle
  <2>1. server \in {"handle", "called"}
    BY <1>2 DEF Ordered, Stage
  <2> QED
    BY <1>2, <2>1 DEF Ordered, Stage, Queue
<1> QED
  BY <1>1, <1>2 DEF Pending

(* The answer is written: the request is no longer pending.                *)
Done(code) == Respond(request, code) /\ backlog' = backlog /\ sent' = sent

LEMMA RespondKeeps ==
    ASSUME Ordered, server \in {"handle", "called"}, NEW code \in {0, 3, 6, 7}, Done(code)
    PROVE  Ordered' /\ Pending' = Pending \ {request}
<1>1. /\ request \in Commands /\ request \in Pending /\ request \notin Range(backlog)
      /\ Pending = Range(backlog) \cup {request}
  BY InHandIsPending
<1>2. server' = "accept" /\ request' = Idle /\ backend_id' = 0 /\ backlog' = backlog /\ sent' = sent
  BY DEF Done, Respond
<1>3. Pending' = Pending \ {request}
  BY <1>1, <1>2 DEF Pending
<1>4. Stage' /\ Queue'
  BY <1>2 DEF Ordered, Stage, Queue
<1> DEFINE c0 == request.client
<1>5. c0 \in Clients /\ waiting \in [Clients -> Nat] /\ exit \in [Clients -> Nat]
  BY <1>1, CommandType DEF Ordered, Waits
<1>6. ExitCode(code) \in Nat
  BY DEF ExitCode
<1>7. CASE waiting[c0] = request.seq
  <2>1. /\ waiting' = [waiting EXCEPT ![c0] = 0] /\ exit' = [exit EXCEPT ![c0] = ExitCode(code)]
    BY <1>7 DEF Done, Respond
  <2>2. waiting' \in [Clients -> Nat] /\ exit' \in [Clients -> Nat]
    BY <1>5, <1>6, <2>1
  <2>3. ASSUME NEW c \in Clients, waiting'[c] # 0
        PROVE  /\ \E p \in Pending' : p.client = c /\ p.seq = waiting'[c]
               /\ \A p \in Pending' : p.client = c => p.seq <= waiting'[c]
    <3>1. c # c0 /\ waiting'[c] = waiting[c]
      BY <1>5, <2>1, <2>3
    <3>2. /\ \E p \in Pending : p.client = c /\ p.seq = waiting[c]
          /\ \A p \in Pending : p.client = c => p.seq <= waiting[c]
      BY <2>3, <3>1 DEF Ordered, Waits
    <3> QED
      BY <1>3, <3>1, <3>2
  <2> QED
    BY <1>4, <1>3, <2>2, <2>3 DEF Ordered, Waits
<1>8. CASE waiting[c0] # request.seq
  <2>1. waiting' = waiting /\ exit' = exit
    BY <1>8 DEF Done, Respond
  <2>2. ASSUME NEW c \in Clients, waiting'[c] # 0
        PROVE  /\ \E p \in Pending' : p.client = c /\ p.seq = waiting'[c]
               /\ \A p \in Pending' : p.client = c => p.seq <= waiting'[c]
    <3>1. /\ \E p \in Pending : p.client = c /\ p.seq = waiting[c]
          /\ \A p \in Pending : p.client = c => p.seq <= waiting[c]
      BY <2>1, <2>2 DEF Ordered, Waits
    <3>2. PICK p \in Pending : p.client = c /\ p.seq = waiting[c]
      BY <3>1
    <3>3. p # request
      BY <1>8, <3>2
    <3> QED
      BY <1>3, <2>1, <3>1, <3>2, <3>3
  <2> QED
    BY <1>3, <1>4, <1>5, <2>1, <2>2 DEF Ordered, Waits
<1> QED
  BY <1>3, <1>7, <1>8

(* A command that reaches the socket is the youngest one pending.          *)
LEMMA SendKeeps ==
    ASSUME Ordered, NEW command \in Commands, Send(command), server # "down"
    PROVE  Ordered' /\ Pending' = Pending \cup {command}
<1> DEFINE c0 == command.client
           q == command.seq
<1>1. /\ waiting[c0] = 0 /\ q = sent + 1 /\ sent' = sent + 1
      /\ backlog' = Append(backlog, command)
      /\ waiting' = [waiting EXCEPT ![c0] = q] /\ exit' = [exit EXCEPT ![c0] = 0]
      /\ rules' = rules /\ rule_id_map' = rule_id_map /\ server' = server /\ request' = request
      /\ backend_id' = backend_id
  BY DEF Send, servervars
<1>2. /\ c0 \in Clients /\ q \in Nat \ {0} /\ command # Idle
      /\ waiting \in [Clients -> Nat] /\ exit \in [Clients -> Nat]
      /\ backlog \in Seq(Commands) /\ sent \in Nat
  BY CommandType DEF Ordered, Queue, Waits
<1>3. /\ backlog' \in Seq(Commands) /\ Len(backlog') = Len(backlog) + 1 /\ Len(backlog) \in Nat
      /\ \A i \in 1..Len(backlog) : backlog'[i] = backlog[i]
      /\ backlog'[Len(backlog) + 1] = command
      /\ Range(backlog') = Range(backlog) \cup {command}
  BY <1>1, <1>2, AppendFacts
<1>4. Pending' = Pending \cup {command}
  BY <1>1, <1>2, <1>3 DEF Pending
<1>5. Stage'
  BY <1>1 DEF Ordered, Stage
<1>6. Queue'
  <2>1. \A i \in 1..Len(backlog') : i \in 1..Len(backlog) \/ i = Len(backlog) + 1
    BY <1>3
  <2>2. \A i \in 1..Len(backlog) : backlog[i] \in Commands /\ backlog[i].seq <= sent
    BY <1>2 DEF Ordered, Queue
  <2>3. \A i \in 1..Len(backlog) : backlog[i].seq \in Nat
    BY <2>2, CommandType
  <2>4. \A i \in 1..Len(backlog') : backlog'[i].seq <= sent'
    <3>1. \A i \in 1..Len(backlog) : backlog'[i].seq <= sent'
      BY <1>1, <1>2, <1>3, <2>2, <2>3
    <3>2. backlog'[Len(backlog) + 1].seq <= sent'
      BY <1>1, <1>2, <1>3
    <3> QED
      BY <2>1, <3>1, <3>2
  <2>5. ASSUME NEW i \in 1..Len(backlog'), NEW j \in 1..Len(backlog'), i < j
        PROVE  backlog'[i].seq < backlog'[j].seq
    <3>1. CASE j \in 1..Len(backlog)
      BY <1>3, <2>5, <3>1 DEF Ordered, Queue
    <3>2. CASE j = Len(backlog) + 1
      <4>1. i \in 1..Len(backlog)
        BY <1>3, <2>5, <3>2
      <4>2. backlog[i].seq <= sent /\ backlog[i].seq \in Nat
        BY <2>2, <2>3, <4>1
      <4>3. backlog'[i] = backlog[i] /\ backlog'[j] = command
        BY <1>3, <3>2, <4>1
      <4> QED
        BY <1>1, <1>2, <4>2, <4>3
    <3> QED
      BY <2>1, <3>1, <3>2
  <2>6. ASSUME server' \in {"handle", "called"}
        PROVE  /\ request'.seq <= sent'
               /\ \A i \in 1..Len(backlog') : request'.seq < backlog'[i].seq
    <3>1. /\ request \in Commands /\ request.seq <= sent
          /\ \A i \in 1..Len(backlog) : request.seq < backlog[i].seq
      BY <1>1, <2>6 DEF Ordered, Stage, Queue
    <3>2. request.seq \in Nat
      BY <3>1, CommandType
    <3> QED
      BY <1>1, <1>2, <1>3, <2>1, <3>1, <3>2
  <2> QED
    BY <1>1, <1>2, <1>3, <2>4, <2>5, <2>6 DEF Queue
<1>7. Waits'
  <2>1. waiting' \in [Clients -> Nat] /\ exit' \in [Clients -> Nat]
    BY <1>1, <1>2
  <2>2. ASSUME NEW c \in Clients, waiting'[c] # 0
        PROVE  /\ \E p \in Pending' : p.client = c /\ p.seq = waiting'[c]
               /\ \A p \in Pending' : p.client = c => p.seq <= waiting'[c]
    <3>1. CASE c = c0
      <4>1. waiting'[c] = q
        BY <1>1, <1>2, <3>1
      <4>2. \A p \in Pending : p.seq <= sent /\ p.seq \in Nat
        BY PendingType, CommandType
      <4>3. \A p \in Pending : p.seq <= q
        BY <1>1, <1>2, <4>2
      <4> QED
        BY <1>2, <1>4, <3>1, <4>1, <4>3
    <3>2. CASE c # c0
      <4>1. waiting'[c] = waiting[c]
        BY <1>1, <1>2, <3>2
      <4>2. /\ \E p \in Pending : p.client = c /\ p.seq = waiting[c]
            /\ \A p \in Pending : p.client = c => p.seq <= waiting[c]
        BY <2>2, <4>1 DEF Ordered, Waits
      <4> QED
        BY <1>4, <3>2, <4>1, <4>2
    <3> QED
      BY <3>1, <3>2
  <2> QED
    BY <2>1, <2>2 DEF Waits
<1> QED
  BY <1>4, <1>5, <1>6, <1>7 DEF Ordered

(* A command that finds no socket goes nowhere.                            *)
LEMMA SendFailsKeeps ==
    ASSUME Ordered, NEW command \in Commands, Send(command), server = "down"
    PROVE  Ordered' /\ Pending' = Pending
<1>1. /\ sent' = sent + 1 /\ backlog' = backlog /\ waiting' = waiting
      /\ exit' = [exit EXCEPT ![command.client] = 4]
      /\ rules' = rules /\ rule_id_map' = rule_id_map /\ server' = server /\ request' = request
      /\ backend_id' = backend_id
  BY DEF Send, servervars
<1>2. Pending' = Pending
  BY <1>1 DEF Pending
<1>3. Stage' /\ backlog = << >>
  BY <1>1 DEF Ordered, Stage
<1>4. Queue'
  BY <1>1, <1>3 DEF Ordered, Stage, Queue
<1>5. exit' \in [Clients -> Nat]
  BY <1>1 DEF Ordered, Waits
<1>6. Waits'
  BY <1>1, <1>2, <1>5 DEF Ordered, Waits
<1> QED
  BY <1>2, <1>3, <1>4, <1>6 DEF Ordered

(* A client that gives up leaves its request where it is.                  *)
LEMMA GiveUpKeeps ==
    ASSUME Ordered, NEW c0 \in Clients, GiveUp(c0)
    PROVE  Ordered' /\ Pending' = Pending
<1>1. /\ waiting' = [waiting EXCEPT ![c0] = 0] /\ exit' = [exit EXCEPT ![c0] = 1]
      /\ backlog' = backlog /\ sent' = sent /\ rules' = rules /\ rule_id_map' = rule_id_map
      /\ server' = server /\ request' = request /\ backend_id' = backend_id
      /\ waiting[c0] # 0
  BY DEF GiveUp, servervars
<1>2. Pending' = Pending
  BY <1>1 DEF Pending
<1>3. Stage'
  <2>1. server # "down"
    BY <1>1 DEF Ordered, Stage
  <2> QED
    BY <1>1, <2>1 DEF Ordered, Stage
<1>4. Queue'
  BY <1>1 DEF Ordered, Queue
<1>5. waiting' \in [Clients -> Nat] /\ exit' \in [Clients -> Nat]
  BY <1>1 DEF Ordered, Waits
<1>6. \A c \in Clients : waiting'[c] # 0 => waiting'[c] = waiting[c]
  BY <1>1 DEF Ordered, Waits
<1>7. Waits'
  BY <1>2, <1>5, <1>6 DEF Ordered, Waits
<1> QED
  BY <1>2, <1>3, <1>4, <1>7 DEF Ordered

(* Reading takes the oldest request from the backlog into the hand.        *)
LEMMA ReadKeeps ==
    ASSUME Ordered, Read
    PROVE  Ordered' /\ Pending' = Pending
<1>1. /\ server = "accept" /\ backlog # << >> /\ request' = Head(backlog)
      /\ backlog' = Tail(backlog) /\ server' = "handle" /\ waiting' = waiting
      /\ exit' = exit /\ sent' = sent
  BY DEF Read, clientvars
<1>2. backlog \in Seq(Commands) /\ sent \in Nat /\ Pending = Range(backlog)
  BY <1>1, BacklogIsPending DEF Ordered, Queue
<1>3. /\ backlog' \in Seq(Commands) /\ Len(backlog') = Len(backlog) - 1
      /\ Len(backlog) \in Nat /\ Len(backlog) >= 1
      /\ \A i \in 1..Len(backlog') : backlog'[i] = backlog[i + 1]
      /\ request' = backlog[1] /\ request' \in Commands
  BY <1>1, <1>2
<1>4. Range(backlog) = Range(backlog') \cup {request'}
  <2> DEFINE n == Len(backlog)
  <2>1. DOMAIN backlog = 1..n /\ DOMAIN backlog' = 1..(n - 1) /\ n \in Nat /\ n >= 1
    BY <1>2, <1>3
  <2>2. (\A x : x \in Range(backlog) <=> \E i \in 1..n : backlog[i] = x)
        /\ (\A x : x \in Range(backlog') <=> \E i \in 1..(n - 1) : backlog'[i] = x)
    BY <2>1 DEF Range
  <2>3. \A i \in 1..(n - 1) : backlog'[i] = backlog[i + 1]
    BY <1>3
  <2> HIDE DEF n
  <2>4. ASSUME NEW x \in Range(backlog) PROVE x \in Range(backlog') \cup {request'}
    <3>1. PICK i \in 1..n : backlog[i] = x
      BY <2>2
    <3>2. CASE i = 1
      BY <1>3, <3>1, <3>2
    <3>3. CASE i # 1
      <4>1. i - 1 \in 1..(n - 1) /\ (i - 1) + 1 = i
        BY <2>1, <3>3
      <4>2. backlog'[i - 1] = x
        BY <2>3, <3>1, <4>1
      <4> QED
        BY <2>2, <4>1, <4>2
    <3> QED
      BY <3>2, <3>3
  <2>5. request' \in Range(backlog)
    BY <1>3, <2>1, <2>2
  <2>6. ASSUME NEW x \in Range(backlog') PROVE x \in Range(backlog)
    <3>1. PICK i \in 1..(n - 1) : backlog'[i] = x
      BY <2>2
    <3>2. i + 1 \in 1..n /\ backlog[i + 1] = x
      BY <2>1, <2>3, <3>1
    <3> QED
      BY <2>2, <3>2
  <2> QED
    BY <2>4, <2>5, <2>6
<1>5. request' # Idle
  BY <1>3, CommandType
<1>6. Pending' = Pending
  BY <1>2, <1>4, <1>5 DEF Pending
<1>7. Stage'
  BY <1>1, <1>3 DEF Stage
<1>8. Queue'
  <2>1. \A i \in 1..Len(backlog) : backlog[i].seq <= sent
    BY DEF Ordered, Queue
  <2>2. \A i, j \in 1..Len(backlog) : i < j => backlog[i].seq < backlog[j].seq
    BY DEF Ordered, Queue
  <2>3. \A i \in 1..Len(backlog') : i + 1 \in 1..Len(backlog) /\ 1 < i + 1
    BY <1>3
  <2>4. \A i \in 1..Len(backlog') : backlog'[i].seq <= sent' /\ request'.seq < backlog'[i].seq
    BY <1>1, <1>3, <2>1, <2>2, <2>3
  <2>5. \A i, j \in 1..Len(backlog') : i < j => backlog'[i].seq < backlog'[j].seq
    <3>1. ASSUME NEW i \in 1..Len(backlog'), NEW j \in 1..Len(backlog'), i < j
          PROVE  backlog'[i].seq < backlog'[j].seq
      <4>1. i + 1 < j + 1
        BY <3>1
      <4> QED
        BY <1>3, <2>2, <2>3, <4>1
    <3> QED
      BY <3>1
  <2>6. request'.seq <= sent'
    BY <1>1, <1>3, <2>1
  <2> QED
    BY <1>1, <1>2, <1>3, <2>4, <2>5, <2>6 DEF Queue
<1>9. Waits'
  BY <1>1, <1>6 DEF Ordered, Waits
<1> QED
  BY <1>6, <1>7, <1>8, <1>9 DEF Ordered

(* A step that leaves the commands alone, and the server's hand full.      *)
Same == UNCHANGED <<backlog, request, waiting, exit, sent>>

LEMMA SameKeeps ==
    ASSUME Ordered, Same, Stage',
           \/ server' = server
           \/ server \in {"handle", "called"} /\ server' \in {"handle", "called"}
           \/ server \in {"accept", "down"} /\ server' \in {"accept", "down"}
    PROVE  Ordered' /\ Pending' = Pending
<1>1. /\ backlog' = backlog /\ request' = request /\ waiting' = waiting /\ exit' = exit
      /\ sent' = sent
  BY DEF Same
<1>2. Pending' = Pending
  BY <1>1 DEF Pending
<1>3. Queue'
  BY <1>1 DEF Ordered, Queue
<1>4. Waits'
  BY <1>1, <1>2 DEF Ordered, Waits
<1> QED
  BY <1>2, <1>3, <1>4 DEF Ordered

(* The frontend's end is the end of every request.                         *)
LEMMA StopKeeps ==
    ASSUME Ordered, FrontendStops
    PROVE  Ordered' /\ Pending' = {} /\ \A c \in Clients : waiting'[c] = 0
<1>1. /\ server' = "down" /\ request' = Idle /\ backend_id' = 0
      /\ rules' = Configured /\ rule_id_map' = << >> /\ backlog' = << >>
      /\ waiting' = [c \in Clients |-> 0]
      /\ exit' = [c \in Clients |-> IF waiting[c] # 0 THEN 1 ELSE exit[c]]
      /\ sent' = sent
  BY DEF FrontendStops
<1>2. exit' \in [Clients -> Nat]
  BY <1>1 DEF Ordered, Waits
<1>3. Pending' = {}
  BY <1>1 DEF Pending, Range
<1>4. Queue'
  BY <1>1 DEF Ordered, Queue
<1> QED
  BY <1>1, <1>2, <1>3, <1>4 DEF Ordered, Stage, Waits

-----------------------------------------------------------------------------
(* The rules: the frontend's list and its ids, the backend's rules.        *)
RulesInv == List /\ Backend /\ Ids /\ Answered

(* The requests change, and no rule does.                                  *)
Quiet ==
    /\ UNCHANGED <<rules, rule_id_map, vapi, set, ids, issued, lost, restarts>>
    /\ server' # "called" \/ UNCHANGED <<server, request, backend_id>>

LEMMA QuietKeeps ==
    ASSUME RulesInv, Quiet
    PROVE  RulesInv'
<1>1. /\ rules' = rules /\ rule_id_map' = rule_id_map /\ vapi' = vapi /\ set' = set
      /\ ids' = ids /\ issued' = issued /\ lost' = lost /\ restarts' = restarts
  BY DEF Quiet
<1>2. List' /\ Backend' /\ Ids'
  BY <1>1 DEF RulesInv, List, Backend, Ids
<1>3. Answered'
  BY <1>1 DEF RulesInv, Quiet, Answered, Listed
<1> QED
  BY <1>2, <1>3 DEF RulesInv

(* The frontend lists one rule more.                                       *)
LEMMA ListMore ==
    ASSUME List, NEW rule \in Rules, ~Listed(rule.name), rules' = Append(rules, rule)
    PROVE  /\ rules' \in Seq(Rules \cup Range(Configured)) /\ DistinctNames(rules')
           /\ NamesOf(rules') = NamesOf(rules) \cup {rule.name}
           /\ Range(rules') = Range(rules) \cup {rule}
<1> DEFINE S == Rules \cup Range(Configured)
<1>1. rules \in Seq(S) /\ rule \in S /\ DistinctNames(rules) /\ rule.name \notin NamesOf(rules)
  BY DEF List, Listed
<1> HIDE DEF S
<1>2. /\ rules' \in Seq(S) /\ Range(rules') = Range(rules) \cup {rule}
  BY <1>1, AppendFacts
<1>3. NamesOf(rules') = NamesOf(rules) \cup {rule.name} /\ DistinctNames(rules')
  BY <1>1, NamesAppend
<1> QED
  BY <1>2, <1>3 DEF S

(* The frontend forgets a name.                                            *)
LEMMA ForgetFacts ==
    ASSUME List, NEW name, Forget(name)
    PROVE  /\ rules' \in Seq(Rules \cup Range(Configured)) /\ DistinctNames(rules')
           /\ NamesOf(rules') = NamesOf(rules) \ {name}
           /\ Range(rules') = {r \in Range(rules) : r.name # name}
           /\ DOMAIN rule_id_map' = DOMAIN rule_id_map \ {name}
           /\ \A n \in DOMAIN rule_id_map' : rule_id_map'[n] = rule_id_map[n]
<1> DEFINE S == Rules \cup Range(Configured)
<1>1. rules \in Seq(S) /\ DistinctNames(rules)
  BY DEF List
<1>2. rules' = Retain(rules, name) /\ rule_id_map' = [n \in DOMAIN rule_id_map \ {name} |-> rule_id_map[n]]
  BY DEF Forget, WithoutName
<1> HIDE DEF S
<1>3. Retained(rules', S, rules, name)
  BY <1>1, <1>2, RetainFacts
<1>4. /\ rules' \in Seq(S) /\ DistinctNames(rules')
      /\ Range(rules') = {r \in Range(rules) : r.name # name}
  BY <1>3 DEF Retained
<1>5. ASSUME NEW n PROVE n \in NamesOf(rules') <=> n \in NamesOf(rules) \ {name}
  BY <1>4, NamesOfRange
<1> QED
  BY <1>2, <1>4, <1>5 DEF S

LEMMA ForgetKeeps ==
    ASSUME RulesInv, NEW name, Forget(name), UNCHANGED <<vapi, set, ids, issued, lost, restarts>>,
           server' # "called"
    PROVE  RulesInv'
<1>1. /\ rules' \in Seq(Rules \cup Range(Configured)) /\ DistinctNames(rules')
      /\ NamesOf(rules') = NamesOf(rules) \ {name}
      /\ Range(rules') = {r \in Range(rules) : r.name # name}
      /\ DOMAIN rule_id_map' = DOMAIN rule_id_map \ {name}
      /\ \A n \in DOMAIN rule_id_map' : rule_id_map'[n] = rule_id_map[n]
  BY ForgetFacts DEF RulesInv
<1>2. /\ vapi' = vapi /\ set' = set /\ ids' = ids /\ issued' = issued /\ lost' = lost
      /\ restarts' = restarts
  OBVIOUS
<1>3. List'
  BY <1>1, <1>2 DEF RulesInv, List
<1>4. Backend'
  BY <1>2 DEF RulesInv, Backend
<1>5. Ids'
  <2> SUFFICES ASSUME NEW n \in DOMAIN rule_id_map', NEW i \in 1..Len(ids), ids[i] = rule_id_map'[n]
               PROVE  Made(set.rules[i], rules', n)
    BY <1>2 DEF Ids
  <2>1. n \in DOMAIN rule_id_map /\ n # name /\ rule_id_map[n] = ids[i]
    BY <1>1
  <2>2. Made(set.rules[i], rules, n)
    BY <2>1 DEF RulesInv, Ids
  <2> QED
    BY <1>1, <2>1, <2>2 DEF Made
<1> QED
  BY <1>3, <1>4, <1>5 DEF RulesInv, Answered

(* A rule is listed without an id.                                         *)
LEMMA ListKeeps ==
    ASSUME RulesInv, NEW rule \in Rules, ~Listed(rule.name), rules' = Append(rules, rule),
           UNCHANGED <<rule_id_map, vapi, set, ids, issued, lost, restarts>>, server' # "called"
    PROVE  RulesInv'
<1>1. /\ rules' \in Seq(Rules \cup Range(Configured)) /\ DistinctNames(rules')
      /\ NamesOf(rules') = NamesOf(rules) \cup {rule.name}
      /\ Range(rules') = Range(rules) \cup {rule}
  BY ListMore DEF RulesInv
<1>2. /\ vapi' = vapi /\ set' = set /\ ids' = ids /\ issued' = issued /\ lost' = lost
      /\ restarts' = restarts /\ rule_id_map' = rule_id_map
  OBVIOUS
<1>3. List'
  BY <1>1, <1>2 DEF RulesInv, List
<1>4. Backend' /\ Ids'
  BY <1>1, <1>2 DEF RulesInv, Backend, Ids, Made
<1> QED
  BY <1>3, <1>4 DEF RulesInv, Answered

LEMMA LocalKeeps ==
    ASSUME CtlInv, Local
    PROVE  RulesInv'
<1>1. /\ server = "handle" /\ request \in Commands /\ request.rule \in Rules
      /\ server' = "accept"
      /\ set' = set /\ ids' = ids /\ issued' = issued /\ lost' = lost /\ vapi' = vapi
      /\ restarts' = restarts
  BY CommandType DEF CtlInv, Stage, Local, Respond, backendvars
<1>2. CASE ~Listed(request.rule.name) /\ rules' = Append(rules, request.rule) /\ UNCHANGED rule_id_map
  BY <1>1, <1>2, ListKeeps DEF CtlInv, RulesInv
<1>3. CASE Forget(request.rule.name)
  BY <1>1, <1>3, ForgetKeeps DEF CtlInv, RulesInv
<1> QED
  BY <1>2, <1>3 DEF Local

(* The frontend takes note of the backend's answer.                        *)
LEMMA FinishKeeps ==
    ASSUME CtlInv, Finish
    PROVE  RulesInv'
<1> DEFINE name == request.rule.name
<1>1. /\ server = "called" /\ request \in Commands /\ request.rule \in Rules
      /\ server' = "accept"
      /\ set' = set /\ ids' = ids /\ issued' = issued /\ lost' = lost /\ vapi' = vapi
      /\ restarts' = restarts
  BY CommandType DEF CtlInv, Stage, Finish, Commit, Respond, backendvars
<1>2. CASE backend_id = 0
  <2>1. Quiet
    BY <1>1, <1>2 DEF Finish, Commit, Quiet
  <2> QED
    BY <2>1, QuietKeeps DEF CtlInv, RulesInv
<1>3. CASE backend_id # 0 /\ request.op = "add"
  <2>1. /\ rules' = Append(rules, request.rule)
        /\ rule_id_map' = [n \in DOMAIN rule_id_map \cup {name} |->
                              IF n = name THEN backend_id ELSE rule_id_map[n]]
        /\ ~Listed(name) /\ backend_id \in 1..issued
        /\ \A i \in 1..Len(ids) : ids[i] = backend_id => set.rules[i] = FromMessage(request.rule)
    <3>1. issued \in Nat
      BY DEF CtlInv, Backend
    <3>2. ~Listed(name) /\ backend_id \in 1..issued
      BY <1>1, <1>3, <3>1 DEF CtlInv, Answered
    <3>3. \A i \in 1..Len(ids) : ids[i] = backend_id => set.rules[i] = FromMessage(request.rule)
      BY <1>1, <1>3 DEF CtlInv, Answered
    <3>4. request.op # "rm"
      BY <1>3
    <3> QED
      BY <1>3, <3>2, <3>3, <3>4 DEF Finish, Commit
  <2>2. /\ rules' \in Seq(Rules \cup Range(Configured)) /\ DistinctNames(rules')
        /\ NamesOf(rules') = NamesOf(rules) \cup {name}
        /\ Range(rules') = Range(rules) \cup {request.rule}
    BY <1>1, <2>1, ListMore DEF CtlInv
  <2>3. /\ DOMAIN rule_id_map' = DOMAIN rule_id_map \cup {name}
        /\ rule_id_map'[name] = backend_id
        /\ \A n \in DOMAIN rule_id_map : n # name => rule_id_map'[n] = rule_id_map[n]
    BY <2>1
  <2>4. List'
    <3>1. \A n \in DOMAIN rule_id_map' : rule_id_map'[n] \in 1..issued
      BY <2>1, <2>3 DEF CtlInv, List
    <3>2. DOMAIN rule_id_map' \subseteq NamesOf(rules')
      BY <2>2, <2>3 DEF CtlInv, List
    <3> QED
      BY <1>1, <2>2, <3>1, <3>2 DEF CtlInv, List
  <2>5. Backend'
    BY <1>1 DEF CtlInv, Backend
  <2>6. Ids'
    <3> SUFFICES ASSUME NEW n \in DOMAIN rule_id_map', NEW i \in 1..Len(ids), ids[i] = rule_id_map'[n]
                 PROVE  Made(set.rules[i], rules', n)
      BY <1>1 DEF Ids
    <3>1. CASE n = name
      BY <2>1, <2>2, <2>3, <3>1 DEF Made
    <3>2. CASE n # name
      <4>1. n \in DOMAIN rule_id_map /\ rule_id_map[n] = ids[i]
        BY <2>3, <3>2
      <4>2. Made(set.rules[i], rules, n)
        BY <4>1 DEF CtlInv, Ids
      <4> QED
        BY <2>2, <4>2 DEF Made
    <3> QED
      BY <3>1, <3>2
  <2> QED
    BY <1>1, <2>4, <2>5, <2>6 DEF RulesInv, Answered
<1>4. CASE backend_id # 0 /\ request.op # "add"
  <2>1. Forget(name)
    BY <1>4 DEF Finish, Commit
  <2> QED
    BY <1>1, <2>1, ForgetKeeps DEF CtlInv, RulesInv
<1> QED
  BY <1>2, <1>3, <1>4

(* The backend takes a rule on, under an id no rule had before.            *)
LEMMA InstalledFacts ==
    ASSUME RulesInv, request.rule \in Rules, Installed
    PROVE  /\ set'.rules \in Seq(Installable) /\ DistinctNames(set'.rules)
           /\ NamesOf(set'.rules) = NamesOf(set.rules) \cup {request.rule.name}
           /\ request.rule.name \notin NamesOf(set.rules)
           /\ issued' = issued + 1 /\ ids' \in Seq(1..issued')
           /\ Len(ids') = Len(set'.rules) /\ Len(ids') = Len(ids) + 1
           /\ \A i \in 1..Len(ids) : ids'[i] = ids[i] /\ set'.rules[i] = set.rules[i]
           /\ ids'[Len(ids) + 1] = issued' /\ set'.rules[Len(ids) + 1] = FromMessage(request.rule)
<1> DEFINE rule == FromMessage(request.rule)
           n == Len(ids)
<1>0. rule \in Installable /\ rule.name = request.rule.name
  BY Converted
<1> HIDE DEF rule
<1>1. /\ set.rules \in Seq(Installable) /\ DistinctNames(set.rules) /\ issued \in Nat
      /\ ids \in Seq(1..issued) /\ n = Len(set.rules) /\ n \in Nat
  BY DEF RulesInv, Backend
<1>2. /\ AddResult(set, rule) = "OK" /\ set' = WithRule(set, rule)
      /\ ids' = Append(ids, issued + 1) /\ issued' = issued + 1
  BY DEF Installed, rule
<1>3. set'.rules = Append(set.rules, rule)
  BY <1>2 DEF WithRule
<1>4. Positions(set, rule.name) = {}
  BY <1>2 DEF AddResult
<1>5. rule.name \notin NamesOf(set.rules)
  BY <1>4 DEF Positions, NamesOf
<1>6. /\ set'.rules \in Seq(Installable) /\ Len(set'.rules) = n + 1
      /\ \A i \in 1..n : set'.rules[i] = set.rules[i]
      /\ set'.rules[n + 1] = rule
  BY <1>0, <1>1, <1>3, AppendFacts
<1>7. NamesOf(set'.rules) = NamesOf(set.rules) \cup {rule.name} /\ DistinctNames(set'.rules)
  BY <1>0, <1>1, <1>3, <1>5, NamesAppend
<1>8. ids \in Seq(1..(issued + 1)) /\ issued + 1 \in 1..(issued + 1)
  <2>1. \A i \in 1..Len(ids) : ids[i] \in 1..(issued + 1)
    BY <1>1
  <2>2. ids = [i \in 1..Len(ids) |-> ids[i]] /\ Len(ids) \in Nat
    BY <1>1
  <2> HIDE DEF n
  <2> QED
    BY <1>1, <2>1, <2>2, IsASeq
<1>9. /\ ids' \in Seq(1..(issued + 1)) /\ Len(ids') = n + 1
      /\ \A i \in 1..n : ids'[i] = ids[i]
      /\ ids'[n + 1] = issued + 1
  BY <1>2, <1>8, AppendFacts
<1> QED
  BY <1>0, <1>1, <1>2, <1>5, <1>6, <1>7, <1>9 DEF rule

(* Two lists kept in step, the first without repetitions, lose a position. *)
OneEach(a) == \A i, j \in 1..Len(a) : a[i] = a[j] => i = j

InStep(c, d, S, T, a, b) ==
    /\ c \in Seq(S) /\ d \in Seq(T) /\ Len(c) = Len(d) /\ OneEach(c)
    /\ \A i \in 1..Len(c) : \E j \in 1..Len(a) : c[i] = a[j] /\ d[i] = b[j]

LEMMA RemoveBoth ==
    ASSUME NEW S, NEW T, NEW a \in Seq(S), NEW b \in Seq(T), Len(a) = Len(b),
           NEW k \in 1..Len(a), OneEach(a)
    PROVE  InStep(RemoveAt(a, k), RemoveAt(b, k), S, T, a, b)
<1> DEFINE c == RemoveAt(a, k)
           d == RemoveAt(b, k)
           n == Len(a)
<1>1. n \in Nat /\ k \in Nat /\ 1 <= k /\ k <= n /\ Len(b) = n
  OBVIOUS
<1>2. /\ c \in Seq(S) /\ Len(c) = n - 1
      /\ \A j \in 1..(n - 1) : c[j] = IF j < k THEN a[j] ELSE a[j + 1]
  BY RemoveAtFacts
<1>3. /\ d \in Seq(T) /\ Len(d) = Len(b) - 1
      /\ \A j \in 1..(Len(b) - 1) : d[j] = IF j < k THEN b[j] ELSE b[j + 1]
  BY k \in 1..Len(b), RemoveAtFacts
<1> DEFINE Old(i) == IF i < k THEN i ELSE i + 1
<1>4. ASSUME NEW i \in 1..(n - 1)
      PROVE  Old(i) \in 1..n /\ c[i] = a[Old(i)] /\ d[i] = b[Old(i)]
  <2>1. CASE i < k
    <3>1. Old(i) = i /\ i \in 1..n
      BY <1>1, <2>1
    <3> QED
      BY <1>1, <1>2, <1>3, <2>1, <3>1
  <2>2. CASE ~(i < k)
    <3>1. Old(i) = i + 1 /\ i + 1 \in 1..n
      BY <1>1, <2>2
    <3> QED
      BY <1>1, <1>2, <1>3, <2>2, <3>1
  <2> QED
    BY <2>1, <2>2
<1>5. ASSUME NEW i \in 1..(n - 1), NEW j \in 1..(n - 1), Old(i) = Old(j) PROVE i = j
  BY <1>1, <1>5
<1> HIDE DEF c, d, Old
<1>6. ASSUME NEW i \in 1..(n - 1), NEW j \in 1..(n - 1), c[i] = c[j] PROVE i = j
  BY <1>4, <1>5, <1>6 DEF OneEach
<1>7. Len(c) = n - 1 /\ Len(d) = n - 1
  BY <1>1, <1>2, <1>3
<1>8. \A i \in 1..Len(c) : \E j \in 1..n : c[i] = a[j] /\ d[i] = b[j]
  BY <1>4, <1>7
<1> QED
  BY <1>2, <1>3, <1>6, <1>7, <1>8 DEF c, d, OneEach, InStep

(* The backend lets a rule go, and the id at its position with it.         *)
LEMMA RemovedFacts ==
    ASSUME RulesInv, Removed, request.rule.name \in DOMAIN rule_id_map
    PROVE  /\ set'.rules \in Seq(Installable) /\ DistinctNames(set'.rules)
           /\ NamesOf(set'.rules) = NamesOf(set.rules) \ {request.rule.name}
           /\ request.rule.name \in NamesOf(set.rules)
           /\ issued' = issued /\ ids' \in Seq(1..issued)
           /\ Len(ids') = Len(set'.rules)
           /\ \A i, j \in 1..Len(ids') : ids'[i] = ids'[j] => i = j
           /\ \A i \in 1..Len(ids') : \E j \in 1..Len(ids) :
                 ids'[i] = ids[j] /\ set'.rules[i] = set.rules[j]
<1> DEFINE name == request.rule.name
<1>1. /\ set.rules \in Seq(Installable) /\ DistinctNames(set.rules) /\ issued \in Nat
      /\ ids \in Seq(1..issued) /\ Len(ids) = Len(set.rules) /\ Len(ids) \in Nat
      /\ DOMAIN ids = 1..Len(ids) /\ DOMAIN set.rules = 1..Len(ids)
  BY DEF RulesInv, Backend
<1>2. PICK k \in Position(rule_id_map[name]) :
        set' = WithoutRule(set, k) /\ ids' = RemoveAt(ids, k) /\ issued' = issued
  BY DEF Removed
<1>3. k \in 1..Len(ids) /\ ids[k] = rule_id_map[name]
  BY <1>1, <1>2 DEF Position
<1>4. set.rules[k].name = name
  BY <1>3, Converted DEF RulesInv, Ids
<1>5. set'.rules = RemoveAt(set.rules, k)
  BY <1>2 DEF WithoutRule
<1>6. \A i, j \in 1..Len(ids) : ids[i] = ids[j] => i = j
  BY DEF RulesInv, Backend
<1>7. /\ ids' \in Seq(1..issued) /\ set'.rules \in Seq(Installable) /\ Len(ids') = Len(set'.rules)
      /\ \A i \in 1..Len(ids') : \E j \in 1..Len(ids) : ids'[i] = ids[j] /\ set'.rules[i] = set.rules[j]
      /\ \A i, j \in 1..Len(ids') : ids'[i] = ids'[j] => i = j
  <2> DEFINE a == ids
             b == set.rules
             S == 1..issued
  <2>1. a \in Seq(S) /\ b \in Seq(Installable) /\ Len(a) = Len(b) /\ k \in 1..Len(a) /\ OneEach(a)
    BY <1>1, <1>3, <1>6 DEF OneEach
  <2>2. ids' = RemoveAt(a, k) /\ set'.rules = RemoveAt(b, k)
    BY <1>2, <1>5
  <2> HIDE DEF a, b, S
  <2>3. InStep(ids', set'.rules, S, Installable, a, b)
    BY <2>1, <2>2, RemoveBoth
  <2> QED
    BY <2>3 DEF a, b, S, InStep, OneEach
<1>8. DistinctNames(set'.rules) /\ NamesOf(set'.rules) = NamesOf(set.rules) \ {name}
  BY <1>1, <1>3, <1>4, <1>5, NamesRemove
<1>9. name \in NamesOf(set.rules)
  BY <1>1, <1>3, <1>4 DEF NamesOf
<1> QED
  BY <1>2, <1>7, <1>8, <1>9

(* What a forwarded request is.                                            *)
LEMMA CallFacts ==
    ASSUME CtlInv, Call
    PROVE  /\ request \in Commands /\ request.rule \in Rules /\ request' = request
           /\ server' = "called" /\ rules' = rules /\ rule_id_map' = rule_id_map /\ vapi' = vapi
           /\ restarts' = restarts
           /\ request.op \in {"add", "rm"}
           /\ request.op = "add" => ~Listed(request.rule.name)
           /\ request.op = "rm" => request.rule.name \in DOMAIN rule_id_map /\ Listed(request.rule.name)
<1>1. request \in Commands /\ request.rule \in Rules
  BY CommandType DEF CtlInv, Stage, Call
<1>2. DOMAIN rule_id_map \subseteq NamesOf(rules)
  BY DEF CtlInv, List
<1> QED
  BY <1>1, <1>2 DEF Call, Forwarded, Listed

LEMMA CallKeeps ==
    ASSUME CtlInv, Call
    PROVE  RulesInv'
<1> DEFINE name == request.rule.name
<1>1. /\ request \in Commands /\ request.rule \in Rules /\ request' = request
      /\ server' = "called" /\ rules' = rules /\ rule_id_map' = rule_id_map /\ vapi' = vapi
      /\ restarts' = restarts
      /\ request.op \in {"add", "rm"}
      /\ request.op = "add" => ~Listed(name)
      /\ request.op = "rm" => name \in DOMAIN rule_id_map /\ Listed(name)
  BY CallFacts
<1>2. RulesInv /\ issued \in Nat /\ lost \in Nat
  BY DEF CtlInv, RulesInv, Backend
<1>3. \A n \in DOMAIN rule_id_map : rule_id_map[n] \in 1..issued
  BY DEF CtlInv, List
<1>4. ~Listed(name)' <=> ~Listed(name)
  BY <1>1 DEF Listed
<1>5. CASE Refused
  <2>1. set' = set /\ ids' = ids /\ issued' = issued /\ lost' = lost /\ backend_id' = 0
    BY <1>5 DEF Refused, backendvars
  <2>2. List' /\ Backend' /\ Ids'
    BY <1>1, <1>2, <2>1 DEF RulesInv, List, Backend, Ids
  <2>3. Answered'
    BY <1>1, <1>2, <1>4, <2>1 DEF Answered
  <2> QED
    BY <2>2, <2>3 DEF RulesInv
<1>6. CASE ~Refused /\ request.op = "add"
  <2>1. /\ Installed /\ lost' \in Nat /\ backend_id' \in {0, issued + 1}
    BY <1>2, <1>6 DEF Call
  <2>2. /\ set'.rules \in Seq(Installable) /\ DistinctNames(set'.rules)
        /\ issued' = issued + 1 /\ ids' \in Seq(1..issued')
        /\ Len(ids') = Len(set'.rules) /\ Len(ids') = Len(ids) + 1
        /\ \A i \in 1..Len(ids) : ids'[i] = ids[i] /\ set'.rules[i] = set.rules[i]
        /\ ids'[Len(ids) + 1] = issued' /\ set'.rules[Len(ids) + 1] = FromMessage(request.rule)
    BY <1>1, <1>2, <2>1, InstalledFacts
  <2>3. Len(ids) \in Nat /\ \A i \in 1..Len(ids) : ids[i] \in 1..issued
    BY <1>2 DEF RulesInv, Backend
  <2>4. \A i \in 1..Len(ids') : i \in 1..Len(ids) \/ i = Len(ids) + 1
    BY <2>2, <2>3
  <2>5. \A i \in 1..Len(ids') : ids'[i] \in 1..issued => i \in 1..Len(ids)
    BY <1>2, <2>2, <2>4
  <2>6. \A i \in 1..Len(ids') : ids'[i] = issued + 1 => set'.rules[i] = FromMessage(request.rule)
    BY <1>2, <2>2, <2>3, <2>4
  <2>7. List'
    <3>1. \A n \in DOMAIN rule_id_map : rule_id_map[n] \in 1..(issued + 1)
      BY <1>2, <1>3
    <3> QED
      BY <1>1, <1>2, <2>2, <3>1 DEF RulesInv, List
  <2>8. Backend'
    <3>1. \A i, j \in 1..Len(ids) : ids[i] = ids[j] => i = j
      BY <1>2 DEF RulesInv, Backend
    <3>2. \A i \in 1..Len(ids) : ids'[i] # issued + 1
      BY <1>2, <2>2, <2>3
    <3>3. \A i, j \in 1..Len(ids') : ids'[i] = ids'[j] => i = j
      BY <2>2, <2>4, <3>1, <3>2
    <3>4. restarts' \in Nat /\ issued' \in Nat
      BY <1>1, <1>2, <2>2 DEF RulesInv, Backend
    <3> QED
      BY <2>1, <2>2, <3>3, <3>4 DEF Backend
  <2>9. Ids'
    <3> SUFFICES ASSUME NEW n \in DOMAIN rule_id_map, NEW i \in 1..Len(ids'), ids'[i] = rule_id_map[n]
                 PROVE  Made(set'.rules[i], rules, n)
      BY <1>1 DEF Ids
    <3>1. i \in 1..Len(ids)
      BY <1>3, <2>5
    <3>2. ids[i] = rule_id_map[n] /\ set'.rules[i] = set.rules[i]
      BY <2>2, <3>1
    <3> QED
      BY <1>2, <3>1, <3>2 DEF RulesInv, Ids
  <2>10. Answered'
    <3>1. backend_id' \in 0..issued'
      BY <1>2, <2>1, <2>2
    <3>2. backend_id' # 0 => \A i \in 1..Len(ids') : ids'[i] = backend_id' => set'.rules[i] = FromMessage(request'.rule)
      BY <1>1, <2>1, <2>6
    <3> QED
      BY <1>1, <1>4, <3>1, <3>2 DEF Answered
  <2> QED
    BY <2>7, <2>8, <2>9, <2>10 DEF RulesInv
<1>7. CASE ~Refused /\ request.op # "add"
  <2>1. request.op = "rm" /\ name \in DOMAIN rule_id_map /\ Listed(name)
    BY <1>1, <1>7
  <2>2. Removed /\ lost' \in Nat /\ backend_id' \in {0, rule_id_map[name]}
    BY <1>2, <1>7 DEF Call
  <2>3. /\ set'.rules \in Seq(Installable) /\ DistinctNames(set'.rules)
        /\ issued' = issued /\ ids' \in Seq(1..issued)
        /\ Len(ids') = Len(set'.rules)
        /\ \A i, j \in 1..Len(ids') : ids'[i] = ids'[j] => i = j
        /\ \A i \in 1..Len(ids') : \E j \in 1..Len(ids) :
              ids'[i] = ids[j] /\ set'.rules[i] = set.rules[j]
    BY <1>2, <2>1, <2>2, RemovedFacts
  <2>4. List'
    BY <1>1, <1>2, <2>3 DEF RulesInv, List
  <2>5. Backend'
    BY <1>1, <1>2, <2>2, <2>3 DEF RulesInv, Backend
  <2>6. Ids'
    <3> SUFFICES ASSUME NEW n \in DOMAIN rule_id_map, NEW i \in 1..Len(ids'), ids'[i] = rule_id_map[n]
                 PROVE  Made(set'.rules[i], rules, n)
      BY <1>1 DEF Ids
    <3>1. PICK j \in 1..Len(ids) : ids'[i] = ids[j] /\ set'.rules[i] = set.rules[j]
      BY <2>3
    <3> QED
      BY <1>2, <3>1 DEF RulesInv, Ids
  <2>7. Answered'
    <3>1. backend_id' \in 0..issued'
      BY <1>2, <1>3, <2>1, <2>2, <2>3
    <3> QED
      BY <1>1, <1>4, <2>1, <3>1 DEF Answered, Listed
  <2> QED
    BY <2>4, <2>5, <2>6, <2>7 DEF RulesInv
<1> QED
  BY <1>5, <1>6, <1>7

(* Restarts: the frontend keeps no id, the backend no rule.                *)
LEMMA FrontendRestartKeeps ==
    ASSUME RulesInv, rules' = Configured, rule_id_map' = << >>, server' # "called",
           vapi' \in {"none", "connected", "gone"},
           set' = set, ids' = ids, issued' = issued, lost' = lost, restarts' \in Nat
    PROVE  RulesInv'
<1>1. DOMAIN rule_id_map' = {}
  OBVIOUS
<1>2. rules' \in Seq(Rules \cup Range(Configured)) /\ DistinctNames(rules')
  OBVIOUS
<1>3. List' /\ Backend' /\ Ids' /\ Answered'
  BY <1>1, <1>2 DEF RulesInv, List, Backend, Ids, Answered
<1> QED
  BY <1>3 DEF RulesInv

LEMMA VppRestartKeeps ==
    ASSUME RulesInv, VppRestarts
    PROVE  RulesInv'
<1>1. /\ restarts' = restarts + 1 /\ set'.rules = << >> /\ ids' = << >>
      /\ vapi' \in {vapi, "gone"} /\ issued' = issued /\ lost' = lost /\ rules' = rules
      /\ rule_id_map' = rule_id_map /\ server' = server /\ request' = request
      /\ backend_id' = backend_id
  BY DEF VppRestarts, EmptyRuleSet
<1>2. /\ << >> \in Seq(Installable) /\ ids' \in Seq(1..issued) /\ Len(ids') = 0 /\ 1..Len(ids') = {}
      /\ Len(set'.rules) = 0
  BY <1>1
<1>3. DistinctNames(set'.rules)
  BY <1>1 DEF DistinctNames
<1>4. List'
  BY <1>1 DEF RulesInv, List
<1>5. Backend'
  BY <1>1, <1>2, <1>3 DEF RulesInv, Backend
<1>6. Ids' /\ Answered'
  BY <1>1, <1>2 DEF RulesInv, Ids, Answered, Listed
<1> QED
  BY <1>4, <1>5, <1>6 DEF RulesInv

-----------------------------------------------------------------------------
(* The invariant holds in every reachable state.                           *)
LEMMA CtlInit == Init => CtlInv
<1> SUFFICES ASSUME Init PROVE CtlInv
  OBVIOUS
<1>1. /\ rules = Configured /\ rule_id_map = << >> /\ vapi \in {"none", "connected"}
      /\ server = "accept" /\ request = Idle /\ backend_id = 0 /\ backlog = << >>
      /\ waiting = [c \in Clients |-> 0] /\ exit = [c \in Clients |-> 0]
      /\ set.rules = << >> /\ ids = << >> /\ issued = 0 /\ sent = 0 /\ lost = 0 /\ restarts = 0
  BY DEF Init, EmptyRuleSet
<1>2. Stage /\ Queue /\ Waits
  BY <1>1 DEF Stage, Queue, Waits
<1>3. List
  BY <1>1 DEF List
<1>4. Backend
  BY <1>1 DEF Backend, DistinctNames
<1>5. Ids /\ Answered
  BY <1>1 DEF Ids, Answered
<1> QED
  BY <1>2, <1>3, <1>4, <1>5 DEF CtlInv

(* The answer each way of handling a request ends with.                    *)
LEMMA Answers ==
    ASSUME Refuse \/ Show \/ Local \/ Finish
    PROVE  /\ server \in {"handle", "called"}
           /\ \E code \in {0, 3, 6, 7} : Done(code)
<1>1. CASE Refuse
  BY <1>1 DEF Refuse, Done
<1>2. CASE Show
  BY <1>2 DEF Show, Done
<1>3. CASE Local
  BY <1>3 DEF Local, Done
<1>4. CASE Finish
  <2>1. CASE backend_id = 0
    BY <1>4, <2>1 DEF Finish, Commit, Done
  <2>2. CASE backend_id # 0
    BY <1>4, <2>2 DEF Finish, Commit, Done
  <2> QED
    BY <1>4, <2>1, <2>2 DEF Finish
<1> QED
  BY <1>1, <1>2, <1>3, <1>4

LEMMA Steps ==
    ASSUME CtlInv, [Next]_vars
    PROVE  \/ \E command \in Commands : Send(command)
           \/ \E c \in Clients : GiveUp(c)
           \/ Read \/ Refuse \/ Show \/ Local \/ Call \/ Finish
           \/ FrontendStops \/ FrontendStarts \/ VppRestarts
           \/ UNCHANGED vars
BY DEF Next, Server

LEMMA OrderedKeeps ==
    ASSUME CtlInv, [Next]_vars
    PROVE  Ordered'
<1>0. Ordered
  BY DEF CtlInv, Ordered
<1>1. ASSUME NEW command \in Commands, Send(command) PROVE Ordered'
  BY <1>0, <1>1, SendKeeps, SendFailsKeeps
<1>2. ASSUME NEW c \in Clients, GiveUp(c) PROVE Ordered'
  BY <1>0, <1>2, GiveUpKeeps
<1>3. ASSUME Read PROVE Ordered'
  BY <1>0, <1>3, ReadKeeps
<1>4. ASSUME Refuse \/ Show \/ Local \/ Finish PROVE Ordered'
  BY <1>0, <1>4, Answers, RespondKeeps
<1>5. ASSUME Call PROVE Ordered'
  <2>1. Same /\ server = "handle" /\ server' = "called" /\ request' = request
    BY <1>5 DEF Call, Same, clientvars
  <2>2. Stage'
    BY <1>0, <2>1 DEF Ordered, Stage
  <2> QED
    BY <1>0, <2>1, <2>2, SameKeeps
<1>6. ASSUME FrontendStops PROVE Ordered'
  BY <1>0, <1>6, StopKeeps
<1>7. ASSUME FrontendStarts PROVE Ordered'
  <2>1. Same /\ server = "down" /\ server' = "accept" /\ request' = Idle /\ backend_id' = 0
    BY <1>0, <1>7 DEF FrontendStarts, Start, Same, clientvars, Ordered, Stage
  <2>2. Stage'
    BY <2>1 DEF Stage
  <2> QED
    BY <1>0, <2>1, <2>2, SameKeeps
<1>8. ASSUME VppRestarts PROVE Ordered'
  <2>1. /\ Same /\ server' = server /\ request' = request /\ backend_id' = backend_id
        /\ rules' = rules /\ rule_id_map' = rule_id_map /\ backlog' = backlog /\ waiting' = waiting
    BY <1>8 DEF VppRestarts, Same, clientvars
  <2>2. Stage'
    BY <1>0, <2>1 DEF Ordered, Stage
  <2> QED
    BY <1>0, <2>1, <2>2, SameKeeps
<1>9. ASSUME UNCHANGED vars PROVE Ordered'
  <2>1. /\ Same /\ server' = server /\ request' = request /\ backend_id' = backend_id
        /\ rules' = rules /\ rule_id_map' = rule_id_map /\ backlog' = backlog /\ waiting' = waiting
    BY <1>9 DEF vars, Same, clientvars, servervars
  <2>2. Stage'
    BY <1>0, <2>1 DEF Ordered, Stage
  <2> QED
    BY <1>0, <2>1, <2>2, SameKeeps
<1> QED
  BY <1>1, <1>2, <1>3, <1>4, <1>5, <1>6, <1>7, <1>8, <1>9, Steps

LEMMA RulesKeep ==
    ASSUME CtlInv, [Next]_vars
    PROVE  RulesInv'
<1>0. RulesInv
  BY DEF CtlInv, RulesInv
<1>1. ASSUME NEW command \in Commands, Send(command) PROVE RulesInv'
  <2>1. Quiet
    BY <1>1 DEF Send, Quiet, backendvars, servervars
  <2> QED
    BY <1>0, <2>1, QuietKeeps
<1>2. ASSUME NEW c \in Clients, GiveUp(c) PROVE RulesInv'
  <2>1. Quiet
    BY <1>2 DEF GiveUp, Quiet, backendvars, servervars
  <2> QED
    BY <1>0, <2>1, QuietKeeps
<1>3. ASSUME Read \/ Refuse \/ Show PROVE RulesInv'
  <2>1. Quiet
    <3>1. CASE Read
      BY <3>1 DEF Read, Quiet, backendvars
    <3>2. CASE Refuse
      BY <3>2 DEF Refuse, Respond, Quiet, backendvars
    <3>3. CASE Show
      BY <3>3 DEF Show, Respond, Quiet, backendvars
    <3> QED
      BY <1>3, <3>1, <3>2, <3>3
  <2> QED
    BY <1>0, <2>1, QuietKeeps
<1>4. ASSUME Local PROVE RulesInv'
  BY <1>4, LocalKeeps
<1>5. ASSUME Call PROVE RulesInv'
  BY <1>5, CallKeeps
<1>6. ASSUME Finish PROVE RulesInv'
  BY <1>6, FinishKeeps
<1>7. ASSUME FrontendStops PROVE RulesInv'
  <2>1. /\ rules' = Configured /\ rule_id_map' = << >> /\ server' # "called"
        /\ vapi' = vapi /\ restarts' = restarts + 1
        /\ set' = set /\ ids' = ids /\ issued' = issued /\ lost' = lost
    BY <1>7 DEF FrontendStops, backendvars
  <2>2. vapi' \in {"none", "connected", "gone"} /\ restarts' \in Nat
    BY <1>0, <2>1 DEF RulesInv, List, Backend
  <2> QED
    BY <1>0, <2>1, <2>2, FrontendRestartKeeps
<1>8. ASSUME FrontendStarts PROVE RulesInv'
  <2>1. /\ rules' = Configured /\ rule_id_map' = << >> /\ server' # "called"
        /\ vapi' \in {"none", "connected", "gone"} /\ restarts' = restarts
        /\ set' = set /\ ids' = ids /\ issued' = issued /\ lost' = lost
    BY <1>8 DEF FrontendStarts, Start, backendvars
  <2>2. restarts' \in Nat
    BY <1>0, <2>1 DEF RulesInv, Backend
  <2> QED
    BY <1>0, <2>1, <2>2, FrontendRestartKeeps
<1>9. ASSUME VppRestarts PROVE RulesInv'
  BY <1>0, <1>9, VppRestartKeeps
<1>10. ASSUME UNCHANGED vars PROVE RulesInv'
  <2>1. Quiet
    BY <1>10 DEF vars, Quiet, backendvars, servervars
  <2> QED
    BY <1>0, <2>1, QuietKeeps
<1> QED
  BY <1>1, <1>2, <1>3, <1>4, <1>5, <1>6, <1>7, <1>8, <1>9, <1>10, Steps

LEMMA CtlStep == CtlInv /\ [Next]_vars => CtlInv'
BY OrderedKeeps, RulesKeep DEF CtlInv, Ordered, RulesInv

(* The invariant that the theorems below rest on: CtlInv.                  *)
THEOREM Invariance == Spec => []CtlInv
BY CtlInit, CtlStep, PTL DEF Spec

-----------------------------------------------------------------------------
(* However requests were abandoned, replies lost and either program        *)
(* restarted, an id the frontend holds is never that of a backend rule     *)
(* with another name or definition (handle_flow_rule_rm, control.rs).      *)
THEOREM IdsNameTheirRuleCorrect == Spec => []IdsNameTheirRule
<1>1. CtlInv => IdsNameTheirRule
  <2> SUFFICES ASSUME CtlInv PROVE IdsNameTheirRule
    OBVIOUS
  <2>1. DOMAIN ids = 1..Len(ids)
    BY DEF CtlInv, Backend
  <2> QED
    BY <2>1 DEF CtlInv, List, Ids, Made, IdsNameTheirRule, Position
<1> QED
  BY <1>1, Invariance, PTL

(* An abandoned request never takes effect after a later one of the same   *)
(* client was answered (run_server, control.rs).                           *)
THEOREM NothingLeftBehindCorrect == Spec => NothingLeftBehind
<1> DEFINE Behind == \A c \in Clients :
         server # "down" /\ server' = "accept" /\ waiting[c] # 0 /\ waiting'[c] = 0 /\ request.client = c =>
            \A i \in DOMAIN backlog' : backlog'[i].client # c
<1>1. CtlInv /\ [Next]_vars => [Behind]_vars
  <2> SUFFICES ASSUME CtlInv, [Next]_vars, NEW c \in Clients,
                      server # "down", server' = "accept", waiting[c] # 0, waiting'[c] = 0,
                      request.client = c, NEW i \in DOMAIN backlog', backlog'[i].client = c
               PROVE  FALSE
    OBVIOUS
  <2>0. Ordered /\ request # Idle /\ waiting \in [Clients -> Nat]
    <3>1. Idle.client = "none"
      BY DEF Idle
    <3> QED
      BY <3>1 DEF CtlInv, Ordered, Waits
  <2>1. server \in {"handle", "called"}
    BY <2>0 DEF Ordered, Stage
  <2>2. request \in Commands /\ request \in Pending
    BY <2>0, <2>1, InHandIsPending
  <2>3. CASE Refuse \/ Show \/ Local \/ Finish
    <3>1. PICK code \in {0, 3, 6, 7} : Done(code)
      BY <2>3, Answers
    <3>2. backlog' = backlog
      BY <3>1 DEF Done
    <3>3. waiting[c] = request.seq
      <4>1. CASE waiting[request.client] # request.seq
        BY <3>1, <4>1 DEF Done, Respond
      <4> QED
        BY <4>1
    <3>4. i \in 1..Len(backlog) /\ request.seq < backlog[i].seq /\ backlog[i] \in Commands
      BY <2>0, <2>1, <3>2 DEF Ordered, Queue
    <3>5. backlog[i] \in Pending
      BY <3>2, <3>4 DEF Pending, Range
    <3>6. backlog[i].seq <= waiting[c]
      BY <2>0, <3>2, <3>5 DEF Ordered, Waits
    <3>7. backlog[i].seq \in Nat /\ request.seq \in Nat
      BY <2>2, <3>4, CommandType
    <3> QED
      BY <3>3, <3>4, <3>6, <3>7
  <2>5. CASE FrontendStops \/ FrontendStarts
    BY <2>5 DEF FrontendStops, FrontendStarts
  <2>6. CASE Read \/ Call \/ VppRestarts \/ UNCHANGED vars
    BY <2>1, <2>6 DEF Read, Call, VppRestarts, vars, servervars
  <2>7. ASSUME NEW command \in Commands, Send(command) PROVE FALSE
    BY <2>1, <2>7 DEF Send, servervars
  <2>8. ASSUME NEW d \in Clients, GiveUp(d) PROVE FALSE
    BY <2>1, <2>8 DEF GiveUp, servervars
  <2> QED
    BY <2>3, <2>5, <2>6, <2>7, <2>8, Steps
<1>2. NothingLeftBehind <=> [][Behind]_vars
  BY DEF NothingLeftBehind
<1> QED
  BY <1>1, <1>2, Invariance, PTL DEF Spec

-----------------------------------------------------------------------------
(* The registry: every step is one of its steps, or shows nothing.         *)
Waiting == {c \in Clients : waiting[c] # 0}

(* A step of the system that the registry does not see.                    *)
LEMMA Hidden ==
    ASSUME rules' = rules, Pending' = Pending, UNCHANGED <<waiting, exit>>
    PROVE  UNCHANGED Registry!vars
BY DEF Registry!vars, Pending

(* An answer is the registry carrying the command out.                     *)
LEMMA DoneCarriesOut ==
    ASSUME Ordered, server \in {"handle", "called"}, NEW code \in {0, 3, 6, 7}, Done(code),
           Registry!Effect(request, ExitCode(code))
    PROVE  Registry!Next
<1> DEFINE c0 == request.client
           answer == ExitCode(code)
<1>1. /\ request \in Commands /\ request \in Pending /\ c0 \in Clients /\ request.seq \in Nat \ {0}
      /\ waiting \in [Clients -> Nat] /\ exit \in [Clients -> Nat]
  BY InHandIsPending, CommandType DEF Ordered, Waits
<1>2. Pending' = Pending \ {request}
  BY RespondKeeps
<1>3. answer \in {0, 1, 3, 6}
  BY DEF ExitCode
<1> DEFINE Reached == \E c \in Waiting : c = c0 /\
                          \A later \in Pending : later.client = c => later.seq <= request.seq
<1>4. Reached <=> waiting[c0] = request.seq
  <2>1. ASSUME waiting[c0] = request.seq PROVE Reached
    <3>1. c0 \in Waiting
      BY <1>1, <2>1 DEF Waiting
    <3>2. \A p \in Pending : p.client = c0 => p.seq <= request.seq
      BY <1>1, <2>1 DEF Ordered, Waits
    <3> QED
      BY <3>1, <3>2
  <2>2. ASSUME Reached PROVE waiting[c0] = request.seq
    <3>1. waiting[c0] # 0 /\ \A p \in Pending : p.client = c0 => p.seq <= request.seq
      BY <2>2 DEF Waiting
    <3>2. PICK p \in Pending : p.client = c0 /\ p.seq = waiting[c0]
      BY <1>1, <3>1 DEF Ordered, Waits
    <3>3. p.seq <= request.seq /\ request.seq <= waiting[c0] /\ waiting[c0] \in Nat
      BY <1>1, <3>1, <3>2 DEF Ordered, Waits
    <3> QED
      BY <1>1, <3>2, <3>3
  <2> QED
    BY <2>1, <2>2
<1>5. /\ Reached => Waiting' = Waiting \ {c0} /\ exit' = [exit EXCEPT ![c0] = answer]
      /\ ~Reached => Waiting' = Waiting /\ exit' = exit
  <2>1. CASE waiting[c0] = request.seq
    <3>1. waiting' = [waiting EXCEPT ![c0] = 0] /\ exit' = [exit EXCEPT ![c0] = answer]
      BY <2>1 DEF Done, Respond
    <3>2. Waiting' = Waiting \ {c0}
      BY <1>1, <3>1 DEF Waiting
    <3> HIDE DEF Reached
    <3> QED
      BY <1>4, <2>1, <3>1, <3>2
  <2>2. CASE waiting[c0] # request.seq
    <3>1. waiting' = waiting /\ exit' = exit
      BY <2>2 DEF Done, Respond
    <3> HIDE DEF Reached
    <3> QED
      BY <1>4, <2>2, <3>1 DEF Waiting
  <2> QED
    BY <2>1, <2>2
<1>6. Registry!CarryOut(request, answer)
  BY <1>1, <1>2, <1>5 DEF Registry!CarryOut, Pending, Waiting
<1> QED
  BY <1>1, <1>3, <1>6 DEF Registry!Next, Pending

(* The registry lists a name when the frontend does.                       *)
LEMMA SameNames ==
    ASSUME NEW name
    PROVE  Registry!IsListed(name) <=> Listed(name)
BY NamesOfRange DEF Registry!IsListed, Listed

LEMMA RefuseShows ==
    ASSUME CtlInv, Refuse \/ Show
    PROVE  Registry!Next
<1>0. Ordered
  BY DEF CtlInv, Ordered
<1>1. rules' = rules /\ server = "handle" /\ (Registry!IsListed(request.rule.name) <=> Listed(request.rule.name))
  BY SameNames DEF Refuse, Show
<1>2. CASE request.op = "add" /\ Listed(request.rule.name) /\ Done(6)
  <2>1. Registry!Effect(request, ExitCode(6))
    BY <1>1, <1>2 DEF Registry!Effect, ExitCode
  <2> QED
    BY <1>0, <1>1, <1>2, <2>1, DoneCarriesOut
<1>3. CASE request.op \in {"rm", "show"} /\ ~Listed(request.rule.name) /\ Done(3)
  <2>1. Registry!Effect(request, ExitCode(3))
    BY <1>1, <1>3 DEF Registry!Effect, ExitCode
  <2> QED
    BY <1>0, <1>1, <1>3, <2>1, DoneCarriesOut
<1>4. CASE request.op = "show" /\ Listed(request.rule.name) /\ Done(0)
  <2>1. Registry!Effect(request, ExitCode(0))
    BY <1>1, <1>4 DEF Registry!Effect, ExitCode
  <2> QED
    BY <1>0, <1>1, <1>4, <2>1, DoneCarriesOut
<1> QED
  BY <1>2, <1>3, <1>4 DEF Refuse, Show, Done

(* A rule is listed, or forgotten, and the client told so.                 *)
LEMMA ListShows ==
    ASSUME CtlInv, server \in {"handle", "called"}, request.op = "add",
           ~Listed(request.rule.name), rules' = Append(rules, request.rule), Done(0)
    PROVE  Registry!Next
<1>1. Ordered /\ List /\ request.rule \in Rules
  BY CommandType DEF CtlInv, Ordered, Stage
<1>2. Range(rules') = Range(rules) \cup {request.rule}
  BY <1>1, ListMore
<1>3. ~Registry!IsListed(request.rule.name)
  BY SameNames
<1>4. Registry!Effect(request, ExitCode(0))
  BY <1>2, <1>3 DEF Registry!Effect, ExitCode
<1> QED
  BY <1>1, <1>4, DoneCarriesOut

LEMMA ForgetShows ==
    ASSUME CtlInv, server \in {"handle", "called"}, request.op = "rm",
           Listed(request.rule.name), Forget(request.rule.name), Done(0)
    PROVE  Registry!Next
<1>1. Ordered /\ List
  BY DEF CtlInv, Ordered
<1>2. Range(rules') = {r \in Range(rules) : r.name # request.rule.name}
  BY <1>1, ForgetFacts
<1>3. Registry!IsListed(request.rule.name)
  BY SameNames
<1>4. Registry!Effect(request, ExitCode(0))
  BY <1>2, <1>3 DEF Registry!Effect, ExitCode
<1> QED
  BY <1>1, <1>4, DoneCarriesOut

LEMMA LocalShows ==
    ASSUME CtlInv, Local
    PROVE  Registry!Next
<1>1. server = "handle" /\ Done(0)
  BY DEF Local, Done
<1>2. \/ request.op = "add" /\ ~Listed(request.rule.name) /\ rules' = Append(rules, request.rule)
      \/ request.op = "rm" /\ Listed(request.rule.name) /\ Forget(request.rule.name)
  BY DEF Local
<1> QED
  BY <1>1, <1>2, ListShows, ForgetShows

LEMMA FinishShows ==
    ASSUME CtlInv, Finish
    PROVE  Registry!Next
<1>0. Ordered /\ server = "called" /\ request.op \in {"add", "rm"}
  BY DEF CtlInv, Ordered, Finish, Answered
<1>1. CASE backend_id = 0
  <2>1. rules' = rules /\ Done(7)
    BY <1>1 DEF Finish, Commit, Done
  <2>2. Registry!Effect(request, ExitCode(7))
    BY <1>0, <2>1 DEF Registry!Effect, ExitCode
  <2> QED
    BY <1>0, <2>1, <2>2, DoneCarriesOut
<1>2. CASE backend_id # 0
  <2>1. Done(0)
    BY <1>2 DEF Finish, Commit, Done
  <2>2. CASE request.op = "add"
    <3>1. rules' = Append(rules, request.rule)
      <4>1. request.op # "rm"
        BY <2>2
      <4> QED
        BY <1>2, <4>1 DEF Finish, Commit
    <3>2. ~Listed(request.rule.name)
      BY <1>0, <2>2 DEF CtlInv, Answered
    <3> QED
      BY <1>0, <2>1, <2>2, <3>1, <3>2, ListShows
  <2>3. CASE request.op = "rm"
    <3>1. Forget(request.rule.name)
      <4>1. request.op # "add"
        BY <2>3
      <4> QED
        BY <1>2, <4>1 DEF Finish, Commit
    <3>2. Listed(request.rule.name)
      BY <1>0, <2>3 DEF CtlInv, Answered
    <3> QED
      BY <1>0, <2>1, <2>3, <3>1, <3>2, ForgetShows
  <2> QED
    BY <1>0, <2>2, <2>3
<1> QED
  BY <1>1, <1>2

LEMMA SendShows ==
    ASSUME CtlInv, NEW command \in Commands, Send(command)
    PROVE  Registry!Next
<1> DEFINE c0 == command.client
<1>1. /\ Ordered /\ c0 \in Clients /\ command.seq \in Nat \ {0} /\ waiting[c0] = 0
      /\ rules' = rules /\ waiting \in [Clients -> Nat]
  BY CommandType DEF CtlInv, Ordered, Waits, Send, servervars
<1>2. c0 \notin Waiting
  BY <1>1 DEF Waiting
<1>3. CASE server # "down"
  <2>1. Pending' = Pending \cup {command}
    BY <1>1, <1>3, SendKeeps
  <2>2. /\ waiting' = [waiting EXCEPT ![c0] = command.seq] /\ exit' = [exit EXCEPT ![c0] = 0]
    BY <1>3 DEF Send
  <2>3. Waiting' = Waiting \cup {c0}
    BY <1>1, <2>2 DEF Waiting
  <2>4. Registry!Send(command)
    BY <1>1, <1>2, <2>1, <2>2, <2>3 DEF Registry!Send, Waiting, Pending
  <2> QED
    BY <2>4 DEF Registry!Next
<1>4. CASE server = "down"
  <2>1. Pending' = Pending
    BY <1>1, <1>4, SendFailsKeeps
  <2>2. waiting' = waiting /\ exit' = [exit EXCEPT ![c0] = 4]
    BY <1>4 DEF Send
  <2>3. Waiting' = Waiting /\ Waiting' = Waiting \ {c0}
    BY <1>2, <2>2 DEF Waiting
  <2>4. Registry!Fail(c0, 4)
    BY <1>1, <2>1, <2>2, <2>3 DEF Registry!Fail, Waiting, Pending
  <2> QED
    BY <1>1, <1>2, <2>4 DEF Registry!Next, Waiting
<1> QED
  BY <1>3, <1>4

LEMMA GiveUpShows ==
    ASSUME CtlInv, NEW c0 \in Clients, GiveUp(c0)
    PROVE  Registry!Next
<1>1. /\ Ordered /\ waiting[c0] # 0 /\ waiting' = [waiting EXCEPT ![c0] = 0]
      /\ exit' = [exit EXCEPT ![c0] = 1] /\ rules' = rules /\ waiting \in [Clients -> Nat]
  BY DEF CtlInv, Ordered, Waits, GiveUp, servervars
<1>2. Pending' = Pending
  BY <1>1, GiveUpKeeps
<1>3. Waiting' = Waiting \ {c0} /\ c0 \in Waiting
  BY <1>1 DEF Waiting
<1>4. Registry!Fail(c0, 1)
  BY <1>1, <1>2, <1>3 DEF Registry!Fail, Waiting, Pending
<1> QED
  BY <1>3, <1>4 DEF Registry!Next, Waiting

LEMMA StopShows ==
    ASSUME CtlInv, FrontendStops
    PROVE  Registry!Next
<1>1. /\ Ordered /\ rules' = Configured
      /\ exit' = [c \in Clients |-> IF waiting[c] # 0 THEN 1 ELSE exit[c]]
  BY DEF CtlInv, Ordered, FrontendStops
<1>2. Pending' = {} /\ Waiting' = {}
  BY <1>1, StopKeeps DEF Waiting
<1>3. exit' = [c \in Clients |-> IF c \in Waiting THEN 1 ELSE exit[c]]
  BY <1>1 DEF Waiting
<1>4. Registry!Restart
  BY <1>1, <1>2, <1>3 DEF Registry!Restart, Waiting, Pending
<1> QED
  BY <1>4 DEF Registry!Next

(* Every step of the frontend, the backend and the clients is one of the   *)
(* registry, or hidden from it.                                            *)
LEMMA RegistryStep == CtlInv /\ [Next]_vars => [Registry!Next]_(Registry!vars)
<1> SUFFICES ASSUME CtlInv, [Next]_vars
             PROVE  Registry!Next \/ UNCHANGED Registry!vars
  OBVIOUS
<1>0. Ordered
  BY DEF CtlInv, Ordered
<1>1. ASSUME NEW command \in Commands, Send(command) PROVE Registry!Next
  BY <1>1, SendShows
<1>2. ASSUME NEW c \in Clients, GiveUp(c) PROVE Registry!Next
  BY <1>2, GiveUpShows
<1>3. ASSUME Read PROVE UNCHANGED Registry!vars
  <2>1. Pending' = Pending /\ rules' = rules /\ UNCHANGED <<waiting, exit>>
    BY <1>0, <1>3, ReadKeeps DEF Read, clientvars
  <2> QED
    BY <2>1, Hidden
<1>4. ASSUME Call \/ VppRestarts PROVE UNCHANGED Registry!vars
  <2>1. Pending' = Pending /\ rules' = rules /\ UNCHANGED <<waiting, exit>>
    BY <1>4 DEF Call, VppRestarts, clientvars, Pending
  <2> QED
    BY <2>1, Hidden
<1>5. ASSUME FrontendStarts PROVE UNCHANGED Registry!vars
  <2>1. /\ rules = Configured /\ rules' = Configured /\ request = Idle /\ request' = Idle
        /\ backlog' = backlog /\ UNCHANGED <<waiting, exit>>
    BY <1>0, <1>5 DEF FrontendStarts, Start, clientvars, Ordered, Stage
  <2> QED
    BY <2>1, Hidden DEF Pending
<1>6. ASSUME UNCHANGED vars PROVE UNCHANGED Registry!vars
  <2>1. Pending' = Pending /\ rules' = rules /\ UNCHANGED <<waiting, exit>>
    BY <1>6 DEF vars, clientvars, servervars, Pending
  <2> QED
    BY <2>1, Hidden
<1> QED
  BY <1>1, <1>2, <1>3, <1>4, <1>5, <1>6, Steps, RefuseShows, LocalShows, FinishShows, StopShows

LEMMA RegistryInit == Init => Registry!Init
<1> SUFFICES ASSUME Init PROVE Registry!Init
  OBVIOUS
<1>1. /\ rules = Configured /\ backlog = << >> /\ request = Idle
      /\ waiting = [c \in Clients |-> 0] /\ exit = [c \in Clients |-> 0]
  BY DEF Init
<1>2. Range(backlog) = {}
  BY <1>1 DEF Range
<1> QED
  BY <1>1, <1>2 DEF Registry!Init

(* Two-step additions and removals, abandoned requests, lost replies and   *)
(* crashes between the steps never show: what infmonctl sees is one atomic *)
(* registry of rules, and every exit code tells the truth about it         *)
(* (control.rs, handle_request; infmonctl, ctl_error_to_exit_code).        *)
THEOREM IsRegistryCorrect == Spec => IsRegistry
BY RegistryInit, RegistryStep, Invariance, PTL DEF Spec, IsRegistry, Registry!Spec

-----------------------------------------------------------------------------
(* The list and the backend's rules, while nothing restarts.  The names    *)
(* that differ change only in ways their numbers can be compared.          *)
LEMMA Smaller ==
    ASSUME NEW A, NEW B, IsFiniteSet(A), B \subseteq A
    PROVE  Cardinality(B) \in Nat /\ Cardinality(B) <= Cardinality(A) /\ Cardinality(A) \in Nat
<1>1. IsFiniteSet(B) /\ Cardinality(B) <= Cardinality(A)
  BY FS_Subset
<1> QED
  BY <1>1, FS_CardinalityType

LEMMA OneMore ==
    ASSUME NEW A, NEW B, NEW x, IsFiniteSet(A), B \subseteq A \cup {x}
    PROVE  Cardinality(B) \in Nat /\ Cardinality(B) <= Cardinality(A) + 1 /\ Cardinality(A) \in Nat
<1>0. Cardinality(A) \in Nat
  BY FS_CardinalityType
<1>1. IsFiniteSet(A \cup {x}) /\ Cardinality(A \cup {x}) <= Cardinality(A) + 1 /\ Cardinality(A) \in Nat
  <2>1. /\ IsFiniteSet(A \cup {x})
        /\ Cardinality(A \cup {x}) = IF x \in A THEN Cardinality(A) ELSE Cardinality(A) + 1
    BY FS_AddElement
  <2> QED
    BY <1>0, <2>1
<1>2. Cardinality(B) \in Nat /\ Cardinality(B) <= Cardinality(A \cup {x}) /\ Cardinality(A \cup {x}) \in Nat
  BY <1>1, Smaller
<1> QED
  BY <1>1, <1>2

Missing == Unlisted \ InHand
Extra == Uninstalled \ InHand

LEMMA MissingFinite ==
    ASSUME List, Backend
    PROVE  /\ IsFiniteSet(Missing) /\ IsFiniteSet(Extra)
           /\ Cardinality(Missing) \in Nat /\ Cardinality(Extra) \in Nat
<1>1. IsFiniteSet(NamesOf(rules))
  BY NamesFinite DEF List
<1>2. IsFiniteSet(NamesOf(set.rules))
  BY NamesFinite DEF Backend
<1>3. Missing \subseteq NamesOf(set.rules) /\ Extra \subseteq NamesOf(rules)
  BY DEF Missing, Extra, Unlisted, Uninstalled
<1> QED
  BY <1>1, <1>2, <1>3, FS_Subset, FS_CardinalityType

(* What Follows says while nothing restarted.                              *)
Following ==
    /\ \A n \in NamesOf(rules) \ DOMAIN rule_id_map :
         n \in NamesOf(Configured) /\ n \notin NamesOf(set.rules)
    /\ server = "called" /\ backend_id # 0 =>
         (request.op = "add" <=> request.rule.name \in NamesOf(set.rules))
    /\ Cardinality(Missing) + Cardinality(Extra) <= lost

(* No more is missing, no more is extra, and no fewer replies were lost.   *)
LEMMA NoWorse ==
    ASSUME List, Backend, Following, lost' = lost,
           Missing' \subseteq Missing, Extra' \subseteq Extra
    PROVE  Cardinality(Missing') + Cardinality(Extra') <= lost'
<1>1. IsFiniteSet(Missing) /\ IsFiniteSet(Extra) /\ lost \in Nat
  BY MissingFinite DEF Backend
<1>2. Cardinality(Missing) + Cardinality(Extra) <= lost
  BY DEF Following
<1>3. /\ Cardinality(Missing') \in Nat /\ Cardinality(Missing') <= Cardinality(Missing)
      /\ Cardinality(Missing) \in Nat
  BY <1>1, Smaller
<1>4. /\ Cardinality(Extra') \in Nat /\ Cardinality(Extra') <= Cardinality(Extra)
      /\ Cardinality(Extra) \in Nat
  BY <1>1, Smaller
<1> QED
  BY <1>1, <1>2, <1>3, <1>4

(* A lost reply makes one name differ.                                     *)
LEMMA OneWorse ==
    ASSUME List, Backend, Following, lost' = lost + 1, NEW x,
           \/ Missing' \subseteq Missing \cup {x} /\ Extra' \subseteq Extra
           \/ Missing' \subseteq Missing /\ Extra' \subseteq Extra \cup {x}
    PROVE  Cardinality(Missing') + Cardinality(Extra') <= lost'
<1>1. IsFiniteSet(Missing) /\ IsFiniteSet(Extra) /\ lost \in Nat
  BY MissingFinite DEF Backend
<1>2. Cardinality(Missing) + Cardinality(Extra) <= lost
  BY DEF Following
<1>3. CASE Missing' \subseteq Missing \cup {x} /\ Extra' \subseteq Extra
  <2>1. /\ Cardinality(Missing') \in Nat /\ Cardinality(Missing') <= Cardinality(Missing) + 1
        /\ Cardinality(Missing) \in Nat
    BY <1>1, <1>3, OneMore
  <2>2. /\ Cardinality(Extra') \in Nat /\ Cardinality(Extra') <= Cardinality(Extra)
        /\ Cardinality(Extra) \in Nat
    BY <1>1, <1>3, Smaller
  <2> QED
    BY <1>1, <1>2, <2>1, <2>2
<1>4. CASE Missing' \subseteq Missing /\ Extra' \subseteq Extra \cup {x}
  <2>1. /\ Cardinality(Missing') \in Nat /\ Cardinality(Missing') <= Cardinality(Missing)
        /\ Cardinality(Missing) \in Nat
    BY <1>1, <1>4, Smaller
  <2>2. /\ Cardinality(Extra') \in Nat /\ Cardinality(Extra') <= Cardinality(Extra) + 1
        /\ Cardinality(Extra) \in Nat
    BY <1>1, <1>4, OneMore
  <2> QED
    BY <1>1, <1>2, <2>1, <2>2
<1> QED
  BY <1>3, <1>4

LEMMA QuietFollows ==
    ASSUME CtlInv, Following, Quiet,
           \/ UNCHANGED <<server, request, backend_id>>
           \/ (server # "called" \/ backend_id = 0) /\ server' # "called"
    PROVE  Following'
<1>1. /\ rules' = rules /\ rule_id_map' = rule_id_map /\ set' = set /\ lost' = lost
  BY DEF Quiet
<1>2. InHand' = InHand
  BY DEF InHand
<1>3. Missing' = Missing /\ Extra' = Extra
  BY <1>1, <1>2 DEF Missing, Extra, Unlisted, Uninstalled
<1>4. Cardinality(Missing') + Cardinality(Extra') <= lost'
  BY <1>1, <1>3, NoWorse DEF CtlInv
<1> QED
  BY <1>1, <1>4 DEF Following

LEMMA LocalFollows ==
    ASSUME CtlInv, Following, vapi = "connected", Local
    PROVE  Following'
<1> DEFINE name == request.rule.name
<1>1. /\ server = "handle" /\ server' = "accept" /\ set' = set /\ lost' = lost
      /\ request.op = "rm" /\ Listed(name) /\ Forget(name) /\ name \notin DOMAIN rule_id_map
  BY DEF Local, Forwarded, Respond, backendvars
<1>2. /\ NamesOf(rules') = NamesOf(rules) \ {name}
      /\ DOMAIN rule_id_map' = DOMAIN rule_id_map \ {name}
  BY <1>1, ForgetFacts DEF CtlInv
<1>3. name \notin NamesOf(set.rules)
  BY <1>1 DEF Following, Listed
<1>4. InHand = {} /\ InHand' = {}
  BY <1>1 DEF InHand
<1>5. Missing' \subseteq Missing /\ Extra' \subseteq Extra
  BY <1>1, <1>2, <1>3, <1>4 DEF Missing, Extra, Unlisted, Uninstalled
<1>6. Cardinality(Missing') + Cardinality(Extra') <= lost'
  BY <1>1, <1>5, NoWorse DEF CtlInv
<1> QED
  BY <1>1, <1>2, <1>6 DEF Following

LEMMA CallFollows ==
    ASSUME CtlInv, Following, Call
    PROVE  Following'
<1> DEFINE name == request.rule.name
<1>1. /\ request.rule \in Rules /\ request' = request
      /\ server' = "called" /\ rules' = rules /\ rule_id_map' = rule_id_map
      /\ request.op \in {"add", "rm"}
      /\ request.op = "add" => ~Listed(name)
      /\ request.op = "rm" => name \in DOMAIN rule_id_map /\ Listed(name)
      /\ server = "handle"
  BY CallFacts DEF Call
<1>2. RulesInv /\ List /\ Backend /\ issued \in Nat /\ lost \in Nat
  BY DEF CtlInv, RulesInv, Backend
<1>3. InHand = {} /\ InHand' = IF backend_id' # 0 THEN {name} ELSE {}
  BY <1>1 DEF InHand
<1>4. CASE Refused
  <2>1. set' = set /\ lost' = lost /\ backend_id' = 0
    BY <1>4 DEF Refused, backendvars
  <2>2. Missing' = Missing /\ Extra' = Extra
    BY <1>1, <1>3, <2>1 DEF Missing, Extra, Unlisted, Uninstalled
  <2>3. Cardinality(Missing') + Cardinality(Extra') <= lost'
    BY <1>2, <2>1, <2>2, NoWorse
  <2> QED
    BY <1>1, <2>1, <2>3 DEF Following
<1>5. CASE ~Refused /\ request.op = "add"
  <2>1. /\ Installed
        /\ \/ lost' = lost /\ backend_id' = issued + 1
           \/ lost' = lost + 1 /\ backend_id' = 0
    BY <1>5 DEF Call
  <2>2. /\ NamesOf(set'.rules) = NamesOf(set.rules) \cup {name} /\ name \notin NamesOf(set.rules)
    BY <1>1, <1>2, <2>1, InstalledFacts
  <2>3. name \notin NamesOf(rules)
    BY <1>1, <1>5 DEF Listed
  <2>4. Cardinality(Missing') + Cardinality(Extra') <= lost'
    <3>1. CASE lost' = lost /\ backend_id' = issued + 1
      <4>1. InHand' = {name}
        BY <1>2, <1>3, <3>1
      <4>2. Missing' \subseteq Missing /\ Extra' \subseteq Extra
        BY <1>1, <1>3, <2>2, <2>3, <4>1 DEF Missing, Extra, Unlisted, Uninstalled
      <4> QED
        BY <1>2, <3>1, <4>2, NoWorse
    <3>2. CASE lost' = lost + 1 /\ backend_id' = 0
      <4>1. InHand' = {}
        BY <1>3, <3>2
      <4>2. Missing' \subseteq Missing \cup {name} /\ Extra' \subseteq Extra
        BY <1>1, <1>3, <2>2, <2>3, <4>1 DEF Missing, Extra, Unlisted, Uninstalled
      <4> QED
        BY <1>2, <3>2, <4>2, OneWorse
    <3> QED
      BY <2>1, <3>1, <3>2
  <2>6. \A n \in NamesOf(rules) \ DOMAIN rule_id_map :
           n \in NamesOf(Configured) /\ n \notin NamesOf(set'.rules)
    BY <2>2, <2>3 DEF Following
  <2> QED
    BY <1>1, <1>5, <2>1, <2>2, <2>4, <2>6 DEF Following
<1>6. CASE ~Refused /\ request.op # "add"
  <2>1. request.op = "rm" /\ name \in DOMAIN rule_id_map /\ name \in NamesOf(rules)
    BY <1>1, <1>6 DEF Listed
  <2>2. /\ Removed
        /\ \/ lost' = lost /\ backend_id' = rule_id_map[name]
           \/ lost' = lost + 1 /\ backend_id' = 0
    BY <1>6 DEF Call
  <2>3. NamesOf(set'.rules) = NamesOf(set.rules) \ {name}
    BY <1>2, <2>1, <2>2, RemovedFacts
  <2>4. Cardinality(Missing') + Cardinality(Extra') <= lost'
    <3>1. CASE lost' = lost /\ backend_id' = rule_id_map[name]
      <4>1. InHand' = {name}
        <5>1. backend_id' \in 1..issued
          BY <2>1, <3>1 DEF CtlInv, List
        <5> QED
          BY <1>3, <5>1
      <4>2. Missing' \subseteq Missing /\ Extra' \subseteq Extra
        BY <1>1, <1>3, <2>1, <2>3, <4>1 DEF Missing, Extra, Unlisted, Uninstalled
      <4> QED
        BY <1>2, <3>1, <4>2, NoWorse
    <3>2. CASE lost' = lost + 1 /\ backend_id' = 0
      <4>1. InHand' = {}
        BY <1>3, <3>2
      <4>2. Missing' \subseteq Missing /\ Extra' \subseteq Extra \cup {name}
        BY <1>1, <1>3, <2>1, <2>3, <4>1 DEF Missing, Extra, Unlisted, Uninstalled
      <4> QED
        BY <1>2, <3>2, <4>2, OneWorse
    <3> QED
      BY <2>2, <3>1, <3>2
  <2>6. \A n \in NamesOf(rules) \ DOMAIN rule_id_map :
           n \in NamesOf(Configured) /\ n \notin NamesOf(set'.rules)
    BY <2>3 DEF Following
  <2> QED
    BY <1>1, <2>1, <2>2, <2>3, <2>4, <2>6 DEF Following
<1> QED
  BY <1>4, <1>5, <1>6

LEMMA FinishFollows ==
    ASSUME CtlInv, Following, Finish
    PROVE  Following'
<1> DEFINE name == request.rule.name
<1>1. /\ server = "called" /\ server' = "accept" /\ set' = set /\ lost' = lost
      /\ request.op \in {"add", "rm"} /\ request.rule \in Rules
  BY CommandType DEF Finish, Commit, Respond, backendvars, CtlInv, Answered, Stage
<1>2. List /\ Backend
  BY DEF CtlInv
<1>3. CASE backend_id = 0
  <2>1. Quiet
    BY <1>1, <1>3 DEF Finish, Commit, Quiet, backendvars
  <2> QED
    BY <1>1, <1>3, <2>1, QuietFollows
<1> SUFFICES ASSUME backend_id # 0 PROVE Following'
  BY <1>3
<1>4. InHand = {name} /\ InHand' = {}
  BY <1>1 DEF InHand
<1>5. CASE request.op = "add"
  <2>1. /\ rules' = Append(rules, request.rule)
        /\ DOMAIN rule_id_map' = DOMAIN rule_id_map \cup {name}
    <3>1. request.op # "rm"
      BY <1>5
    <3> QED
      BY <3>1 DEF Finish, Commit
  <2>2. ~Listed(name) /\ name \in NamesOf(set.rules)
    BY <1>1, <1>5 DEF CtlInv, Answered, Following
  <2>3. NamesOf(rules') = NamesOf(rules) \cup {name}
    BY <1>1, <1>2, <2>1, <2>2, ListMore
  <2>4. Missing' \subseteq Missing /\ Extra' \subseteq Extra
    BY <1>1, <1>4, <2>2, <2>3 DEF Missing, Extra, Unlisted, Uninstalled
  <2>5. Cardinality(Missing') + Cardinality(Extra') <= lost'
    BY <1>1, <1>2, <2>4, NoWorse
  <2> QED
    BY <1>1, <2>1, <2>3, <2>5 DEF Following
<1>6. CASE request.op = "rm"
  <2>1. Forget(name)
    <3>1. request.op # "add"
      BY <1>6
    <3> QED
      BY <3>1 DEF Finish, Commit
  <2>2. /\ NamesOf(rules') = NamesOf(rules) \ {name}
        /\ DOMAIN rule_id_map' = DOMAIN rule_id_map \ {name}
    BY <1>2, <2>1, ForgetFacts
  <2>3. name \notin NamesOf(set.rules)
    <3>1. request.op # "add"
      BY <1>6
    <3> QED
      BY <1>1, <3>1 DEF Following
  <2>4. Missing' \subseteq Missing /\ Extra' \subseteq Extra
    BY <1>1, <1>4, <2>2, <2>3 DEF Missing, Extra, Unlisted, Uninstalled
  <2>5. Cardinality(Missing') + Cardinality(Extra') <= lost'
    BY <1>1, <1>2, <2>4, NoWorse
  <2> QED
    BY <1>1, <2>2, <2>5 DEF Following
<1> QED
  BY <1>1, <1>5, <1>6

LEMMA FollowsInit == Init => Follows
<1> SUFFICES ASSUME Init PROVE Follows
  OBVIOUS
<1>1. rules = Configured /\ set.rules = << >> /\ server = "accept" /\ lost = 0
  BY DEF Init, EmptyRuleSet
<1>2. NamesOf(set.rules) = {}
  BY <1>1 DEF NamesOf
<1>3. Unlisted \ InHand = {} /\ Uninstalled \ InHand = {}
  BY <1>1, <1>2 DEF Unlisted, Uninstalled
<1>4. Cardinality(Unlisted \ InHand) = 0 /\ Cardinality(Uninstalled \ InHand) = 0
  BY <1>3, FS_EmptySet
<1>5. \A n \in NamesOf(rules) : n \in NamesOf(Configured) /\ n \notin NamesOf(set.rules)
  BY <1>1, <1>2
<1>6. Cardinality(Unlisted \ InHand) + Cardinality(Uninstalled \ InHand) <= lost
  BY <1>1, <1>4
<1> QED
  BY <1>1, <1>5, <1>6 DEF Follows

LEMMA FollowsStep == CtlInv /\ Follows /\ [Next]_vars => Follows'
<1> SUFFICES ASSUME CtlInv, Follows, [Next]_vars PROVE Follows'
  OBVIOUS
<1>0. restarts \in Nat
  BY DEF CtlInv, Backend
<1> DEFINE Up == restarts' = 0 => server' # "down"
           Kept0 == restarts' = restarts /\ vapi' = vapi
<1>1. ASSUME Following', Up PROVE Follows'
  BY <1>1 DEF Follows, Following, Missing, Extra
<1>2. ASSUME Steady PROVE Following
  BY <1>2 DEF Follows, Following, Missing, Extra
<1>3. ASSUME Kept0, Up, Following => Following' PROVE Follows'
  <2>1. Steady' => Steady
    BY <1>3 DEF Steady
  <2> QED
    BY <1>2, <1>3, <2>1 DEF Follows, Following, Missing, Extra
<1>4. ASSUME NEW command \in Commands, Send(command) PROVE Follows'
  <2>1. Quiet /\ Kept0 /\ Up /\ UNCHANGED <<server, request, backend_id>>
    BY <1>4 DEF Send, Quiet, backendvars, servervars, Follows
  <2> HIDE DEF Up, Kept0
  <2> QED
    BY <1>3, <2>1, QuietFollows
<1>5. ASSUME NEW c \in Clients, GiveUp(c) PROVE Follows'
  <2>1. Quiet /\ Kept0 /\ Up /\ UNCHANGED <<server, request, backend_id>>
    BY <1>5 DEF GiveUp, Quiet, backendvars, servervars, Follows
  <2> HIDE DEF Up, Kept0
  <2> QED
    BY <1>3, <2>1, QuietFollows
<1>6. ASSUME Read \/ Refuse \/ Show PROVE Follows'
  <2>1. Quiet /\ Kept0 /\ Up /\ server # "called" /\ server' # "called"
    <3>1. CASE Read
      BY <3>1 DEF Read, Quiet, backendvars
    <3>2. CASE Refuse
      BY <3>2 DEF Refuse, Respond, Quiet, backendvars
    <3>3. CASE Show
      BY <3>3 DEF Show, Respond, Quiet, backendvars
    <3> QED
      BY <1>6, <3>1, <3>2, <3>3
  <2> HIDE DEF Up, Kept0
  <2> QED
    BY <1>3, <2>1, QuietFollows
<1>7. ASSUME Local PROVE Follows'
  <2>1. Kept0 /\ Up
    BY <1>7 DEF Local, Respond
  <2>2. CASE vapi = "connected"
    <3>1. Following => Following'
      BY <1>7, <2>2, LocalFollows
    <3> QED
      BY <1>3, <2>1, <3>1
  <2>3. CASE vapi # "connected"
    BY <2>1, <2>3 DEF Follows, Steady
  <2> QED
    BY <2>2, <2>3
<1>8. ASSUME Call PROVE Follows'
  <2>1. Kept0 /\ Up
    BY <1>8 DEF Call
  <2>2. Following => Following'
    BY <1>8, CallFollows
  <2> QED
    BY <1>3, <2>1, <2>2
<1>9. ASSUME Finish PROVE Follows'
  <2>1. Kept0 /\ Up
    BY <1>9 DEF Finish, Commit, Respond
  <2>2. Following => Following'
    BY <1>9, FinishFollows
  <2> QED
    BY <1>3, <2>1, <2>2
<1>10. ASSUME FrontendStops \/ VppRestarts PROVE Follows'
  <2>1. restarts' # 0
    BY <1>0, <1>10 DEF FrontendStops, VppRestarts
  <2> QED
    BY <2>1 DEF Follows, Steady
<1>11. ASSUME FrontendStarts PROVE Follows'
  <2>1. restarts' # 0
    BY <1>11 DEF FrontendStarts, Follows
  <2> QED
    BY <2>1 DEF Follows, Steady
<1>12. ASSUME UNCHANGED vars PROVE Follows'
  <2>1. Quiet /\ Kept0 /\ Up /\ UNCHANGED <<server, request, backend_id>>
    BY <1>12 DEF vars, Quiet, backendvars, servervars, Follows
  <2> HIDE DEF Up, Kept0
  <2> QED
    BY <1>3, <2>1, QuietFollows
<1> HIDE DEF Up, Kept0
<1> QED
  BY <1>4, <1>5, <1>6, <1>7, <1>8, <1>9, <1>10, <1>11, <1>12, Steps

(* Between requests, the frontend's list and the backend's rules differ by *)
(* at most one name per lost reply, as long as nothing restarted           *)
(* (handle_flow_rule_add and _rm, control.rs).                             *)
THEOREM ListFollowsBackendCorrect == Spec => []ListFollowsBackend
<1>1. CtlInv /\ Follows => ListFollowsBackend
  <2> SUFFICES ASSUME Follows, restarts = 0, vapi = "connected", server = "accept"
               PROVE  Cardinality(Unlisted) + Cardinality(Uninstalled) <= lost
    BY DEF ListFollowsBackend
  <2>1. InHand = {}
    BY DEF InHand
  <2>2. Unlisted \ InHand = Unlisted /\ Uninstalled \ InHand = Uninstalled
    BY <2>1
  <2> QED
    BY <2>2 DEF Follows, Steady
<1> QED
  BY <1>1, FollowsInit, FollowsStep, Invariance, PTL DEF Spec
=============================================================================
