-------------------------- MODULE AdminPagesProofs -------------------------
(***************************************************************************)
(* Proofs about AdminPages.tla, for any clients, topics, requests and      *)
(* rules, and any number of operations.                                    *)
(***************************************************************************)
EXTENDS AdminPages, SequenceTheorems, FiniteSetTheorems, WellFoundedInduction,
        TLAPS

----------------------------------------------------------------------------
(* The regex rules.                                                        *)

(* Ids are given out in order, and rules are known by them.                *)
RegexTyped ==
    /\ nextRule \in Nat \ {0}
    /\ DOMAIN rules \subseteq 1..(nextRule - 1)
    /\ DOMAIN intended \subseteq 1..(nextRule - 1)
    /\ clashed \subseteq 1..(nextRule - 1)
    /\ held = [p \in RegexProcs |-> held[p]]
    /\ \A p \in RegexProcs : held[p] # NoRule => held[p].id \in 1..(nextRule - 1)

(* What a reorder is about to put back is the rule as it is, moved.        *)
HeldFresh ==
    \A p \in RegexProcs :
        held[p] # NoRule /\ held[p].id \notin clashed =>
            /\ held[p].id \in DOMAIN rules
            /\ held[p].rule = [rules[held[p].id] EXCEPT !.order = @ + held[p].step]

RegexInv == RegexTyped /\ HeldFresh /\ RulesAsIntended

LEMMA RegexInitially == RegexInit => RegexInv
BY DEF RegexInit, RegexInv, RegexTyped, HeldFresh, RulesAsIntended

LEMMA CreateRule ==
    ASSUME RegexInv, NEW p \in RegexProcs, NEW o, NEW b, MQTTACLRegexCreate(p, o, b)
    PROVE  RegexInv'
<1> USE DEF RegexInv, MQTTACLRegexCreate
<1>1. RegexTyped'
  <2>1. /\ nextRule \in Nat \ {0}
        /\ nextRule' = nextRule + 1
        /\ 1..(nextRule' - 1) = 1..(nextRule - 1) \cup {nextRule}
    BY DEF RegexTyped
  <2>2. /\ DOMAIN rules' = DOMAIN rules \cup {nextRule}
        /\ DOMAIN intended' = DOMAIN intended \cup {nextRule}
    BY DEF PutRegexRuleAt
  <2>3. held' = held /\ clashed' = clashed /\ nextRule' \in Nat \ {0}
    BY <2>1
  <2>4. /\ DOMAIN rules' \subseteq 1..(nextRule' - 1)
        /\ DOMAIN intended' \subseteq 1..(nextRule' - 1)
        /\ clashed' \subseteq 1..(nextRule' - 1)
    BY <2>1, <2>2, <2>3, Zenon DEF RegexTyped
  <2>5. /\ held' = [q \in RegexProcs |-> held'[q]]
        /\ \A q \in RegexProcs : held'[q] # NoRule => held'[q].id \in 1..(nextRule' - 1)
    BY <2>1, <2>3, Zenon DEF RegexTyped
  <2> QED
    BY <2>3, <2>4, <2>5 DEF RegexTyped
<1>2. HeldFresh'
  <2> SUFFICES ASSUME NEW q \in RegexProcs, held[q] # NoRule, held[q].id \notin clashed
               PROVE  /\ held[q].id \in DOMAIN rules'
                      /\ rules'[held[q].id] = rules[held[q].id]
                      /\ held[q].rule = [rules[held[q].id] EXCEPT !.order = @ + held[q].step]
    BY DEF HeldFresh
  <2>1. /\ held[q].id \in DOMAIN rules
        /\ held[q].rule = [rules[held[q].id] EXCEPT !.order = @ + held[q].step]
    BY DEF HeldFresh
  <2>2. held[q].id # nextRule
    BY DEF RegexTyped
  <2> QED
    BY <2>1, <2>2 DEF PutRegexRuleAt
<1>3. RulesAsIntended'
  BY DEF RegexTyped, RulesAsIntended, PutRegexRuleAt
<1> QED
  BY <1>1, <1>2, <1>3

LEMMA UpdateRule ==
    ASSUME RegexInv, NEW p \in RegexProcs, NEW o, NEW b,
           NEW r \in DOMAIN intended \cup clashed, MQTTACLRegexUpdate(p, r, o, b)
    PROVE  RegexInv'
<1> USE DEF RegexInv, MQTTACLRegexUpdate
<1>1. RegexTyped'
  BY DEF RegexTyped, PutRegexRuleAt, Clashes
<1>2. HeldFresh'
  BY DEF RegexTyped, HeldFresh, PutRegexRuleAt, Clashes, Holds
<1>3. RulesAsIntended'
  BY DEF RegexTyped, RulesAsIntended, PutRegexRuleAt, Clashes
<1> QED
  BY <1>1, <1>2, <1>3

LEMMA DeleteRule ==
    ASSUME RegexInv, NEW p \in RegexProcs, NEW r, MQTTACLRegexDelete(p, r)
    PROVE  RegexInv'
<1> USE DEF RegexInv, MQTTACLRegexDelete
<1>1. RegexTyped'
  BY DEF RegexTyped, DeleteRegexRule, Clashes
<1>2. HeldFresh'
  BY DEF RegexTyped, HeldFresh, DeleteRegexRule, Clashes, Holds
<1>3. RulesAsIntended'
  BY DEF RegexTyped, RulesAsIntended, DeleteRegexRule, Clashes
<1> QED
  BY <1>1, <1>2, <1>3

LEMMA ReorderReads ==
    ASSUME RegexInv, NEW p \in RegexProcs, NEW r, NEW s, ReorderRead(p, r, s)
    PROVE  RegexInv'
<1> USE DEF RegexInv, ReorderRead
<1>1. RegexTyped'
  BY DEF RegexTyped
<1>2. HeldFresh'
  BY DEF RegexTyped, HeldFresh
<1>3. RulesAsIntended'
  BY DEF RulesAsIntended
<1> QED
  BY <1>1, <1>2, <1>3

LEMMA ReorderPuts ==
    ASSUME RegexInv, NEW p \in RegexProcs, ReorderPut(p)
    PROVE  RegexInv'
<1> DEFINE h == held[p]
<1>0. /\ h # NoRule /\ h.id \in 1..(nextRule - 1)
      /\ rules' = PutRegexRuleAt(rules, h.id, h.rule)
      /\ intended' = IF h.id \in DOMAIN intended
                     THEN [intended EXCEPT ![h.id].order = @ + h.step]
                     ELSE intended
      /\ Clashes(p, h.id)
      /\ held' = [held EXCEPT ![p] = NoRule]
      /\ UNCHANGED nextRule
  BY DEF RegexInv, RegexTyped, ReorderPut
<1>1. RegexTyped'
  BY <1>0 DEF RegexInv, RegexTyped, PutRegexRuleAt, Clashes
<1>2. HeldFresh'
  BY <1>0 DEF RegexInv, RegexTyped, HeldFresh, PutRegexRuleAt, Clashes, Holds
<1>3. ASSUME NEW r \in 1..(nextRule - 1), r \notin clashed'
      PROVE  /\ r \in DOMAIN rules' <=> r \in DOMAIN intended'
             /\ r \in DOMAIN rules' => rules'[r] = intended'[r]
  <2>1. /\ r \notin clashed
        /\ r \in DOMAIN rules <=> r \in DOMAIN intended
        /\ r \in DOMAIN rules => rules[r] = intended[r]
    BY <1>0, <1>3 DEF RegexInv, RulesAsIntended, Clashes
  <2>2. CASE r = h.id
    <3>1. /\ r \in DOMAIN rules
          /\ h.rule = [rules[r] EXCEPT !.order = @ + h.step]
      BY <1>0, <2>1, <2>2 DEF RegexInv, HeldFresh
    <3>2. r \in DOMAIN intended /\ rules[r] = intended[r]
      BY <2>1, <3>1
    <3>3. r \in DOMAIN rules' /\ rules'[r] = h.rule
      BY <1>0, <2>2 DEF PutRegexRuleAt
    <3>4. intended' = [intended EXCEPT ![r] = [intended[r] EXCEPT !.order = @ + h.step]]
      BY <1>0, <2>2, <3>2
    <3>5. r \in DOMAIN intended'
          /\ intended'[r] = [intended[r] EXCEPT !.order = @ + h.step]
      BY <3>2, <3>4
    <3> QED
      BY <3>1, <3>2, <3>3, <3>5
  <2>3. CASE r # h.id
    <3>1. (r \in DOMAIN rules' <=> r \in DOMAIN rules)
          /\ (r \in DOMAIN rules => rules'[r] = rules[r])
      BY <1>0, <2>3 DEF PutRegexRuleAt
    <3>2. (r \in DOMAIN intended' <=> r \in DOMAIN intended)
          /\ (r \in DOMAIN intended => intended'[r] = intended[r])
      BY <1>0, <2>3
    <3> QED
      BY <2>1, <3>1, <3>2
  <2> QED
    BY <2>2, <2>3
<1>4. RulesAsIntended'
  BY <1>0, <1>3 DEF RulesAsIntended
<1> QED
  BY <1>1, <1>2, <1>4 DEF RegexInv

LEMMA ReorderStops ==
    ASSUME RegexInv, NEW p \in RegexProcs, ReorderGivesUp(p)
    PROVE  RegexInv'
BY DEF RegexInv, RegexTyped, HeldFresh, RulesAsIntended, ReorderGivesUp

(* Every handler of the page and every step of a reorder keep it.          *)
LEMMA RegexKept == RegexInv /\ [Next]_allVars => RegexInv'
<1> SUFFICES ASSUME RegexInv, [Next]_allVars PROVE RegexInv'
  OBVIOUS
<1>1. CASE RegexNext
  BY <1>1, CreateRule, UpdateRule, DeleteRule, ReorderReads, ReorderPuts, ReorderStops
  DEF RegexNext, RegexRequest, RegexStep
<1>2. CASE UNCHANGED regexVars
  BY <1>2 DEF regexVars, RegexInv, RegexTyped, HeldFresh, RulesAsIntended
<1> QED
  BY <1>1, <1>2 DEF Next, BrokerNext, SamplerNext, allVars

(* The two calls of a reorder look like one, except to those who wrote the *)
(* same rule in between.                                                   *)
THEOREM RegexRulesAsIntended == Spec => []RulesAsIntended
<1>1. Init => RegexInv
  BY RegexInitially DEF Init
<1>2. RegexInv => RulesAsIntended
  BY DEF RegexInv
<1> QED
  BY <1>1, <1>2, RegexKept, PTL DEF Spec

----------------------------------------------------------------------------
(* The sampler.  Induction over the naturals is used through least         *)
(* counterexamples.                                                        *)

(* A set of naturals that is not empty has a least element.                *)
LEMMA LeastNat ==
    ASSUME NEW T \in SUBSET Nat, T # {}
    PROVE  \E x \in T : \A y \in T : x <= y
<1> DEFINE R == OpToRel(<, Nat)
<1>1. IsWellFoundedOn(R, Nat)
  BY NatLessThanWellFounded
<1>2. ASSUME NEW x \in Nat, NEW y \in Nat, y < x
      PROVE  <<y, x>> \in R
  BY <1>2 DEF OpToRel
<1> HIDE DEF R
<1>3. PICK x \in T : \A y \in T : ~ (<<y, x>> \in R)
  BY <1>1, WFMin
<1>4. ASSUME NEW y \in T PROVE x <= y
  <2>1. x \in Nat /\ y \in Nat /\ ~ (y < x)
    BY <1>2, <1>3
  <2> QED
    BY <2>1
<1> QED
  BY <1>4

(* Induction up to n, for a property given by the set of those who have it.*)
LEMMA UpTo ==
    ASSUME NEW n \in Nat, NEW S, 0 \in S,
           \A k \in 1..n : k - 1 \in S => k \in S
    PROVE  0..n \subseteq S
<1> DEFINE T == {k \in 0..n : k \notin S}
<1> SUFFICES ASSUME T # {} PROVE FALSE
  OBVIOUS
<1>1. PICK x \in T : \A y \in T : x <= y
  <2>1. T \in SUBSET Nat
    OBVIOUS
  <2> HIDE DEF T
  <2> QED
    BY <2>1, LeastNat
<1>2. x \in 1..n /\ x - 1 \in 0..n /\ ~ (x <= x - 1)
  BY <1>1
<1> QED
  BY <1>1, <1>2

(* The sums that Total is the last of.                                     *)
Sums(h, n, f) == f = [k \in 0..n |-> IF k = 0 THEN 0 ELSE f[k - 1] + h[k]]

LEMMA SumsTyped ==
    ASSUME NEW h \in Seq(Nat), NEW n \in 0..Len(h), NEW f, Sums(h, n, f)
    PROVE  f \in [0..n -> Nat]
<1> DEFINE S == {k \in 0..n : f[k] \in Nat}
<1>1. 0 \in S
  BY DEF Sums
<1>2. ASSUME NEW k \in 1..n, k - 1 \in S PROVE k \in S
  <2>1. k \in 0..n /\ k # 0 /\ k \in 1..Len(h)
    OBVIOUS
  <2>2. f[k] = f[k - 1] + h[k]
    BY <2>1 DEF Sums
  <2>3. f[k - 1] \in Nat /\ h[k] \in Nat
    BY <1>2, <2>1
  <2> QED
    BY <2>1, <2>2, <2>3
<1>3. 0..n \subseteq S
  <2>1. n \in Nat
    OBVIOUS
  <2> HIDE DEF S
  <2> QED
    BY <1>1, <1>2, <2>1, UpTo
<1>4. f = [k \in 0..n |-> f[k]]
  BY DEF Sums
<1> QED
  BY <1>3, <1>4

LEMMA SumsExist ==
    ASSUME NEW h \in Seq(Nat)
    PROVE  \E f : Sums(h, Len(h), f)
<1> DEFINE S == {k \in 0..Len(h) : \E f : Sums(h, k, f)}
<1>1. 0 \in S
  <2> DEFINE f == [k \in 0..0 |-> 0]
  <2>1. Sums(h, 0, f)
    BY DEF Sums
  <2> HIDE DEF f
  <2> QED
    BY <2>1
<1>2. ASSUME NEW k \in 1..Len(h), k - 1 \in S PROVE k \in S
  <2>1. PICK f : Sums(h, k - 1, f)
    BY <1>2
  <2> DEFINE g == [j \in 0..k |-> IF j = k THEN f[k - 1] + h[k] ELSE f[j]]
  <2>2. ASSUME NEW j \in 0..k PROVE g[j] = IF j = 0 THEN 0 ELSE g[j - 1] + h[j]
    <3>1. CASE j = k
      BY <3>1
    <3>2. CASE j # k
      <4>1. j \in 0..(k - 1)
        BY <3>2
      <4>2. f[j] = IF j = 0 THEN 0 ELSE f[j - 1] + h[j]
        BY <2>1, <4>1 DEF Sums
      <4> QED
        BY <3>2, <4>1, <4>2
    <3> QED
      BY <3>1, <3>2
  <2>3. g = [j \in 0..k |-> g[j]]
    OBVIOUS
  <2> HIDE DEF g
  <2>4. Sums(h, k, g)
    BY <2>2, <2>3 DEF Sums
  <2> QED
    BY <2>4
<1>3. Len(h) \in Nat /\ Len(h) \in 0..Len(h)
  OBVIOUS
<1>4. 0..Len(h) \subseteq S
  <2> HIDE DEF S
  <2> QED
    BY <1>1, <1>2, <1>3, UpTo
<1>5. Len(h) \in S
  <2> HIDE DEF S
  <2> QED
    BY <1>3, <1>4
<1> QED
  BY <1>5

LEMMA TotalIsSum ==
    ASSUME NEW h \in Seq(Nat)
    PROVE  \E f \in [0..Len(h) -> Nat] :
              /\ Total(h) = f[Len(h)] /\ f[0] = 0
              /\ \A k \in 1..Len(h) : f[k] = f[k - 1] + h[k]
<1> DEFINE f == CHOOSE f : Sums(h, Len(h), f)
<1>1. Sums(h, Len(h), f)
  BY SumsExist
<1>2. Total(h) = f[Len(h)]
  BY DEF Total, Sums
<1> HIDE DEF f
<1>3. f \in [0..Len(h) -> Nat]
  BY <1>1, SumsTyped
<1>4. f[0] = 0 /\ \A k \in 1..Len(h) : f[k] = f[k - 1] + h[k]
  BY <1>1 DEF Sums
<1> QED
  BY <1>2, <1>3, <1>4

(* Two functions that take the same steps rise by the same.                *)
LEMMA SameSteps ==
    ASSUME NEW n \in Nat, NEW f \in [0..n -> Nat], NEW g \in [0..n -> Nat],
           \A k \in 1..n : f[k] + g[k - 1] = g[k] + f[k - 1]
    PROVE  f[n] + g[0] = g[n] + f[0]
<1> DEFINE S == {k \in 0..n : f[k] + g[0] = g[k] + f[0]}
<1>1. 0 \in S
  OBVIOUS
<1>2. ASSUME NEW k \in 1..n, k - 1 \in S PROVE k \in S
  <2>1. k \in 0..n /\ k - 1 \in 0..n /\ 0 \in 0..n
    OBVIOUS
  <2> DEFINE a == f[k]
             b == g[k]
             c == f[k - 1]
             d == g[k - 1]
             x == f[0]
             y == g[0]
  <2>2. a + d = b + c /\ c + y = d + x
    BY <1>2
  <2>3. /\ a \in Nat /\ b \in Nat /\ c \in Nat /\ d \in Nat
        /\ x \in Nat /\ y \in Nat
    BY <2>1
  <2>4. a + y = b + x
    <3> HIDE DEF a, b, c, d, x, y
    <3> QED
      BY <2>2, <2>3
  <2> QED
    BY <2>1, <2>4
<1>3. 0..n \subseteq S
  <2> HIDE DEF S
  <2> QED
    BY <1>1, <1>2, UpTo
<1> QED
  BY <1>3

LEMMA TotalNone == Total(<<>>) = 0
<1>1. <<>> \in Seq(Nat) /\ Len(<<>>) = 0
  OBVIOUS
<1> QED
  BY <1>1, TotalIsSum

LEMMA TotalNat == ASSUME NEW h \in Seq(Nat) PROVE Total(h) \in Nat
<1>1. Len(h) \in 0..Len(h)
  OBVIOUS
<1> QED
  BY <1>1, TotalIsSum

LEMMA TotalAppend ==
    ASSUME NEW h \in Seq(Nat), NEW v \in Nat
    PROVE  Total(Append(h, v)) = Total(h) + v
<1> DEFINE n == Len(h)
           H == Append(h, v)
<1>1. /\ H \in Seq(Nat) /\ Len(H) = n + 1 /\ n \in Nat
      /\ \A k \in 1..n : H[k] = h[k]
      /\ H[n + 1] = v
  OBVIOUS
<1> HIDE DEF H
<1>2. PICK f \in [0..n -> Nat] :
        /\ Total(h) = f[n] /\ f[0] = 0
        /\ \A k \in 1..n : f[k] = f[k - 1] + h[k]
  BY TotalIsSum
<1>3. PICK G \in [0..(n + 1) -> Nat] :
        /\ Total(H) = G[n + 1] /\ G[0] = 0
        /\ \A k \in 1..(n + 1) : G[k] = G[k - 1] + H[k]
  <2>1. \E f1 \in [0..Len(H) -> Nat] :
              /\ Total(H) = f1[Len(H)] /\ f1[0] = 0
              /\ \A k \in 1..Len(H) : f1[k] = f1[k - 1] + H[k]
    BY <1>1, TotalIsSum
  <2> QED
    BY <1>1, <2>1
<1> DEFINE g == [k \in 0..n |-> G[k]]
<1>4. g \in [0..n -> Nat] /\ g[0] = 0 /\ g[n] = G[n]
  BY <1>1, <1>3
<1>5. ASSUME NEW k \in 1..n PROVE f[k] + g[k - 1] = g[k] + f[k - 1]
  <2>1. k \in 0..n /\ k - 1 \in 0..n /\ k \in 1..(n + 1)
    BY <1>1
  <2>2. g[k] = g[k - 1] + h[k] /\ f[k] = f[k - 1] + h[k]
    BY <1>1, <1>2, <1>3, <2>1
  <2>3. g[k - 1] \in Nat /\ f[k - 1] \in Nat
    BY <1>2, <1>4, <2>1
  <2>4. h[k] \in Nat
    OBVIOUS
  <2> QED
    BY <2>2, <2>3, <2>4
<1> HIDE DEF g, n
<1>6. f[n] + g[0] = g[n] + f[0]
  BY <1>1, <1>2, <1>4, <1>5, SameSteps
<1>7. G[n + 1] = G[n] + v /\ n \in 0..n
  BY <1>1, <1>3
<1>8. f[n] \in Nat /\ g[n] \in Nat
  BY <1>1, <1>2, <1>4, <1>7
<1> QED
  BY <1>2, <1>3, <1>4, <1>6, <1>7, <1>8 DEF H

LEMMA TotalTail ==
    ASSUME NEW h \in Seq(Nat), h # <<>>
    PROVE  Total(h) = h[1] + Total(Tail(h))
<1> DEFINE n == Len(h) - 1
           T == Tail(h)
<1>1. /\ T \in Seq(Nat) /\ Len(T) = n /\ n \in Nat /\ Len(h) = n + 1
      /\ \A k \in 1..n : T[k] = h[k + 1]
      /\ h[1] \in Nat
  OBVIOUS
<1> HIDE DEF T, n
<1>2. PICK f \in [0..(n + 1) -> Nat] :
        /\ Total(h) = f[n + 1] /\ f[0] = 0
        /\ \A k \in 1..(n + 1) : f[k] = f[k - 1] + h[k]
  <2>1. \E f1 \in [0..Len(h) -> Nat] :
              /\ Total(h) = f1[Len(h)] /\ f1[0] = 0
              /\ \A k \in 1..Len(h) : f1[k] = f1[k - 1] + h[k]
    BY TotalIsSum
  <2> QED
    BY <1>1, <2>1
<1>3. PICK g \in [0..n -> Nat] :
        /\ Total(T) = g[n] /\ g[0] = 0
        /\ \A k \in 1..n : g[k] = g[k - 1] + T[k]
  <2>1. \E f1 \in [0..Len(T) -> Nat] :
              /\ Total(T) = f1[Len(T)] /\ f1[0] = 0
              /\ \A k \in 1..Len(T) : f1[k] = f1[k - 1] + T[k]
    BY <1>1, TotalIsSum
  <2> QED
    BY <1>1, <2>1
<1> DEFINE e == [k \in 0..n |-> f[k + 1]]
<1>4. e \in [0..n -> Nat] /\ e[0] = h[1] /\ e[n] = f[n + 1]
  <2>1. 1 \in 1..(n + 1) /\ 0 \in 0..n /\ n \in 0..n
    BY <1>1
  <2>2. f[1] = f[0] + h[1]
    BY <1>2, <2>1
  <2> QED
    BY <1>1, <1>2, <2>1, <2>2
<1>5. ASSUME NEW k \in 1..n PROVE e[k] + g[k - 1] = g[k] + e[k - 1]
  <2>1. k \in 0..n /\ k - 1 \in 0..n /\ k + 1 \in 1..(n + 1) /\ (k - 1) + 1 = k
        /\ (k + 1) - 1 = k
    BY <1>1
  <2>2. g[k] = g[k - 1] + h[k + 1] /\ f[k + 1] = f[k] + h[k + 1]
    BY <1>1, <1>2, <1>3, <2>1
  <2>3. e[k] = f[k + 1] /\ e[k - 1] = f[k]
    BY <2>1
  <2>4. g[k - 1] \in Nat
    BY <1>3, <2>1
  <2>5. f[k] \in Nat
    <3>1. k \in 0..(n + 1)
      BY <1>1
    <3> QED
      BY <1>2, <3>1
  <2>6. h[k + 1] \in Nat
    <3>1. k + 1 \in 1..Len(h)
      BY <1>1, <2>1
    <3> QED
      BY <3>1
  <2> QED
    BY <2>2, <2>3, <2>4, <2>5, <2>6
<1> HIDE DEF e
<1>6. e[n] + g[0] = g[n] + e[0]
  BY <1>1, <1>3, <1>4, <1>5, SameSteps
<1>7. n \in 0..n /\ e[n] \in Nat /\ g[n] \in Nat
  BY <1>1, <1>3, <1>4
<1> QED
  BY <1>1, <1>2, <1>3, <1>4, <1>6, <1>7 DEF T

(* What the sampler has seen is not ahead of the broker's counters, and    *)
(* while both last counters are zero nothing has been counted.             *)
SamplerInv ==
    /\ received \in Nat /\ sent \in Nat
    /\ lastIn \in Nat /\ lastOut \in Nat
    /\ rateIn \in Nat /\ skipped \in Nat /\ aged \in Nat
    /\ inHist \in Seq(Nat)
    /\ loaded = <<>> \/ \E n \in lastIn..received : loaded = <<n>>
    /\ lastIn <= received /\ lastOut <= sent
    /\ lastIn = 0 /\ lastOut = 0 => rateIn = 0 /\ skipped = 0
    /\ SamplesAddUp

LEMMA SamplerInitially == SamplerInit => SamplerInv
BY TotalNone DEF SamplerInit, SamplerInv, SamplesAddUp

LEMMA Sampled == SamplerInv /\ Sample => SamplerInv'
<1> SUFFICES ASSUME SamplerInv, Sample PROVE SamplerInv'
  OBVIOUS
<1>1. PICK n \in lastIn..received : loaded = <<n>>
  BY DEF SamplerInv, Sample
<1>2. /\ received \in Nat /\ sent \in Nat /\ lastIn \in Nat /\ lastOut \in Nat
      /\ rateIn \in Nat /\ skipped \in Nat /\ aged \in Nat /\ inHist \in Seq(Nat)
      /\ n \in Nat /\ lastIn <= n /\ n <= received /\ lastOut <= sent
      /\ lastIn = 0 /\ lastOut = 0 => rateIn = 0 /\ skipped = 0
      /\ lastIn = skipped + aged + Total(inHist)
  BY <1>1 DEF SamplerInv, SamplesAddUp
<1>3. /\ rateIn' = (IF lastIn = 0 /\ lastOut = 0 THEN rateIn ELSE n - lastIn)
      /\ lastIn' = n /\ lastOut' = sent /\ loaded' = <<>>
      /\ inHist' = Push(inHist, rateIn')
      /\ skipped' = (IF lastIn = 0 /\ lastOut = 0 THEN n ELSE skipped)
      /\ aged' = IF Len(inHist) >= HistLen THEN aged + inHist[1] ELSE aged
      /\ received' = received /\ sent' = sent
  BY <1>1 DEF Sample, SkipDelta
<1>4. rateIn' \in Nat /\ skipped' \in Nat
  BY <1>2, <1>3
<1>5. /\ inHist' \in Seq(Nat) /\ aged' \in Nat
      /\ aged' + Total(inHist') = aged + Total(inHist) + rateIn'
  <2>1. CASE Len(inHist) >= HistLen
    <3>1. inHist # <<>> /\ Tail(inHist) \in Seq(Nat) /\ inHist[1] \in Nat
      BY <1>2, <2>1, HistAssumption
    <3>2. inHist' = Append(Tail(inHist), rateIn') /\ aged' = aged + inHist[1]
      BY <1>3, <2>1 DEF Push
    <3>3. Total(inHist') = Total(Tail(inHist)) + rateIn'
      BY <1>4, <3>1, <3>2, TotalAppend
    <3>4. Total(inHist) = inHist[1] + Total(Tail(inHist))
      BY <1>2, <3>1, TotalTail
    <3>5. Total(Tail(inHist)) \in Nat
      BY <3>1, TotalNat
    <3>6. inHist' \in Seq(Nat)
      BY <1>4, <3>1, <3>2
    <3> HIDE DEF Total
    <3>7. aged' \in Nat
      BY <1>2, <3>1, <3>2
    <3>8. (aged + inHist[1]) + (Total(Tail(inHist)) + rateIn')
            = aged + (inHist[1] + Total(Tail(inHist))) + rateIn'
      BY <1>2, <1>4, <3>1, <3>5
    <3> QED
      BY <3>2, <3>3, <3>4, <3>6, <3>7, <3>8
  <2>2. CASE ~(Len(inHist) >= HistLen)
    <3>1. inHist' = Append(inHist, rateIn') /\ aged' = aged
      BY <1>3, <2>2 DEF Push
    <3>2. Total(inHist') = Total(inHist) + rateIn' /\ Total(inHist) \in Nat
      BY <1>2, <1>4, <3>1, TotalAppend, TotalNat
    <3>3. inHist' \in Seq(Nat)
      BY <1>2, <1>4, <3>1
    <3> QED
      BY <1>2, <1>4, <3>1, <3>2, <3>3
  <2> QED
    BY <2>1, <2>2
<1>6. Total(inHist) \in Nat /\ Total(inHist') \in Nat
  BY <1>2, <1>5, TotalNat
<1>7. SamplesAddUp'
  <2> DEFINE t == Total(inHist)
             u == Total(inHist')
  <2>1. t \in Nat /\ u \in Nat /\ aged' \in Nat /\ aged' + u = aged + t + rateIn'
        /\ lastIn = skipped + aged + t
    BY <1>2, <1>5, <1>6
  <2> HIDE DEF t, u
  <2>2. CASE lastIn = 0 /\ lastOut = 0
    <3>1. rateIn' = 0 /\ aged + t = 0 /\ skipped' = n /\ lastIn' = n
      BY <1>2, <1>3, <2>1, <2>2
    <3> QED
      BY <1>2, <2>1, <3>1 DEF u, SamplesAddUp, Total
  <2>3. CASE ~(lastIn = 0 /\ lastOut = 0)
    <3>1. rateIn' = n - lastIn /\ skipped' = skipped /\ lastIn' = n
      BY <1>3, <2>3
    <3> DEFINE a == aged'
    <3>2. a \in Nat /\ a + u = aged + t + (n - lastIn) /\ lastIn = skipped + aged + t
      BY <2>1, <3>1
    <3> HIDE DEF a
    <3>3. n = skipped + a + u
      BY <1>2, <2>1, <3>2
    <3> QED
      BY <3>1, <3>3 DEF a, u, SamplesAddUp, Total
  <2> QED
    BY <2>2, <2>3
<1>8. lastIn' = 0 /\ lastOut' = 0 => rateIn' = 0 /\ skipped' = 0
  BY <1>2, <1>3
<1> QED
  BY <1>2, <1>3, <1>4, <1>5, <1>7, <1>8 DEF SamplerInv

LEMMA Counted == SamplerInv /\ (MessageReceived \/ MessageSent \/ Tick) => SamplerInv'
<1> SUFFICES ASSUME SamplerInv, MessageReceived \/ MessageSent \/ Tick
             PROVE  SamplerInv'
  OBVIOUS
<1>1. /\ lastIn' = lastIn /\ lastOut' = lastOut /\ rateIn' = rateIn
      /\ skipped' = skipped /\ aged' = aged /\ inHist' = inHist
  BY DEF MessageReceived, MessageSent, Tick
<1>2. SamplesAddUp'
  BY <1>1 DEF SamplerInv, SamplesAddUp, Total
<1>3. /\ received' \in Nat /\ sent' \in Nat
      /\ received <= received' /\ sent <= sent'
      /\ loaded' = loaded \/ loaded' = <<received>>
  BY DEF SamplerInv, MessageReceived, MessageSent, Tick
<1>4. loaded' = <<>> \/ \E n \in lastIn'..received' : loaded' = <<n>>
  BY <1>1, <1>3 DEF SamplerInv
<1> QED
  BY <1>1, <1>2, <1>3, <1>4 DEF SamplerInv

LEMMA SamplerKept == SamplerInv /\ [Next]_allVars => SamplerInv'
<1>1. SamplerInv /\ UNCHANGED samplerVars => SamplerInv'
  BY DEF samplerVars, SamplerInv, SamplesAddUp, Total
<1> QED
  BY <1>1, Sampled, Counted DEF Next, BrokerNext, RegexNext, SamplerNext, allVars

(* Every message that the sampler has seen is in one sample, or was in one *)
(* that has been pushed out, or fell into the first busy tick.             *)
THEOREM EverySampleCounts == Spec => []SamplesAddUp
<1>1. Init => SamplerInv
  BY SamplerInitially DEF Init
<1>2. SamplerInv => SamplesAddUp
  BY DEF SamplerInv
<1> QED
  BY <1>1, <1>2, SamplerKept, PTL DEF Spec
----------------------------------------------------------------------------
(* The requests of the pages and the two records of a subscription.        *)

(* A write to a slot, or to one that is not there.                         *)
LEMMA SlotPut ==
    ASSUME NEW S, NEW s \in Seq(S), NEW k, NEW v, k \in 1..Len(s) => v \in S
    PROVE  /\ [s EXCEPT ![k] = v] \in Seq(S)
           /\ Len([s EXCEPT ![k] = v]) = Len(s)
<1>1. CASE k \in 1..Len(s)
  BY <1>1, ExceptSeq
<1>2. CASE k \notin 1..Len(s)
  <2>1. [s EXCEPT ![k] = v] = s
    BY <1>2
  <2> QED
    BY <2>1
<1> QED
  BY <1>1, <1>2

Steps == {"idle", "append", "storePtr", "storeLen", "lookup", "disconnect",
          "shift", "clear", "cut", "load", "scan", "admit", "kick", "retainedDel",
          "trieDel", "mapDel", "trieAdd", "mapAdd"}

OnPage(p) == Subscribing(p) \/ Unsubscribing(p)

(* Types; every request but the idle and those about a retained message is *)
(* about a client.                                                         *)
PageTyped ==
    /\ online \in [Ids -> Nat] /\ gens \in [Ids -> Nat]
    /\ at \in [Procs -> Steps]
    /\ id \in [Procs -> Ids \cup {NoId}]
    /\ cl \in [Procs -> Nat]
    /\ topic \in [Procs -> Topics \cup {Malformed}]
    /\ maps \in [Ids -> Seq(SUBSET Topics)]
    /\ retained \subseteq Topics
    /\ \A p \in Procs : at[p] \notin {"idle", "retainedDel"} => id[p] \in Ids

(* A client object per session, and the last one is the one online.  A     *)
(* client subscribes through its last object, once at a time.              *)
SessionsKept ==
    /\ \A i \in Ids : Len(maps[i]) = gens[i] /\ online[i] \in {0, gens[i]}
    /\ \A p \in Procs : Subscribing(p) =>
          /\ gens[id[p]] # 0 /\ cl[p] = gens[id[p]] /\ topic[p] \in Topics
          /\ \A q \in Procs \ {p} : Subscribing(q) => id[q] # id[p]

On(p, i, t) == id[p] = i /\ topic[p] = t

(* The subscription in the client object that counts.                      *)
InMap(i, t) == gens[i] # 0 /\ t \in maps[i][gens[i]]

(* One subscription: who is at work on it, and what the two records say.   *)
Agrees(i, t) ==
    /\ \A q \in Procs : Unsubscribing(q) /\ On(q, i, t) =>
          /\ gens[i] # 0 /\ cl[q] = gens[i]
          /\ \A s \in Procs : Subscribing(s) => ~On(s, i, t)
    /\ \A q \in Procs : at[q] = "mapDel" /\ On(q, i, t) => <<i, t>> \notin trie
    /\ \A q \in Procs : at[q] = "mapAdd" /\ On(q, i, t) => <<i, t>> \in trie
    /\ (\A q \in Procs : at[q] \in {"mapDel", "mapAdd"} => ~On(q, i, t)) =>
          (<<i, t>> \in trie <=> InMap(i, t))

PagesInv ==
    /\ PageTyped
    /\ SessionsKept
    /\ \A i \in Ids, t \in Topics : <<i, t>> \notin mixed => Agrees(i, t)

(* A step of p that has nothing to do with subscriptions.                  *)
Quiet(p) ==
    /\ \A q \in Procs \ {p} :
          at'[q] = at[q] /\ id'[q] = id[q] /\ cl'[q] = cl[q] /\ topic'[q] = topic[q]
    /\ ~OnPage(p) /\ ~OnPage(p)'
    /\ \A i \in Ids : online'[i] \in {0, online[i]}
    /\ UNCHANGED <<trie, maps, gens, mixed>>

LEMMA QuietKeeps ==
    ASSUME PagesInv, PageTyped', NEW p \in Procs, Quiet(p)
    PROVE  PagesInv'
<1>1. \A q \in Procs : /\ Subscribing(q)' <=> Subscribing(q)
                       /\ Unsubscribing(q)' <=> Unsubscribing(q)
                       /\ OnPage(q) => /\ at'[q] = at[q] /\ id'[q] = id[q]
                                       /\ cl'[q] = cl[q] /\ topic'[q] = topic[q]
  BY DEF Quiet, OnPage, Subscribing, Unsubscribing
<1>2. SessionsKept'
  <2>1. \A i \in Ids : Len(maps'[i]) = gens'[i] /\ online'[i] \in {0, gens'[i]}
    BY DEF PagesInv, SessionsKept, Quiet
  <2>2. ASSUME NEW q \in Procs, Subscribing(q)'
        PROVE  /\ gens'[id'[q]] # 0 /\ cl'[q] = gens'[id'[q]] /\ topic'[q] \in Topics
               /\ \A r \in Procs \ {q} : Subscribing(r)' => id'[r] # id'[q]
    BY <1>1, <2>2 DEF PagesInv, SessionsKept, Quiet, OnPage
  <2> QED
    BY <2>1, <2>2 DEF SessionsKept
<1>3. ASSUME NEW i \in Ids, NEW t \in Topics, <<i, t>> \notin mixed'
      PROVE  Agrees(i, t)'
  <2>1. Agrees(i, t)
    BY <1>3 DEF PagesInv, Quiet
  <2>2. \A q \in Procs : OnPage(q) => (On(q, i, t)' <=> On(q, i, t))
    BY <1>1 DEF On
  <2>3. \A q \in Procs : /\ (at[q] = "mapDel" <=> at'[q] = "mapDel")
                         /\ (at[q] = "mapAdd" <=> at'[q] = "mapAdd")
                         /\ at[q] \in {"mapDel", "mapAdd"} => OnPage(q)
    BY <1>1 DEF OnPage, Subscribing, Unsubscribing
  <2>4. InMap(i, t)' <=> InMap(i, t)
    BY DEF InMap, Quiet
  <2>5. UNCHANGED <<trie, gens>>
    BY DEF Quiet
  <2> QED
    BY <1>1, <2>1, <2>2, <2>3, <2>4, <2>5 DEF Agrees, OnPage
<1> QED
  BY <1>2, <1>3 DEF PagesInv

LEMMA EditQuiet ==
    ASSUME PagesInv, NEW p \in Procs, BlEdit(p), UNCHANGED pageVars
    PROVE  PageTyped' /\ Quiet(p)
<1> USE DEF PagesInv, PageTyped, Quiet, OnPage, Subscribing, Unsubscribing, pageVars,
            broker, history, slice, Go, Steps
<1>1. CASE Append1(p)
  BY <1>1 DEF Append1
<1>2. CASE StorePtr(p)
  BY <1>2 DEF StorePtr
<1>3. CASE StoreLen(p)
  BY <1>3 DEF StoreLen
<1>4. CASE AddLookup(p)
  BY <1>4 DEF AddLookup
<1>5. CASE AddDisconnect(p)
  BY <1>5 DEF AddDisconnect, DisconnectClient, End
<1>6. CASE Shift(p)
  BY <1>6 DEF Shift
<1>7. CASE ClearTail(p)
  BY <1>7 DEF ClearTail
<1>8. CASE Cut(p)
  BY <1>8 DEF Cut, End
<1>9. CASE LoadWord(p)
  BY <1>9 DEF LoadWord
<1>10. CASE Scan(p)
  <2>1. /\ at[p] = "scan"
        /\ UNCHANGED <<online, gens>>
        /\ \/ Go(p, "admit") /\ UNCHANGED <<id, cl>>
           \/ End(p)
           \/ UNCHANGED <<at, id, cl>>
    BY <1>10 DEF Scan
  <2>2. CASE End(p)
    <3>1. /\ at' = [at EXCEPT ![p] = "idle"] /\ id' = [id EXCEPT ![p] = NoId]
          /\ cl' = [cl EXCEPT ![p] = 0]
      BY <2>2 DEF End
    <3> QED
      BY <2>1, <3>1
  <2>3. CASE Go(p, "admit") /\ UNCHANGED <<id, cl>>
    BY <2>1, <2>3
  <2>4. CASE UNCHANGED <<at, id, cl>>
    BY <2>1, <2>4
  <2> QED
    BY <2>1, <2>2, <2>3, <2>4
<1> QED
  BY <1>1, <1>2, <1>3, <1>4, <1>5, <1>6, <1>7, <1>8, <1>9, <1>10 DEF BlEdit

LEMMA RequestQuiet ==
    ASSUME PagesInv, NEW p \in Procs, NEW i \in Ids, UNCHANGED pageVars,
           BlacklistAdd(p, i) \/ BlacklistRemove(p, i) \/ Connect(p, i)
    PROVE  PageTyped' /\ Quiet(p)
<1> USE DEF PagesInv, PageTyped, Quiet, OnPage, Subscribing, Unsubscribing, pageVars,
            broker, history, slice, Go, Steps, Enters
<1>1. CASE BlacklistAdd(p, i)
  BY <1>1 DEF BlacklistAdd
<1>2. CASE BlacklistRemove(p, i)
  BY <1>2 DEF BlacklistRemove
<1>3. CASE Connect(p, i)
  BY <1>3 DEF Connect
<1> QED
  BY <1>1, <1>2, <1>3

LEMMA PageQuiet ==
    ASSUME PagesInv, NEW p \in Procs,
           \/ \E i \in Ids : SessionsClear(p, i)
           \/ \E t \in Topics : RetainedClear(p, t)
           \/ Kick(p) \/ RetainedDelete(p)
           \/ \E t \in Topics, empty \in BOOLEAN : at[p] = "idle" /\ ToolsPublish(t, empty)
    PROVE  PageTyped' /\ Quiet(p)
<1> USE DEF PagesInv, PageTyped, Quiet, OnPage, Subscribing, Unsubscribing, Finish,
            broker, history, slice, Go, Steps, Begin, End, blVars
<1>1. CASE \E i \in Ids : SessionsClear(p, i)
  BY <1>1 DEF SessionsClear
<1>2. CASE \E t \in Topics : RetainedClear(p, t)
  BY <1>2 DEF RetainedClear
<1>3. CASE Kick(p)
  BY <1>3 DEF Kick, DisconnectClient
<1>4. CASE RetainedDelete(p)
  BY <1>4 DEF RetainedDelete
<1>5. CASE \E t \in Topics, empty \in BOOLEAN : at[p] = "idle" /\ ToolsPublish(t, empty)
  BY <1>5 DEF ToolsPublish
<1> QED
  BY <1>1, <1>2, <1>3, <1>4, <1>5

(* Begin, when the process starts to work on a subscription.               *)
LEMMA SubscribeBegins ==
    ASSUME PagesInv, NEW p \in Procs, NEW i \in Ids, NEW t \in Topics,
           ClientSubscribe(p, i, t)
    PROVE  PagesInv'
<1>1. /\ at[p] = "idle" /\ online[i] # 0 /\ ~SomeOn(Subscribing, i)
      /\ at' = [at EXCEPT ![p] = "trieAdd"]
      /\ id' = [id EXCEPT ![p] = i]
      /\ topic' = [topic EXCEPT ![p] = t]
      /\ cl' = [cl EXCEPT ![p] = online[i]]
      /\ mixed' = mixed \cup {x \in {<<i, t>>} :
                     \E q \in Procs : Unsubscribing(q) /\ <<id[q], topic[q]>> = x}
      /\ UNCHANGED <<online, gens, trie, maps, retained>>
  BY DEF ClientSubscribe, Begin, Go, broker
<1>2. PageTyped'
  BY <1>1 DEF PagesInv, PageTyped, Steps
<1>3. \A q \in Procs \ {p} :
          at'[q] = at[q] /\ id'[q] = id[q] /\ cl'[q] = cl[q] /\ topic'[q] = topic[q]
  BY <1>1 DEF PagesInv, PageTyped
<1>4. at'[p] = "trieAdd" /\ id'[p] = i /\ cl'[p] = online[i] /\ topic'[p] = t
  BY <1>1 DEF PagesInv, PageTyped
<1>5. online[i] = gens[i] /\ gens[i] # 0
  BY <1>1 DEF PagesInv, SessionsKept
<1>6. SessionsKept'
  <2>1. \A j \in Ids : Len(maps'[j]) = gens'[j] /\ online'[j] \in {0, gens'[j]}
    BY <1>1 DEF PagesInv, SessionsKept
  <2>2. \A q \in Procs \ {p} : Subscribing(q) => id[q] # i
    BY <1>1 DEF SomeOn
  <2>3. ASSUME NEW q \in Procs, Subscribing(q)'
        PROVE  /\ gens'[id'[q]] # 0 /\ cl'[q] = gens'[id'[q]] /\ topic'[q] \in Topics
               /\ \A r \in Procs \ {q} : Subscribing(r)' => id'[r] # id'[q]
    BY <1>1, <1>3, <1>4, <1>5, <2>2, <2>3 DEF PagesInv, SessionsKept, Subscribing
  <2> QED
    BY <2>1, <2>3 DEF SessionsKept
<1>7. ASSUME NEW j \in Ids, NEW u \in Topics, <<j, u>> \notin mixed'
      PROVE  Agrees(j, u)'
  <2>1. Agrees(j, u)
    BY <1>1, <1>7 DEF PagesInv
  <2>2. InMap(j, u)' <=> InMap(j, u)
    BY <1>1 DEF InMap
  <2>3. \A q \in Procs \ {p} : On(q, j, u)' <=> On(q, j, u)
    BY <1>3 DEF On
  <2>4. On(p, j, u)' => \A q \in Procs : Unsubscribing(q) => ~On(q, j, u)
    BY <1>1, <1>4, <1>7 DEF On
  <2>5. Subscribing(p)' /\ ~Unsubscribing(p)' /\ ~Unsubscribing(p) /\ ~Subscribing(p)
    BY <1>1, <1>4 DEF Subscribing, Unsubscribing
  <2>6. \A q \in Procs \ {p} : /\ Subscribing(q)' <=> Subscribing(q)
                               /\ Unsubscribing(q)' <=> Unsubscribing(q)
    BY <1>3 DEF Subscribing, Unsubscribing
  <2> QED
    BY <1>1, <1>3, <1>4, <2>1, <2>2, <2>3, <2>4, <2>5, <2>6 DEF Agrees
<1> QED
  BY <1>2, <1>6, <1>7 DEF PagesInv

LEMMA UnsubscribeBegins ==
    ASSUME PagesInv, NEW p \in Procs, NEW i \in Ids, NEW c, ClientUnsubscribe(p, i, c)
    PROVE  PagesInv'
<1> DEFINE t == PathTopic(c)
<1>1. /\ at[p] = "idle" /\ online[i] # 0 /\ t \in maps[i][online[i]]
      /\ at' = [at EXCEPT ![p] = "trieDel"]
      /\ id' = [id EXCEPT ![p] = i]
      /\ topic' = [topic EXCEPT ![p] = t]
      /\ cl' = [cl EXCEPT ![p] = online[i]]
      /\ mixed' = mixed \cup {x \in {<<i, t>>} :
                     \E q \in Procs : Subscribing(q) /\ <<id[q], topic[q]>> = x}
      /\ UNCHANGED <<online, gens, trie, maps, retained>>
  BY DEF ClientUnsubscribe, Begin, Go, broker
<1> HIDE DEF t
<1>2. online[i] = gens[i] /\ gens[i] # 0
  BY <1>1 DEF PagesInv, SessionsKept
<1>3. t \in Topics
  <2>1. maps[i] \in Seq(SUBSET Topics) /\ online[i] \in 1..Len(maps[i])
    BY <1>2 DEF PagesInv, PageTyped, SessionsKept
  <2> QED
    BY <1>1, <2>1
<1>4. PageTyped'
  BY <1>1, <1>3 DEF PagesInv, PageTyped, Steps
<1>5. \A q \in Procs \ {p} :
          at'[q] = at[q] /\ id'[q] = id[q] /\ cl'[q] = cl[q] /\ topic'[q] = topic[q]
  BY <1>1 DEF PagesInv, PageTyped
<1>6. at'[p] = "trieDel" /\ id'[p] = i /\ cl'[p] = online[i] /\ topic'[p] = t
  BY <1>1 DEF PagesInv, PageTyped
<1>7. Unsubscribing(p)' /\ ~Subscribing(p)' /\ ~Unsubscribing(p) /\ ~Subscribing(p)
  BY <1>1, <1>6 DEF Subscribing, Unsubscribing
<1>8. \A q \in Procs \ {p} : /\ Subscribing(q)' <=> Subscribing(q)
                             /\ Unsubscribing(q)' <=> Unsubscribing(q)
  BY <1>5 DEF Subscribing, Unsubscribing
<1>9. SessionsKept'
  <2>1. \A j \in Ids : Len(maps'[j]) = gens'[j] /\ online'[j] \in {0, gens'[j]}
    BY <1>1 DEF PagesInv, SessionsKept
  <2>2. ASSUME NEW q \in Procs, Subscribing(q)'
        PROVE  /\ gens'[id'[q]] # 0 /\ cl'[q] = gens'[id'[q]] /\ topic'[q] \in Topics
               /\ \A r \in Procs \ {q} : Subscribing(r)' => id'[r] # id'[q]
    BY <1>1, <1>5, <1>7, <1>8, <2>2 DEF PagesInv, SessionsKept
  <2> QED
    BY <2>1, <2>2 DEF SessionsKept
<1>10. ASSUME NEW j \in Ids, NEW u \in Topics, <<j, u>> \notin mixed'
       PROVE  Agrees(j, u)'
  <2>1. Agrees(j, u)
    BY <1>1, <1>10 DEF PagesInv
  <2>2. InMap(j, u)' <=> InMap(j, u)
    BY <1>1 DEF InMap
  <2>3. \A q \in Procs \ {p} : On(q, j, u)' <=> On(q, j, u)
    BY <1>5 DEF On
  <2>4. On(p, j, u)' => /\ j = i
                        /\ \A q \in Procs : Subscribing(q) => ~On(q, j, u)
    BY <1>1, <1>6, <1>10 DEF On
  <2> QED
    BY <1>1, <1>2, <1>5, <1>6, <1>7, <1>8, <2>1, <2>2, <2>3, <2>4 DEF Agrees
<1> QED
  BY <1>4, <1>9, <1>10 DEF PagesInv

(* The step on the trie.                                                   *)
LEMMA TrieChanged ==
    ASSUME PagesInv, NEW p \in Procs, TopicsUnsubscribe(p) \/ TopicsSubscribe(p)
    PROVE  PagesInv'
<1> DEFINE x == <<id[p], topic[p]>>
<1>1. /\ \/ at[p] = "trieDel" /\ at' = [at EXCEPT ![p] = "mapDel"] /\ trie' = trie \ {x}
         \/ at[p] = "trieAdd" /\ at' = [at EXCEPT ![p] = "mapAdd"] /\ trie' = trie \cup {x}
      /\ UNCHANGED <<online, gens, id, cl, topic, maps, retained, mixed>>
  BY DEF TopicsUnsubscribe, TopicsSubscribe, Go, broker
<1>2. PageTyped'
  BY <1>1 DEF PagesInv, PageTyped, Steps
<1>3. \A q \in Procs : /\ Subscribing(q)' <=> Subscribing(q)
                       /\ Unsubscribing(q)' <=> Unsubscribing(q)
                       /\ q # p => at'[q] = at[q]
  BY <1>1 DEF PagesInv, PageTyped, Subscribing, Unsubscribing
<1>4. SessionsKept'
  BY <1>1, <1>3 DEF PagesInv, SessionsKept
<1>5. ASSUME NEW i \in Ids, NEW t \in Topics, <<i, t>> \notin mixed'
      PROVE  Agrees(i, t)'
  <2>1. Agrees(i, t) /\ (InMap(i, t)' <=> InMap(i, t))
    BY <1>1, <1>5 DEF PagesInv, InMap
  <2>2. \A q \in Procs : On(q, i, t)' <=> On(q, i, t)
    BY <1>1 DEF On
  <2>3. On(p, i, t) <=> x = <<i, t>>
    BY DEF On
  <2>4. CASE x # <<i, t>>
    <3>1. (<<i, t>> \in trie' <=> <<i, t>> \in trie) /\ ~On(p, i, t)
      BY <1>1, <2>3, <2>4
    <3> QED
      BY <1>1, <1>3, <2>1, <2>2, <3>1 DEF Agrees
  <2>5. CASE x = <<i, t>> /\ at[p] = "trieDel"
    <3>1. <<i, t>> \notin trie' /\ at'[p] = "mapDel" /\ Unsubscribing(p) /\ On(p, i, t)
      BY <1>1, <2>3, <2>5 DEF PagesInv, PageTyped, Unsubscribing
    <3>2. \A q \in Procs : Subscribing(q) => ~On(q, i, t)
      BY <2>1, <3>1 DEF Agrees
    <3>3. \A q \in Procs : at'[q] = "mapAdd" => Subscribing(q)
      BY <1>3 DEF Subscribing
    <3> QED
      BY <1>1, <1>3, <2>1, <2>2, <3>1, <3>2, <3>3 DEF Agrees
  <2>6. CASE x = <<i, t>> /\ at[p] = "trieAdd"
    <3>1. <<i, t>> \in trie' /\ at'[p] = "mapAdd" /\ Subscribing(p) /\ On(p, i, t)
      BY <1>1, <2>3, <2>6 DEF PagesInv, PageTyped, Subscribing
    <3>2. \A q \in Procs : Unsubscribing(q) => ~On(q, i, t)
      BY <2>1, <3>1 DEF Agrees
    <3>3. \A q \in Procs : at'[q] = "mapDel" => Unsubscribing(q)
      BY <1>3 DEF Unsubscribing
    <3> QED
      BY <1>1, <1>3, <2>1, <2>2, <3>1, <3>2, <3>3 DEF Agrees
  <2> QED
    BY <1>1, <2>4, <2>5, <2>6
<1> QED
  BY <1>2, <1>4, <1>5 DEF PagesInv

(* The step on the map of the client object, and the request is over.      *)
LEMMA MapChanged ==
    ASSUME PagesInv, NEW p \in Procs, SubscriptionsDelete(p) \/ SubscriptionsAdd(p)
    PROVE  PagesInv'
<1> DEFINE i == id[p]
           t == topic[p]
           old == maps[i][cl[p]]
           new == maps'[i][cl[p]]
<1>1. /\ \/ /\ at[p] = "mapDel"
            /\ maps' = [maps EXCEPT ![i] = [maps[i] EXCEPT ![cl[p]] = @ \ {t}]]
         \/ /\ at[p] = "mapAdd"
            /\ maps' = [maps EXCEPT ![i] = [maps[i] EXCEPT ![cl[p]] = @ \cup {t}]]
      /\ at' = [at EXCEPT ![p] = "idle"] /\ id' = [id EXCEPT ![p] = NoId]
      /\ cl' = [cl EXCEPT ![p] = 0] /\ topic' = [topic EXCEPT ![p] = Malformed]
      /\ UNCHANGED <<online, gens, trie, retained, mixed>>
  BY DEF SubscriptionsDelete, SubscriptionsAdd, Finish, End, Go, broker
<1>2. i \in Ids
  BY <1>1 DEF PagesInv, PageTyped
<1>3. at[p] = "mapAdd" => cl[p] = gens[i] /\ gens[i] # 0 /\ t \in Topics
  BY DEF PagesInv, SessionsKept, Subscribing
<1>4. maps' \in [Ids -> Seq(SUBSET Topics)] /\ Len(maps'[i]) = Len(maps[i])
  <2>1. maps[i] \in Seq(SUBSET Topics) /\ cl[p] \in Nat
    BY <1>2 DEF PagesInv, PageTyped
  <2>2. ASSUME NEW v, cl[p] \in 1..Len(maps[i]) => v \in SUBSET Topics
        PROVE  /\ [maps[i] EXCEPT ![cl[p]] = v] \in Seq(SUBSET Topics)
               /\ Len([maps[i] EXCEPT ![cl[p]] = v]) = Len(maps[i])
    BY <2>1, <2>2, SlotPut
  <2>3. cl[p] \in 1..Len(maps[i]) => old \subseteq Topics
    BY <2>1
  <2>4. maps \in [Ids -> Seq(SUBSET Topics)]
    BY DEF PagesInv, PageTyped
  <2>5. CASE at[p] = "mapDel"
    <3>1. maps' = [maps EXCEPT ![i] = [maps[i] EXCEPT ![cl[p]] = old \ {t}]]
      BY <1>1, <2>5
    <3> QED
      BY <1>2, <2>2, <2>3, <2>4, <3>1
  <2>6. CASE at[p] = "mapAdd"
    <3>1. maps' = [maps EXCEPT ![i] = [maps[i] EXCEPT ![cl[p]] = old \cup {t}]]
      BY <1>1, <2>6
    <3> QED
      BY <1>2, <1>3, <2>2, <2>3, <2>4, <2>6, <3>1
  <2> QED
    BY <1>1, <2>5, <2>6
<1>5. PageTyped'
  BY <1>1, <1>4 DEF PagesInv, PageTyped, Steps
<1>6. \A q \in Procs \ {p} :
          at'[q] = at[q] /\ id'[q] = id[q] /\ cl'[q] = cl[q] /\ topic'[q] = topic[q]
  BY <1>1 DEF PagesInv, PageTyped
<1>7. at'[p] = "idle"
  BY <1>1 DEF PagesInv, PageTyped
<1>8. /\ ~Subscribing(p)' /\ ~Unsubscribing(p)'
      /\ \A q \in Procs \ {p} : /\ Subscribing(q)' <=> Subscribing(q)
                                /\ Unsubscribing(q)' <=> Unsubscribing(q)
  BY <1>6, <1>7 DEF Subscribing, Unsubscribing
<1>9. \A j \in Ids : j # i => maps'[j] = maps[j]
  BY <1>1 DEF PagesInv, PageTyped
<1>10. SessionsKept'
  <2>1. \A j \in Ids : Len(maps'[j]) = gens'[j] /\ online'[j] \in {0, gens'[j]}
    BY <1>1, <1>4, <1>9 DEF PagesInv, SessionsKept
  <2>2. ASSUME NEW q \in Procs, Subscribing(q)'
        PROVE  /\ gens'[id'[q]] # 0 /\ cl'[q] = gens'[id'[q]] /\ topic'[q] \in Topics
               /\ \A r \in Procs \ {q} : Subscribing(r)' => id'[r] # id'[q]
    BY <1>1, <1>6, <1>8, <2>2 DEF PagesInv, SessionsKept
  <2> QED
    BY <2>1, <2>2 DEF SessionsKept
<1>11. ASSUME NEW j \in Ids, NEW u \in Topics, <<j, u>> \notin mixed'
       PROVE  Agrees(j, u)'
  <2>1. Agrees(j, u)
    BY <1>1, <1>11 DEF PagesInv
  <2>2. \A q \in Procs \ {p} : On(q, j, u)' <=> On(q, j, u)
    BY <1>6 DEF On
  <2>3. CASE ~On(p, j, u)
    <3>1. InMap(j, u)' <=> InMap(j, u)
      <4>1. CASE j # i
        BY <1>1, <1>9, <4>1 DEF InMap
      <4>2. CASE j = i
        <5>1. u # t
          BY <2>3, <4>2 DEF On
        <5>2. maps[i] \in Seq(SUBSET Topics) /\ maps \in [Ids -> Seq(SUBSET Topics)]
          BY <1>2 DEF PagesInv, PageTyped
        <5>3. \A k \in 1..Len(maps[i]) : u \in maps'[i][k] <=> u \in maps[i][k]
          BY <1>1, <1>2, <5>1, <5>2
        <5>4. gens[i] # 0 => gens[i] \in 1..Len(maps[i])
          BY <1>2 DEF PagesInv, PageTyped, SessionsKept
        <5> QED
          BY <1>1, <4>2, <5>3, <5>4 DEF InMap
      <4> QED
        BY <4>1, <4>2
    <3> QED
      BY <1>1, <1>6, <1>7, <1>8, <2>1, <2>2, <2>3, <3>1 DEF Agrees
  <2>4. CASE On(p, j, u)
    <3>1. j = i /\ u = t
      BY <2>4 DEF On
    <3>2. cl[p] = gens[i] /\ gens[i] # 0
      BY <1>1, <1>3, <2>1, <2>4, <3>1 DEF Agrees, Unsubscribing
    <3>3. gens[i] \in 1..Len(maps[i])
      BY <1>2, <3>2 DEF PagesInv, PageTyped, SessionsKept
    <3>4. maps[i] \in Seq(SUBSET Topics) /\ maps \in [Ids -> Seq(SUBSET Topics)]
      BY <1>2 DEF PagesInv, PageTyped
    <3>5. CASE at[p] = "mapDel"
      <4>1. maps'[i][gens[i]] = maps[i][gens[i]] \ {t}
        BY <1>1, <1>2, <3>2, <3>3, <3>4, <3>5
      <4>2. ~InMap(j, u)' /\ <<j, u>> \notin trie'
        BY <1>1, <2>1, <2>4, <3>1, <3>5, <4>1 DEF InMap, Agrees
      <4>3. \A q \in Procs : Subscribing(q) => ~On(q, j, u)
        BY <2>1, <2>4, <3>5 DEF Agrees, Unsubscribing
      <4> QED
        BY <1>1, <1>6, <1>7, <1>8, <2>1, <2>2, <4>2, <4>3 DEF Agrees, Subscribing
    <3>6. CASE at[p] = "mapAdd"
      <4>1. maps'[i][gens[i]] = maps[i][gens[i]] \cup {t}
        BY <1>1, <1>2, <3>2, <3>3, <3>4, <3>6
      <4>2. InMap(j, u)' /\ <<j, u>> \in trie'
        BY <1>1, <2>1, <2>4, <3>1, <3>2, <3>6, <4>1 DEF InMap, Agrees
      <4>3. \A q \in Procs : Unsubscribing(q) => ~On(q, j, u)
        BY <2>1, <2>4, <3>6 DEF Agrees, Subscribing
      <4> QED
        BY <1>1, <1>6, <1>7, <1>8, <2>1, <2>2, <4>2, <4>3 DEF Agrees, Unsubscribing
    <3> QED
      BY <1>1, <3>5, <3>6
  <2> QED
    BY <2>3, <2>4
<1> QED
  BY <1>5, <1>10, <1>11 DEF PagesInv

(* A client comes back with the subscriptions it had.                      *)
LEMMA SessionBegins ==
    ASSUME PagesInv, NEW p \in Procs, NewSession(p)
    PROVE  PagesInv'
<1> DEFINE i == id[p]
           g == gens[i] + 1
           inherited == IF maps[i] = <<>> THEN {} ELSE maps[i][Len(maps[i])]
<1>1. /\ at[p] = "admit" /\ ~SomeOn(Subscribing, i)
      /\ gens' = [gens EXCEPT ![i] = g] /\ online' = [online EXCEPT ![i] = g]
      /\ at' = [at EXCEPT ![p] = "idle"] /\ id' = [id EXCEPT ![p] = NoId]
      /\ cl' = [cl EXCEPT ![p] = 0]
      /\ maps' = [maps EXCEPT ![i] = Append(maps[i], inherited)]
      /\ mixed' = mixed \cup {<<i, topic[q]>> : q \in {r \in Procs :
                                        Unsubscribing(r) /\ id[r] = i}}
      /\ UNCHANGED <<trie, topic, retained>>
  BY DEF NewSession, Admit, End, Go, Last
<1>2. i \in Ids /\ gens[i] \in Nat /\ maps[i] \in Seq(SUBSET Topics)
      /\ maps \in [Ids -> Seq(SUBSET Topics)] /\ Len(maps[i]) = gens[i]
  BY <1>1 DEF PagesInv, PageTyped, SessionsKept
<1>3. inherited \in SUBSET Topics
  BY <1>2
<1>4. /\ maps' \in [Ids -> Seq(SUBSET Topics)]
      /\ Len(maps'[i]) = g /\ maps'[i][g] = inherited
      /\ \A j \in Ids : j # i => maps'[j] = maps[j]
  <2> HIDE DEF inherited
  <2> QED
    BY <1>1, <1>2, <1>3
<1>5. \A u \in Topics : u \in maps'[i][g] <=> InMap(i, u)
  BY <1>2, <1>4 DEF InMap
<1> HIDE DEF inherited
<1>6. PageTyped'
  BY <1>1, <1>2, <1>4 DEF PagesInv, PageTyped, Steps
<1>7. \A q \in Procs \ {p} :
          at'[q] = at[q] /\ id'[q] = id[q] /\ cl'[q] = cl[q] /\ topic'[q] = topic[q]
  BY <1>1 DEF PagesInv, PageTyped
<1>8. at'[p] = "idle"
  BY <1>1 DEF PagesInv, PageTyped
<1>9. /\ \A q \in Procs : /\ Subscribing(q)' <=> Subscribing(q)
                          /\ Unsubscribing(q)' <=> Unsubscribing(q)
      /\ ~Subscribing(p) /\ ~Unsubscribing(p)
  BY <1>1, <1>7, <1>8 DEF Subscribing, Unsubscribing
<1>10. \A j \in Ids : IF j = i THEN gens'[j] = g /\ online'[j] = g
                               ELSE gens'[j] = gens[j] /\ online'[j] = online[j]
  BY <1>1 DEF PagesInv, PageTyped
<1>11. \A q \in Procs : Subscribing(q) => id[q] # i /\ id[q] \in Ids
  BY <1>1 DEF SomeOn, PagesInv, PageTyped, Subscribing
<1>12. SessionsKept'
  <2>1. \A j \in Ids : Len(maps'[j]) = gens'[j] /\ online'[j] \in {0, gens'[j]}
    BY <1>4, <1>10 DEF PagesInv, SessionsKept
  <2>2. ASSUME NEW q \in Procs, Subscribing(q)'
        PROVE  /\ gens'[id'[q]] # 0 /\ cl'[q] = gens'[id'[q]] /\ topic'[q] \in Topics
               /\ \A r \in Procs \ {q} : Subscribing(r)' => id'[r] # id'[q]
    BY <1>7, <1>9, <1>10, <1>11, <2>2 DEF PagesInv, SessionsKept
  <2> QED
    BY <2>1, <2>2 DEF SessionsKept
<1>13. ASSUME NEW j \in Ids, NEW u \in Topics, <<j, u>> \notin mixed'
       PROVE  Agrees(j, u)'
  <2>1. Agrees(j, u)
    BY <1>1, <1>13 DEF PagesInv
  <2>2. \A q \in Procs \ {p} : On(q, j, u)' <=> On(q, j, u)
    BY <1>7 DEF On
  <2>3. j = i => \A q \in Procs : Unsubscribing(q) => ~On(q, j, u)
    BY <1>1, <1>13 DEF On
  <2>4. InMap(j, u)' <=> InMap(j, u)
    <3>1. CASE j = i
      BY <1>2, <1>5, <1>10, <3>1 DEF InMap
    <3>2. CASE j # i
      BY <1>4, <1>10, <3>2 DEF InMap
    <3> QED
      BY <3>1, <3>2
  <2>5. j # i => gens'[j] = gens[j]
    BY <1>10
  <2>6. \A q \in Procs : /\ at'[q] = "mapDel" <=> at[q] = "mapDel"
                         /\ at'[q] = "mapAdd" <=> at[q] = "mapAdd"
                         /\ at[q] \in {"mapDel", "mapAdd"} => q # p
    BY <1>1, <1>7, <1>8
  <2>7. trie' = trie
    BY <1>1
  <2> QED
    BY <1>7, <1>9, <2>1, <2>2, <2>3, <2>4, <2>5, <2>6, <2>7 DEF Agrees
<1> QED
  BY <1>6, <1>12, <1>13 DEF PagesInv

LEMMA PagesInitially == BlInit /\ PagesInit => PagesInv
<1> SUFFICES ASSUME BlInit, PagesInit PROVE PagesInv
  OBVIOUS
<1>1. PageTyped
  BY DEF BlInit, PagesInit, PageTyped, Steps
<1>2. SessionsKept
  BY DEF BlInit, PagesInit, SessionsKept, Subscribing
<1>3. \A i \in Ids, t \in Topics : Agrees(i, t)
  BY DEF BlInit, PagesInit, Agrees, Subscribing, Unsubscribing, InMap
<1> QED
  BY <1>1, <1>2, <1>3 DEF PagesInv

LEMMA PagesKept == PagesInv /\ [Next]_allVars => PagesInv'
<1> SUFFICES ASSUME PagesInv, [Next]_allVars PROVE PagesInv'
  OBVIOUS
<1>1. CASE UNCHANGED pagesAll
  BY <1>1 DEF pagesAll, blVars, pageVars, PagesInv, PageTyped, SessionsKept, Agrees,
              Subscribing, Unsubscribing, On, InMap
<1>2. ASSUME NEW p \in Procs, BrokerRequest(p) PROVE PagesInv'
  BY <1>2, RequestQuiet, PageQuiet, QuietKeeps, SubscribeBegins, UnsubscribeBegins
  DEF BrokerRequest
<1>3. ASSUME NEW p \in Procs, PageStep(p) PROVE PagesInv'
  BY <1>3, EditQuiet, PageQuiet, QuietKeeps, TrieChanged, MapChanged, SessionBegins
  DEF PageStep
<1> QED
  BY <1>1, <1>2, <1>3 DEF Next, BrokerNext, RegexNext, SamplerNext, allVars

(* While no request for a client is under way, its messages are routed by  *)
(* the subscriptions that its page shows.                                  *)
THEOREM RecordsOfSubscriptionsAgree == Spec => []TrieMatchesMaps
<1>1. Init => PagesInv
  BY PagesInitially DEF Init
<1>2. PagesInv => TrieMatchesMaps
  <2> SUFFICES ASSUME PagesInv, NEW i \in Ids, online[i] # 0,
                      ~SomeOn(Unsubscribing, i), ~SomeOn(Subscribing, i),
                      NEW t \in Topics, <<i, t>> \notin mixed
               PROVE  <<i, t>> \in trie <=> t \in maps[i][online[i]]
    BY DEF TrieMatchesMaps
  <2>1. online[i] = gens[i] /\ gens[i] # 0 /\ Agrees(i, t)
    BY DEF PagesInv, SessionsKept
  <2>2. \A q \in Procs : at[q] \in {"mapDel", "mapAdd"} => ~On(q, i, t)
    BY DEF SomeOn, Subscribing, Unsubscribing, On
  <2> QED
    BY <2>1, <2>2 DEF Agrees, InMap
<1> QED
  BY <1>1, <1>2, PagesKept, PTL DEF Spec

----------------------------------------------------------------------------
(* The blacklist: the slice that the page edits without a lock while the   *)
(* broker reads it.                                                        *)

Elem == Ids \cup {Blank}
Header == [ptr : Nat, len : Nat, seenLen : BOOLEAN]

(* The first n slots of a hold the members of S, each of them once.        *)
Listed(a, n, S) ==
    /\ n \in 0..Len(a)
    /\ \A k \in 1..n : a[k] \in S
    /\ \A x \in S : \E k \in 1..n : a[k] = x
    /\ \A j, k \in 1..n : a[j] = a[k] => j = k

(* The same with a gap at f.                                               *)
ListedBut(a, n, f, S) ==
    /\ n \in 1..Len(a) /\ f \in 1..n
    /\ \A k \in 1..n : k # f => a[k] \in S
    /\ \A x \in S : \E k \in 1..n : k # f /\ a[k] = x
    /\ \A j, k \in 1..n : j # f /\ k # f /\ a[j] = a[k] => j = k

Adding(p) == at[p] \in {"append", "storePtr", "storeLen"}

SliceTyped ==
    /\ arrays \in Seq(Seq(Elem))
    /\ ptr \in 1..Len(arrays) /\ len \in Nat
    /\ hdr \in [Procs -> Header]
    /\ pos \in [Procs -> Nat] /\ fill \in [Procs -> Nat]
    /\ wanted \subseteq Ids /\ settled \subseteq wanted
    /\ \A p \in Procs : ~Editing(p) /\ ~Checking(p) => hdr[p] = NoHdr

OneEditor == \A p, q \in Procs : Editing(p) /\ Editing(q) => p = q

(* What the slice holds at every stage of the one request at work on it.   *)
AddStage(p) ==
    LET h == hdr[p]
        i == id[p]
        a == arrays[ptr] IN
    /\ Adding(p) => /\ i \in wanted /\ i \notin settled
                    /\ Listed(a, h.len, wanted \ {i})
    /\ at[p] = "append" => h.ptr = ptr /\ h.len = len
    /\ at[p] = "storePtr" =>
          /\ h.ptr \in 1..Len(arrays) /\ h.len = Len(a)
          /\ len \in {h.len, h.len + 1}
          /\ h.len < Len(arrays[h.ptr]) /\ arrays[h.ptr][h.len + 1] = i
          /\ \A k \in 1..h.len : arrays[h.ptr][k] = a[k]
    /\ at[p] = "storeLen" =>
          /\ h.ptr = ptr /\ h.len = len
          /\ h.len < Len(a) /\ a[h.len + 1] = i

AddedStage(p) ==
    at[p] \in {"lookup", "disconnect"} =>
        id[p] \in wanted /\ Listed(arrays[ptr], len, wanted)

RemoveStage(p) ==
    /\ Removing(p) => hdr[p].ptr = ptr /\ hdr[p].len = len /\ id[p] \notin wanted
    /\ at[p] \in {"shift", "clear"} => ListedBut(arrays[ptr], len, fill[p], wanted)
    /\ at[p] = "shift" => pos[p] = fill[p] + 1
    /\ at[p] = "clear" => fill[p] = len
    /\ at[p] = "cut" => fill[p] # 0 /\ Listed(arrays[ptr], fill[p] - 1, wanted)

StageOK(p) == AddStage(p) /\ AddedStage(p) /\ RemoveStage(p)

ListKept ==
    /\ (\A p \in Procs : ~Editing(p)) => Listed(arrays[ptr], len, wanted)
    /\ \A p \in Procs : Editing(p) => StageOK(p)

(* An id that whoever begins to check now will find in the list.           *)
Visible(i) == i \in wanted /\ \A p \in Procs : Adding(p) => id[p] # i

(* A check that will find its id at k.                                     *)
FindsAt(q, k) ==
    /\ at[q] # "admit" /\ pos[q] <= k
    /\ k \in 1..Len(arrays[ptr]) /\ arrays[ptr][k] = id[q]
    /\ hdr[q].ptr # 0 => /\ hdr[q].ptr \in 1..Len(arrays)
                         /\ k \in 1..Len(arrays[hdr[q].ptr])
                         /\ arrays[hdr[q].ptr][k] = id[q]
    /\ hdr[q].seenLen => k <= hdr[q].len
    /\ at[q] = "scan" => hdr[q].ptr # 0 /\ hdr[q].seenLen

ChecksKept ==
    \A q \in Procs : Checking(q) /\ q \notin excused =>
        /\ \A r \in Procs : ~Removing(r)
        /\ Visible(id[q]) => \E k \in 1..len : FindsAt(q, k)

(* Sessions that are left to a listed id, once its Add has looked it up.   *)
NoneLeft(i, gone) == online[i] \in {0, gone} \/ <<i, online[i]>> \in excused

SessionsGone ==
    /\ \A i \in settled : NoneLeft(i, 0)
    /\ \A p \in Procs : at[p] = "disconnect" => NoneLeft(id[p], cl[p])

BlGood == SliceTyped /\ OneEditor /\ ListKept /\ ChecksKept /\ SessionsGone

BlInv == ~raced => BlGood

LEMMA ListGrows ==
    ASSUME NEW S, NEW a \in Seq(Elem), NEW x, NEW n,
           Listed(a, n, S), n < Len(a), a[n + 1] = x, x \notin S
    PROVE  Listed(a, n + 1, S \cup {x})
<1>1. n \in Nat /\ n + 1 \in 0..Len(a) /\ 1..(n + 1) = 1..n \cup {n + 1}
  BY DEF Listed
<1>2. \A k \in 1..(n + 1) : a[k] \in S \cup {x}
  BY <1>1 DEF Listed
<1>3. \A y \in S \cup {x} : \E k \in 1..(n + 1) : a[k] = y
  BY <1>1 DEF Listed
<1>4. \A j, k \in 1..(n + 1) : a[j] = a[k] => j = k
  BY <1>1 DEF Listed
<1> QED
  BY <1>1, <1>2, <1>3, <1>4 DEF Listed

(* A list that agrees on its n slots is the same list.                     *)
LEMMA ListCopied ==
    ASSUME NEW S, NEW a \in Seq(Elem), NEW b \in Seq(Elem), NEW n,
           Listed(a, n, S), n <= Len(b), \A k \in 1..n : b[k] = a[k]
    PROVE  Listed(b, n, S)
BY DEF Listed

LEMMA ListGap ==
    ASSUME NEW S, NEW a \in Seq(Elem), NEW n, NEW f \in 1..n, Listed(a, n, S)
    PROVE  ListedBut(a, n, f, S \ {a[f]})
<1>1. n \in 1..Len(a)
  BY DEF Listed
<1> QED
  BY <1>1 DEF Listed, ListedBut

(* One step of the shift moves the gap up.                                 *)
LEMMA GapMoves ==
    ASSUME NEW S, NEW a \in Seq(Elem), NEW n, NEW f, ListedBut(a, n, f, S), f + 1 <= n,
           NEW b \in Seq(Elem), b = [a EXCEPT ![f] = a[f + 1]]
    PROVE  ListedBut(b, n, f + 1, S)
<1>1. n \in 1..Len(a) /\ f \in 1..n /\ f + 1 \in 1..n /\ Len(a) \in Nat
  BY DEF ListedBut
<1>2. Len(b) = Len(a) /\ \A k \in 1..n : b[k] = IF k = f THEN a[f + 1] ELSE a[k]
  BY <1>1
<1>3. \A k \in 1..n : k # f + 1 => b[k] \in S
  BY <1>1, <1>2 DEF ListedBut
<1>4. \A x \in S : \E k \in 1..n : k # f + 1 /\ b[k] = x
  <2> SUFFICES ASSUME NEW x \in S PROVE \E k \in 1..n : k # f + 1 /\ b[k] = x
    OBVIOUS
  <2>1. PICK k \in 1..n : k # f /\ a[k] = x
    BY DEF ListedBut
  <2>2. CASE k = f + 1
    BY <1>1, <1>2, <2>1, <2>2
  <2>3. CASE k # f + 1
    BY <1>2, <2>1, <2>3
  <2> QED
    BY <2>2, <2>3
<1>5. \A j, k \in 1..n : j # f + 1 /\ k # f + 1 /\ b[j] = b[k] => j = k
  <2> SUFFICES ASSUME NEW j \in 1..n, NEW k \in 1..n, j # f + 1, k # f + 1, b[j] = b[k]
               PROVE  j = k
    OBVIOUS
  <2> DEFINE J == IF j = f THEN f + 1 ELSE j
             K == IF k = f THEN f + 1 ELSE k
  <2>1. J \in 1..n /\ K \in 1..n /\ J # f /\ K # f /\ a[J] = a[K]
    BY <1>1, <1>2
  <2>2. J = K
    BY <2>1 DEF ListedBut
  <2> QED
    BY <1>1, <2>2
<1> QED
  BY <1>1, <1>2, <1>3, <1>4, <1>5 DEF ListedBut

LEMMA GapAtEnd ==
    ASSUME NEW S, NEW a \in Seq(Elem), NEW n, ListedBut(a, n, n, S)
    PROVE  Listed(a, n - 1, S)
<1>1. n \in 1..Len(a) /\ Len(a) \in Nat
  BY DEF ListedBut
<1>2. n - 1 \in 0..Len(a) /\ \A k : k \in 1..(n - 1) <=> k \in 1..n /\ k # n
  BY <1>1
<1> QED
  BY <1>2 DEF Listed, ListedBut

LEMMA FirstMatch ==
    ASSUME NEW s, NEW n \in Nat, s = [k \in 1..n |-> s[k]], NEW i
    PROVE  LET f == SelectInSeq(s, LAMBDA x : x = i)
           IN  \/ f = 0 /\ \A k \in 1..n : s[k] # i
               \/ f \in 1..n /\ s[f] = i
<1> DEFINE I == {k \in 1..Len(s) : s[k] = i}
           f == SelectInSeq(s, LAMBDA x : x = i)
<1>1. f = IF I # {} THEN Min(I) ELSE 0
  BY DEF SelectInSeq
<1>2. Len(s) = n
  OBVIOUS
<1>3. ASSUME I # {} PROVE Min(I) \in I
  <2>1. I \in SUBSET Nat
    BY <1>2
  <2> HIDE DEF I
  <2>2. \E x \in I : \A y \in I : x <= y
    BY <1>3, <2>1, LeastNat
  <2> QED
    BY <2>2 DEF Min
<1> HIDE DEF f
<1>4. CASE I = {}
  BY <1>1, <1>2, <1>4 DEF f
<1>5. CASE I # {}
  BY <1>1, <1>2, <1>3, <1>5 DEF f
<1> QED
  BY <1>4, <1>5

(* What a step of p leaves of the other processes.                         *)
OthersStay(p) ==
    \A q \in Procs \ {p} :
        /\ at'[q] = at[q] /\ id'[q] = id[q] /\ hdr'[q] = hdr[q]
        /\ pos'[q] = pos[q] /\ fill'[q] = fill[q] /\ cl'[q] = cl[q]

SameSlice == UNCHANGED <<arrays, ptr, len, wanted, settled>>

LEMMA SameStage ==
    ASSUME NEW p \in Procs, NEW e \in Procs \ {p}, OthersStay(p), SameSlice, StageOK(e)
    PROVE  StageOK(e)'
<1>1. /\ at'[e] = at[e] /\ id'[e] = id[e] /\ hdr'[e] = hdr[e]
      /\ pos'[e] = pos[e] /\ fill'[e] = fill[e]
      /\ arrays' = arrays /\ ptr' = ptr /\ len' = len
      /\ wanted' = wanted /\ settled' = settled
  BY DEF OthersStay, SameSlice
<1>2. AddStage(e)'
  BY <1>1 DEF StageOK, AddStage, Adding, Listed
<1>3. AddedStage(e)'
  BY <1>1 DEF StageOK, AddedStage, Listed
<1>4. RemoveStage(e)'
  BY <1>1 DEF StageOK, RemoveStage, Removing, Listed, ListedBut
<1> QED
  BY <1>2, <1>3, <1>4 DEF StageOK

(* A step that neither changes the slice nor begins or ends a change.      *)
LEMMA ListStays ==
    ASSUME BlGood, NEW p \in Procs, OthersStay(p), SameSlice, ~Editing(p), ~Editing(p)'
    PROVE  /\ OneEditor' /\ ListKept'
           /\ \A q \in Procs : Removing(q)' <=> Removing(q)
           /\ \A i \in Ids : Visible(i)' <=> Visible(i)
<1>1. \A q \in Procs : (Editing(q)' <=> Editing(q)) /\ (Editing(q) => q # p)
  BY DEF OthersStay, Editing
<1>2. OneEditor'
  BY <1>1 DEF BlGood, OneEditor
<1>3. ListKept'
  <2>1. \A q \in Procs : Editing(q)' => StageOK(q)'
    BY <1>1, SameStage DEF BlGood, ListKept
  <2>2. (\A q \in Procs : ~Editing(q)') => Listed(arrays[ptr], len, wanted)'
    BY <1>1 DEF BlGood, ListKept, SameSlice, Listed
  <2> QED
    BY <2>1, <2>2 DEF ListKept
<1>4. \A q \in Procs : (Removing(q)' <=> Removing(q)) /\ (Adding(q)' <=> Adding(q))
                       /\ (Adding(q) => q # p)
  <2>1. ~Removing(p) /\ ~Adding(p) /\ ~Removing(p)' /\ ~Adding(p)'
    BY DEF Editing, Removing, Adding
  <2> QED
    BY <2>1 DEF OthersStay, Removing, Adding
<1>5. \A i \in Ids : Visible(i)' <=> Visible(i)
  BY <1>4 DEF Visible, OthersStay, SameSlice
<1> QED
  BY <1>2, <1>3, <1>4, <1>5

LEMMA SameFinds ==
    ASSUME NEW p \in Procs, NEW q \in Procs \ {p}, OthersStay(p), SameSlice,
           NEW k, FindsAt(q, k)
    PROVE  FindsAt(q, k)'
BY DEF OthersStay, SameSlice, FindsAt

(* The steps of the other pages.                                           *)
Aside(p) ==
    /\ OthersStay(p) /\ SameSlice
    /\ UNCHANGED <<raced, excused>>
    /\ ~Editing(p) /\ ~Checking(p) /\ ~Editing(p)' /\ ~Checking(p)'
    /\ hdr' \in [Procs -> Header] /\ pos' \in [Procs -> Nat] /\ fill' \in [Procs -> Nat]
    /\ hdr'[p] = NoHdr
    /\ \A i \in Ids : online'[i] \in {0, online[i]}

LEMMA AsideKeeps ==
    ASSUME BlGood, PageTyped, NEW p \in Procs, Aside(p)
    PROVE  BlGood'
<1>1. OneEditor' /\ ListKept' /\ (\A q \in Procs : Removing(q)' <=> Removing(q))
      /\ (\A i \in Ids : Visible(i)' <=> Visible(i))
  BY ListStays DEF Aside
<1>2. SliceTyped'
  BY DEF BlGood, SliceTyped, Aside, OthersStay, SameSlice, Editing, Checking
<1>3. ChecksKept'
  <2> SUFFICES ASSUME NEW q \in Procs, Checking(q)', q \notin excused'
               PROVE  /\ \A r \in Procs : ~Removing(r)'
                      /\ Visible(id[q])' => \E k \in 1..len' : FindsAt(q, k)'
    BY DEF ChecksKept
  <2>1. q # p /\ Checking(q) /\ q \notin excused /\ id'[q] = id[q] /\ len' = len
    BY DEF Aside, Checking, OthersStay, SameSlice
  <2>2. id[q] \in Ids
    BY <2>1 DEF PageTyped, Checking
  <2>3. Visible(id[q])' <=> Visible(id[q])
    BY <1>1, <2>1, <2>2 DEF Visible
  <2> QED
    BY <1>1, <2>1, <2>3, SameFinds DEF BlGood, ChecksKept, Aside
<1>4. SessionsGone'
  <2>1. \A i \in Ids : \A g :
            NoneLeft(i, g) => online'[i] \in {0, g} \/ <<i, online'[i]>> \in excused
    BY DEF NoneLeft, Aside
  <2>2. ASSUME NEW i \in settled' PROVE NoneLeft(i, 0)'
    BY <2>1 DEF BlGood, SliceTyped, SessionsGone, NoneLeft, Aside, SameSlice
  <2>3. ASSUME NEW q \in Procs, at'[q] = "disconnect" PROVE NoneLeft(id[q], cl[q])'
    <3>1. q # p
      BY <2>3 DEF Aside, Editing
    <3>2. at[q] = "disconnect" /\ id'[q] = id[q] /\ cl'[q] = cl[q]
      BY <2>3, <3>1 DEF Aside, OthersStay
    <3>3. id[q] \in Ids /\ NoneLeft(id[q], cl[q])
      BY <3>2 DEF PageTyped, BlGood, SessionsGone
    <3> QED
      BY <2>1, <3>2, <3>3 DEF NoneLeft, Aside
  <2> QED
    BY <2>2, <2>3 DEF SessionsGone
<1> QED
  BY <1>1, <1>2, <1>3, <1>4 DEF BlGood

LEMMA PagesAside ==
    ASSUME BlGood, PageTyped, NEW p \in Procs,
           \/ \E i \in Ids : SessionsClear(p, i)
           \/ \E i \in Ids, t \in Topics : ClientSubscribe(p, i, t) \/ ClientUnsubscribe(p, i, t)
           \/ \E t \in Topics : RetainedClear(p, t)
           \/ \E t \in Topics, empty \in BOOLEAN : at[p] = "idle" /\ ToolsPublish(t, empty)
           \/ Kick(p) \/ RetainedDelete(p) \/ TopicsUnsubscribe(p) \/ SubscriptionsDelete(p)
           \/ TopicsSubscribe(p) \/ SubscriptionsAdd(p)
    PROVE  Aside(p)
<1>0. NoHdr \in Header
  BY DEF NoHdr, Header
<1>1. hdr[p] = NoHdr \/ Editing(p) \/ Checking(p)
  BY DEF BlGood, SliceTyped
<1>2. ASSUME NEW l \in {"trieDel", "trieAdd", "kick", "retainedDel"}, NEW i, NEW t,
             Begin(p, l, i, t), \/ UNCHANGED cl
                                \/ \E c : cl' = [cl EXCEPT ![p] = c],
             UNCHANGED online
      PROVE  Aside(p)
  <2>1. OthersStay(p) /\ SameSlice /\ UNCHANGED <<raced, excused>>
    BY <1>2 DEF Begin, Go, OthersStay, SameSlice, slice, history, PageTyped
  <2>2. ~Editing(p) /\ ~Checking(p) /\ ~Editing(p)' /\ ~Checking(p)'
    BY <1>2 DEF Begin, Go, Editing, Checking, PageTyped
  <2> QED
    BY <1>1, <1>2, <2>1, <2>2 DEF Aside, Begin, BlGood, SliceTyped, PageTyped
<1>3. ASSUME at[p] \in {"kick", "retainedDel", "mapDel", "mapAdd"}, Finish(p),
             \A i \in Ids : online'[i] \in {0, online[i]}
      PROVE  Aside(p)
  <2>1. OthersStay(p) /\ SameSlice /\ UNCHANGED <<raced, excused>>
    BY <1>3 DEF Finish, End, Go, OthersStay, SameSlice, slice, history, PageTyped,
                BlGood, SliceTyped
  <2>2. ~Editing(p) /\ ~Checking(p) /\ ~Editing(p)' /\ ~Checking(p)'
    BY <1>3 DEF Finish, End, Go, Editing, Checking, PageTyped
  <2>3. /\ hdr' \in [Procs -> Header] /\ pos' \in [Procs -> Nat] /\ fill' \in [Procs -> Nat]
        /\ hdr'[p] = NoHdr
    BY <1>0, <1>3 DEF Finish, End, BlGood, SliceTyped
  <2> QED
    BY <1>3, <2>1, <2>2, <2>3 DEF Aside
<1>4. ASSUME at[p] \in {"trieDel", "trieAdd"}, Go(p, "mapDel") \/ Go(p, "mapAdd"),
             UNCHANGED <<slice, broker, id, hdr, pos, fill, cl, raced, history>>
      PROVE  Aside(p)
  <2>1. OthersStay(p) /\ SameSlice /\ UNCHANGED <<raced, excused>>
    BY <1>4 DEF Go, OthersStay, SameSlice, slice, history, PageTyped
  <2>2. ~Editing(p) /\ ~Checking(p) /\ ~Editing(p)' /\ ~Checking(p)'
    BY <1>4 DEF Go, Editing, Checking, PageTyped
  <2> QED
    BY <1>1, <1>4, <2>1, <2>2 DEF Aside, BlGood, SliceTyped, PageTyped, broker
<1>5. CASE \E i \in Ids : SessionsClear(p, i)
  BY <1>2, <1>5 DEF SessionsClear, broker
<1>6. CASE \E i \in Ids, t \in Topics : ClientSubscribe(p, i, t)
  BY <1>2, <1>6 DEF ClientSubscribe, broker
<1>7. CASE \E i \in Ids, t \in Topics : ClientUnsubscribe(p, i, t)
  BY <1>2, <1>7 DEF ClientUnsubscribe, broker
<1>8. CASE \E t \in Topics : RetainedClear(p, t)
  BY <1>2, <1>8 DEF RetainedClear, broker
<1>9. CASE \E t \in Topics, empty \in BOOLEAN : at[p] = "idle" /\ ToolsPublish(t, empty)
  BY <1>1, <1>9 DEF ToolsPublish, blVars, Aside, OthersStay, SameSlice, Editing, Checking,
                    BlGood, SliceTyped
<1>10. CASE Kick(p)
  BY <1>3, <1>10 DEF Kick, DisconnectClient, PageTyped
<1>11. CASE RetainedDelete(p) \/ SubscriptionsDelete(p) \/ SubscriptionsAdd(p)
  BY <1>3, <1>11 DEF RetainedDelete, SubscriptionsDelete, SubscriptionsAdd, broker
<1>12. CASE TopicsUnsubscribe(p) \/ TopicsSubscribe(p)
  BY <1>4, <1>12 DEF TopicsUnsubscribe, TopicsSubscribe
<1> QED
  BY <1>5, <1>6, <1>7, <1>8, <1>9, <1>10, <1>11, <1>12

LEMMA Stages ==
    ASSUME NEW e \in Procs, Editing(e)
    PROVE  Adding(e) \/ at[e] \in {"lookup", "disconnect"} \/ Removing(e)
BY DEF Editing, Adding, Removing

(* Unless a removal is under way, a visible id is where both words of the  *)
(* header allow to find it.                                                *)
LEMMA ShownNow ==
    ASSUME BlGood, NEW i \in Ids, Visible(i), \A r \in Procs : ~Removing(r)
    PROVE  \E k \in 1..len : k \in 1..Len(arrays[ptr]) /\ arrays[ptr][k] = i
<1>1. arrays[ptr] \in Seq(Elem) /\ len \in Nat /\ i \in wanted
  BY DEF BlGood, SliceTyped, Visible
<1>2. ASSUME NEW n \in 0..len, NEW S, Listed(arrays[ptr], n, S), i \in S
      PROVE  \E k \in 1..len : k \in 1..Len(arrays[ptr]) /\ arrays[ptr][k] = i
  <2>1. PICK k \in 1..n : arrays[ptr][k] = i
    BY <1>2 DEF Listed
  <2>2. k \in 1..len /\ k \in 1..Len(arrays[ptr])
    BY <1>1, <1>2 DEF Listed
  <2> QED
    BY <2>1, <2>2
<1>3. CASE \A p \in Procs : ~Editing(p)
  BY <1>1, <1>2, <1>3 DEF BlGood, ListKept
<1>4. ASSUME NEW e \in Procs, Editing(e), at[e] \in {"lookup", "disconnect"}
      PROVE  \E k \in 1..len : k \in 1..Len(arrays[ptr]) /\ arrays[ptr][k] = i
  <2>1. Listed(arrays[ptr], len, wanted)
    BY <1>4 DEF BlGood, ListKept, StageOK, AddedStage
  <2> QED
    BY <1>1, <1>2, <2>1
<1>5. ASSUME NEW e \in Procs, Editing(e), Adding(e)
      PROVE  \E k \in 1..len : k \in 1..Len(arrays[ptr]) /\ arrays[ptr][k] = i
  <2>1. AddStage(e)
    BY <1>5 DEF BlGood, ListKept, StageOK
  <2>2. Listed(arrays[ptr], hdr[e].len, wanted \ {id[e]}) /\ i \in wanted \ {id[e]}
    BY <1>1, <1>5, <2>1 DEF AddStage, Visible
  <2>3. hdr[e].len \in Nat /\ hdr[e].len <= len
    BY <1>1, <1>5, <2>1 DEF AddStage, Adding, BlGood, SliceTyped, Header
  <2>4. hdr[e].len \in 0..len
    BY <1>1, <2>3
  <2> QED
    BY <1>2, <2>2, <2>4
<1> QED
  BY <1>3, <1>4, <1>5, Stages

(* What a check may do without ending in a session.                        *)
LEMMA ConnectKeeps ==
    ASSUME BlGood, PageTyped, NEW p \in Procs, NEW i \in Ids, Connect(p, i)
    PROVE  BlGood'
<1>1. OthersStay(p) /\ SameSlice
  BY DEF Connect, Go, OthersStay, SameSlice, slice, PageTyped, BlGood, SliceTyped
<1>2. /\ at[p] = "idle" /\ at'[p] = "load" /\ id'[p] = i /\ pos'[p] = 1
      /\ hdr' = hdr /\ hdr[p] = NoHdr /\ online' = online /\ fill' = fill
      /\ pos' = [pos EXCEPT ![p] = 1]
      /\ excused' = (excused \ {p}) \cup {q \in {p} : \E r \in Procs : Removing(r)}
  BY DEF Connect, Go, PageTyped, BlGood, SliceTyped, Editing, Checking, broker
<1>3. ~Editing(p) /\ ~Editing(p)' /\ ~Checking(p) /\ Checking(p)'
  BY <1>2 DEF Editing, Checking
<1>4. OneEditor' /\ ListKept' /\ (\A q \in Procs : Removing(q)' <=> Removing(q))
      /\ (\A j \in Ids : Visible(j)' <=> Visible(j))
  BY <1>1, <1>3, ListStays
<1>5. SliceTyped'
  BY <1>1, <1>2, <1>3 DEF BlGood, SliceTyped, OthersStay, SameSlice, Editing, Checking
<1>6. ChecksKept'
  <2> SUFFICES ASSUME NEW q \in Procs, Checking(q)', q \notin excused'
               PROVE  /\ \A r \in Procs : ~Removing(r)'
                      /\ Visible(id[q])' => \E k \in 1..len' : FindsAt(q, k)'
    BY DEF ChecksKept
  <2>1. CASE q # p
    <3>1. Checking(q) /\ q \notin excused /\ id'[q] = id[q] /\ len' = len
      BY <1>1, <1>2, <2>1 DEF Checking, OthersStay, SameSlice
    <3>2. id[q] \in Ids
      BY <3>1 DEF PageTyped, Checking
    <3>3. Visible(id[q])' <=> Visible(id[q])
      BY <1>4, <3>1, <3>2 DEF Visible
    <3> QED
      BY <1>1, <1>4, <2>1, <3>1, <3>3, SameFinds DEF BlGood, ChecksKept
  <2>2. CASE q = p
    <3>1. \A r \in Procs : ~Removing(r) /\ ~Removing(r)'
      BY <1>2, <1>4, <2>2
    <3>2. Visible(id[p])' <=> Visible(i)
      BY <1>2, <1>4 DEF Visible
    <3>3. ASSUME Visible(i) PROVE \E k \in 1..len' : FindsAt(p, k)'
      <4>1. PICK k \in 1..len : k \in 1..Len(arrays[ptr]) /\ arrays[ptr][k] = i
        BY <3>1, <3>3, ShownNow
      <4>2. FindsAt(p, k)'
        BY <1>1, <1>2, <4>1 DEF FindsAt, SameSlice, NoHdr
      <4> QED
        BY <1>1, <4>2 DEF SameSlice
    <3> QED
      BY <2>2, <3>1, <3>2, <3>3
  <2> QED
    BY <2>1, <2>2
<1>7. SessionsGone'
  <2>1. \A j \in Ids : \A g :
            NoneLeft(j, g) => online'[j] \in {0, g} \/ <<j, online'[j]>> \in excused'
    BY <1>2, IdAssumption DEF NoneLeft, PageTyped
  <2>2. ASSUME NEW j \in settled' PROVE NoneLeft(j, 0)'
    BY <1>1, <2>1 DEF BlGood, SliceTyped, SessionsGone, NoneLeft, SameSlice
  <2>3. ASSUME NEW q \in Procs, at'[q] = "disconnect" PROVE NoneLeft(id[q], cl[q])'
    <3>1. at[q] = "disconnect" /\ id'[q] = id[q] /\ cl'[q] = cl[q]
      BY <1>1, <1>2, <2>3 DEF OthersStay
    <3>2. id[q] \in Ids /\ NoneLeft(id[q], cl[q])
      BY <3>1 DEF PageTyped, BlGood, SessionsGone
    <3> QED
      BY <2>1, <3>1, <3>2 DEF NoneLeft
  <2> QED
    BY <2>2, <2>3 DEF SessionsGone
<1> QED
  BY <1>4, <1>5, <1>6, <1>7 DEF BlGood

(* The steps of a check between its first and its last.                    *)
LEMMA CheckFrame ==
    ASSUME BlGood, PageTyped, NEW p \in Procs, OthersStay(p), SameSlice,
           UNCHANGED <<online, excused>>, Checking(p), ~Editing(p)', SliceTyped',
           Checking(p)' => id'[p] = id[p],
           \A k \in 1..len : Checking(p)' /\ FindsAt(p, k) => FindsAt(p, k)'
    PROVE  BlGood'
<1>1. ~Editing(p)
  BY DEF Editing, Checking
<1>2. OneEditor' /\ ListKept' /\ (\A q \in Procs : Removing(q)' <=> Removing(q))
      /\ (\A j \in Ids : Visible(j)' <=> Visible(j))
  BY <1>1, ListStays
<1>3. ChecksKept'
  <2> SUFFICES ASSUME NEW q \in Procs, Checking(q)', q \notin excused'
               PROVE  /\ \A r \in Procs : ~Removing(r)'
                      /\ Visible(id[q])' => \E k \in 1..len' : FindsAt(q, k)'
    BY DEF ChecksKept
  <2>1. Checking(q) /\ q \notin excused /\ id'[q] = id[q] /\ len' = len
    BY DEF Checking, OthersStay, SameSlice
  <2>2. id[q] \in Ids
    BY <2>1 DEF PageTyped, Checking
  <2>3. Visible(id[q])' <=> Visible(id[q])
    BY <1>2, <2>1, <2>2 DEF Visible
  <2>4. \A k \in 1..len : FindsAt(q, k) => FindsAt(q, k)'
    BY SameFinds
  <2> QED
    BY <1>2, <2>1, <2>3, <2>4 DEF BlGood, ChecksKept
<1>4. SessionsGone'
  <2>1. \A q \in Procs : at'[q] = "disconnect" =>
            q # p /\ at[q] = "disconnect" /\ id'[q] = id[q] /\ cl'[q] = cl[q]
    BY DEF OthersStay, Editing
  <2> QED
    BY <2>1 DEF BlGood, SessionsGone, NoneLeft, SameSlice
<1> QED
  BY <1>2, <1>3, <1>4 DEF BlGood

LEMMA LoadKeeps ==
    ASSUME BlGood, PageTyped, NEW p \in Procs, LoadWord(p)
    PROVE  BlGood'
<1>1. /\ at[p] = "load"
      /\ at' = at \/ at' = [at EXCEPT ![p] = "scan"]
      /\ UNCHANGED <<arrays, ptr, len, online, id, pos, fill, cl, wanted, settled, excused>>
      /\ \/ /\ hdr[p].ptr = 0 /\ hdr' = [hdr EXCEPT ![p].ptr = ptr]
            /\ at' # at => hdr[p].seenLen
         \/ /\ ~hdr[p].seenLen
            /\ hdr' = [hdr EXCEPT ![p].len = len, ![p].seenLen = TRUE]
            /\ at' # at => hdr[p].ptr # 0
  BY DEF LoadWord, Go, slice, broker, history
<1>2. hdr \in [Procs -> Header] /\ hdr[p] \in Header /\ ptr \in Nat /\ ptr # 0 /\ len \in Nat
      /\ arrays \in Seq(Seq(Elem)) /\ ptr \in 1..Len(arrays)
  BY DEF BlGood, SliceTyped
<1>3. /\ hdr' \in [Procs -> Header]
      /\ \A q \in Procs \ {p} : hdr'[q] = hdr[q]
      /\ hdr'[p] = [hdr[p] EXCEPT !.ptr = ptr]
         \/ hdr'[p] = [hdr[p] EXCEPT !.len = len, !.seenLen = TRUE]
  <2>1. /\ [hdr[p] EXCEPT !.ptr = ptr] \in Header
        /\ [hdr[p] EXCEPT !.len = len, !.seenLen = TRUE] \in Header
    BY <1>2 DEF Header
  <2>2. \/ hdr' = [hdr EXCEPT ![p] = [hdr[p] EXCEPT !.ptr = ptr]]
        \/ hdr' = [hdr EXCEPT ![p] = [hdr[p] EXCEPT !.len = len, !.seenLen = TRUE]]
    BY <1>1, <1>2
  <2> QED
    BY <1>2, <2>1, <2>2
<1>4. /\ at'[p] \in {"load", "scan"}
      /\ \/ /\ hdr[p].ptr = 0 /\ hdr'[p].ptr = ptr
            /\ hdr'[p].len = hdr[p].len /\ hdr'[p].seenLen = hdr[p].seenLen
            /\ at'[p] = "scan" => hdr[p].seenLen
         \/ /\ ~hdr[p].seenLen /\ hdr'[p].ptr = hdr[p].ptr
            /\ hdr'[p].len = len /\ hdr'[p].seenLen
            /\ at'[p] = "scan" => hdr[p].ptr # 0
  BY <1>1, <1>2 DEF Header, PageTyped
<1>5. OthersStay(p) /\ SameSlice /\ UNCHANGED <<online, excused>>
  BY <1>1, <1>3 DEF OthersStay, SameSlice, PageTyped
<1>6. Checking(p) /\ ~Editing(p)' /\ Checking(p)' /\ id' = id
  BY <1>1, <1>4 DEF Checking, Editing
<1>7. SliceTyped'
  BY <1>1, <1>3, <1>5, <1>6 DEF BlGood, SliceTyped, OthersStay, Editing, Checking
<1>8. ASSUME NEW k \in 1..len, FindsAt(p, k) PROVE FindsAt(p, k)'
  BY <1>1, <1>2, <1>4, <1>8 DEF FindsAt
<1> QED
  BY <1>5, <1>6, <1>7, <1>8, CheckFrame

LEMMA ScanKeeps ==
    ASSUME BlGood, PageTyped, NEW p \in Procs, Scan(p)
    PROVE  BlGood'
<1> DEFINE a == arrays[hdr[p].ptr]
<1>1. /\ at[p] = "scan"
      /\ UNCHANGED <<arrays, ptr, len, online, wanted, settled, excused>>
      /\ \/ /\ pos[p] > hdr[p].len /\ at' = [at EXCEPT ![p] = "admit"]
            /\ UNCHANGED <<id, hdr, pos, fill, cl>>
         \/ End(p)
         \/ /\ pos[p] <= hdr[p].len /\ Slot(a, pos[p]) # id[p]
            /\ pos' = [pos EXCEPT ![p] = pos[p] + 1]
            /\ UNCHANGED <<at, id, hdr, fill, cl>>
  BY DEF Scan, Go, slice, broker, history
<1>2. NoHdr \in Header
  BY DEF NoHdr, Header
<1>3. pos[p] \in Nat /\ hdr[p].len \in Nat
  BY DEF BlGood, SliceTyped, Header
<1>4. Checking(p)
  BY <1>1 DEF Checking
<1>5. CASE End(p)
  <2>1. OthersStay(p) /\ SameSlice /\ UNCHANGED <<online, excused>>
    BY <1>1, <1>5 DEF End, Go, OthersStay, SameSlice, PageTyped, BlGood, SliceTyped
  <2>2. ~Editing(p)' /\ ~Checking(p)' /\ hdr'[p] = NoHdr
    BY <1>5 DEF End, Go, Checking, Editing, PageTyped, BlGood, SliceTyped
  <2>3. SliceTyped'
    <3>1. hdr' \in [Procs -> Header] /\ pos' \in [Procs -> Nat] /\ fill' \in [Procs -> Nat]
      BY <1>2, <1>5 DEF End, BlGood, SliceTyped
    <3> QED
      BY <1>1, <2>1, <2>2, <3>1 DEF BlGood, SliceTyped, OthersStay, Editing, Checking
  <2> QED
    BY <1>4, <2>1, <2>2, <2>3, CheckFrame
<1>6. CASE /\ pos[p] > hdr[p].len /\ at' = [at EXCEPT ![p] = "admit"]
           /\ UNCHANGED <<id, hdr, pos, fill, cl>>
  <2>1. OthersStay(p) /\ SameSlice /\ UNCHANGED <<online, excused>>
    BY <1>1, <1>6 DEF OthersStay, SameSlice, PageTyped
  <2>2. ~Editing(p)' /\ Checking(p)'
    BY <1>6 DEF Checking, Editing, PageTyped
  <2>3. SliceTyped'
    BY <1>1, <1>6, <2>1, <2>2 DEF BlGood, SliceTyped, OthersStay, Editing, Checking
  <2>4. \A k \in 1..len : ~FindsAt(p, k)
    BY <1>1, <1>3, <1>6 DEF FindsAt
  <2> QED
    BY <1>4, <1>6, <2>1, <2>2, <2>3, <2>4, CheckFrame
<1>7. CASE /\ pos[p] <= hdr[p].len /\ Slot(a, pos[p]) # id[p]
           /\ pos' = [pos EXCEPT ![p] = pos[p] + 1]
           /\ UNCHANGED <<at, id, hdr, fill, cl>>
  <2>1. OthersStay(p) /\ SameSlice /\ UNCHANGED <<online, excused>>
    BY <1>1, <1>7 DEF OthersStay, SameSlice, BlGood, SliceTyped
  <2>2. ~Editing(p)' /\ Checking(p)' /\ pos'[p] = pos[p] + 1
    BY <1>1, <1>7 DEF Checking, Editing, BlGood, SliceTyped
  <2>3. SliceTyped'
    BY <1>1, <1>3, <1>7, <2>1, <2>2 DEF BlGood, SliceTyped, OthersStay, Editing, Checking
  <2>4. ASSUME NEW k \in 1..len, FindsAt(p, k) PROVE FindsAt(p, k)'
    <3>1. a \in Seq(Elem) /\ k \in 1..Len(a) /\ a[k] = id[p]
      BY <1>1, <2>4 DEF FindsAt, BlGood, SliceTyped
    <3>2. pos[p] # k
      BY <1>7, <3>1 DEF Slot
    <3>3. pos[p] + 1 <= k
      BY <1>3, <2>4, <3>2 DEF FindsAt
    <3> QED
      BY <1>1, <1>7, <2>2, <2>4, <3>3 DEF FindsAt
  <2> QED
    BY <1>4, <1>7, <2>1, <2>2, <2>3, <2>4, CheckFrame
<1> QED
  BY <1>1, <1>5, <1>6, <1>7

(* A session begins: it is excused, or nobody has listed its id.           *)
LEMMA AdmitKeeps ==
    ASSUME BlGood, PageTyped, NEW p \in Procs, Admit(p)
    PROVE  BlGood'
<1> DEFINE i == id[p]
           g == gens[i] + 1
<1>1. /\ at[p] = "admit" /\ online' = [online EXCEPT ![i] = g]
      /\ excused' = (excused \ {p}) \cup {s \in {<<i, g>>} : p \in excused}
      /\ at' = [at EXCEPT ![p] = "idle"] /\ id' = [id EXCEPT ![p] = NoId]
      /\ hdr' = [hdr EXCEPT ![p] = NoHdr] /\ pos' = [pos EXCEPT ![p] = 0]
      /\ fill' = [fill EXCEPT ![p] = 0] /\ cl' = [cl EXCEPT ![p] = 0]
      /\ UNCHANGED <<arrays, ptr, len, wanted, settled>>
  BY DEF Admit, End, Go, slice
<1>2. i \in Ids /\ g \in Nat
  <2>1. i \in Ids
    BY <1>1 DEF PageTyped
  <2>2. gens[i] \in Nat
    BY <2>1 DEF PageTyped
  <2> QED
    BY <2>1, <2>2
<1> HIDE DEF g
<1>3. OthersStay(p) /\ SameSlice
  BY <1>1 DEF OthersStay, SameSlice, PageTyped, BlGood, SliceTyped
<1>4. at'[p] = "idle" /\ hdr'[p] = NoHdr
  BY <1>1 DEF PageTyped, BlGood, SliceTyped
<1>5. ~Editing(p) /\ ~Editing(p)' /\ Checking(p) /\ ~Checking(p)'
  BY <1>1, <1>4 DEF Editing, Checking
<1>6. OneEditor' /\ ListKept' /\ (\A q \in Procs : Removing(q)' <=> Removing(q))
      /\ (\A j \in Ids : Visible(j)' <=> Visible(j))
  BY <1>3, <1>5, ListStays
<1>7. SliceTyped'
  <2>1. NoHdr \in Header
    BY DEF NoHdr, Header
  <2>2. hdr' \in [Procs -> Header] /\ pos' \in [Procs -> Nat] /\ fill' \in [Procs -> Nat]
    BY <1>1, <2>1 DEF BlGood, SliceTyped
  <2> QED
    BY <1>1, <1>3, <1>4, <2>2 DEF BlGood, SliceTyped, OthersStay, Editing, Checking
<1>8. ChecksKept'
  <2> SUFFICES ASSUME NEW q \in Procs, Checking(q)', q \notin excused'
               PROVE  /\ \A r \in Procs : ~Removing(r)'
                      /\ Visible(id[q])' => \E k \in 1..len' : FindsAt(q, k)'
    BY DEF ChecksKept
  <2>1. q # p /\ Checking(q) /\ q \notin excused /\ id'[q] = id[q] /\ len' = len
    BY <1>1, <1>3, <1>5 DEF Checking, OthersStay, SameSlice
  <2>2. id[q] \in Ids
    BY <2>1 DEF PageTyped, Checking
  <2>3. Visible(id[q])' <=> Visible(id[q])
    BY <1>6, <2>1, <2>2 DEF Visible
  <2> QED
    BY <1>3, <1>6, <2>1, <2>3, SameFinds DEF BlGood, ChecksKept
<1>9. Visible(i) => <<i, g>> \in excused'
  <2>1. Visible(i) /\ p \notin excused => \E k \in 1..len : FindsAt(p, k)
    BY <1>5 DEF BlGood, ChecksKept
  <2>2. Visible(i) => p \in excused
    BY <1>1, <2>1 DEF FindsAt
  <2> QED
    BY <1>1, <2>2
<1>10. ASSUME NEW j \in Ids, NEW c, NoneLeft(j, c), Visible(j)
       PROVE  online'[j] \in {0, c} \/ <<j, online'[j]>> \in excused'
  <2>1. CASE j = i
    BY <1>1, <1>2, <1>9, <1>10, <2>1 DEF PageTyped
  <2>2. CASE j # i
    <3>1. online'[j] = online[j] /\ <<j, online[j]>> \notin Procs
      BY <1>1, <2>2, IdAssumption DEF PageTyped
    <3> QED
      BY <1>1, <1>10, <3>1 DEF NoneLeft
  <2> QED
    BY <2>1, <2>2
<1>11. SessionsGone'
  <2>1. ASSUME NEW j \in settled' PROVE NoneLeft(j, 0)'
    <3>1. j \in settled /\ j \in Ids /\ NoneLeft(j, 0) /\ j \in wanted
      BY <1>3 DEF BlGood, SliceTyped, SessionsGone, SameSlice
    <3>2. \A e \in Procs : Adding(e) => id[e] # j
      BY <3>1 DEF BlGood, ListKept, StageOK, AddStage, Adding, Editing
    <3> QED
      BY <1>10, <3>1, <3>2 DEF Visible, NoneLeft
  <2>2. ASSUME NEW q \in Procs, at'[q] = "disconnect" PROVE NoneLeft(id[q], cl[q])'
    <3>1. at[q] = "disconnect" /\ id'[q] = id[q] /\ cl'[q] = cl[q]
      BY <1>3, <1>4, <2>2 DEF OthersStay
    <3>2. id[q] \in Ids /\ NoneLeft(id[q], cl[q])
      BY <3>1 DEF PageTyped, BlGood, SessionsGone
    <3>3. Editing(q) /\ ~Adding(q)
      BY <3>1 DEF Editing, Adding
    <3>4. id[q] \in wanted
      BY <3>1, <3>3 DEF BlGood, ListKept, StageOK, AddedStage
    <3>5. \A e \in Procs : Adding(e) => e = q
      BY <3>3 DEF BlGood, OneEditor, Adding, Editing
    <3>6. Visible(id[q])
      BY <3>3, <3>4, <3>5 DEF Visible
    <3> QED
      BY <1>10, <3>1, <3>2, <3>6 DEF NoneLeft
  <2> QED
    BY <2>1, <2>2 DEF SessionsGone
<1> QED
  BY <1>6, <1>7, <1>8, <1>11 DEF BlGood

(* The one request that changes the slice.                                 *)
LEMMA EditFrame ==
    ASSUME BlGood, NEW p \in Procs, OthersStay(p),
           Editing(p) \/ \A q \in Procs : ~Editing(q),
           Editing(p)' => StageOK(p)',
           ~Editing(p)' => Listed(arrays[ptr], len, wanted)'
    PROVE  OneEditor' /\ ListKept'
<1>1. \A q \in Procs : Editing(q)' => q = p
  BY DEF BlGood, OneEditor, OthersStay, Editing
<1> QED
  BY <1>1 DEF OneEditor, ListKept

(* Slot k of every array, and its place in the list, survive the step.     *)
SlotStays(k) ==
    /\ k \in 1..len' /\ k \in 1..Len(arrays'[ptr']) /\ arrays'[ptr'][k] = arrays[ptr][k]
    /\ \A m \in 1..Len(arrays) :
          /\ m \in 1..Len(arrays')
          /\ k \in 1..Len(arrays[m]) =>
                k \in 1..Len(arrays'[m]) /\ arrays'[m][k] = arrays[m][k]

(* Checks go on beside an addition.                                        *)
LEMMA ChecksBeside ==
    ASSUME BlGood, NEW p \in Procs, OthersStay(p), ~Checking(p)',
           \A r \in Procs : ~Removing(r)', excused \subseteq excused',
           \A q \in Procs : Checking(q) /\ q \notin excused' /\ Visible(id[q])' =>
                                Visible(id[q]),
           \A k \in 1..len : k \in 1..Len(arrays[ptr]) => SlotStays(k)
    PROVE  ChecksKept'
<1> SUFFICES ASSUME NEW q \in Procs, Checking(q)', q \notin excused', Visible(id[q])'
             PROVE  \E k \in 1..len' : FindsAt(q, k)'
  BY DEF ChecksKept
<1>1. q # p /\ Checking(q) /\ q \notin excused /\ at'[q] = at[q] /\ id'[q] = id[q]
      /\ hdr'[q] = hdr[q] /\ pos'[q] = pos[q]
  BY DEF Checking, OthersStay
<1>2. Visible(id[q])
  BY <1>1
<1>3. PICK k \in 1..len : FindsAt(q, k)
  BY <1>1, <1>2 DEF BlGood, ChecksKept
<1>4. SlotStays(k)
  BY <1>3 DEF FindsAt
<1>5. FindsAt(q, k)'
  BY <1>1, <1>3, <1>4 DEF FindsAt, SlotStays
<1> QED
  BY <1>4, <1>5 DEF SlotStays

LEMMA SessionsBeside ==
    ASSUME BlGood, NEW p \in Procs, OthersStay(p), at'[p] # "disconnect",
           UNCHANGED online, excused \subseteq excused', settled' \subseteq settled
    PROVE  SessionsGone'
<1>1. \A q \in Procs : at'[q] = "disconnect" =>
          at[q] = "disconnect" /\ id'[q] = id[q] /\ cl'[q] = cl[q]
  BY DEF OthersStay
<1> QED
  BY <1>1 DEF BlGood, SessionsGone, NoneLeft

LEMMA ArrayPut ==
    ASSUME arrays \in Seq(Seq(Elem)), NEW m \in 1..Len(arrays), NEW b \in Seq(Elem),
           arrays' = [arrays EXCEPT ![m] = b]
    PROVE  /\ arrays' \in Seq(Seq(Elem)) /\ Len(arrays') = Len(arrays)
           /\ arrays'[m] = b
           /\ \A o \in 1..Len(arrays) : o # m => arrays'[o] = arrays[o]
<1>1. arrays' \in Seq(Seq(Elem)) /\ Len(arrays') = Len(arrays)
  BY SlotPut
<1> QED
  BY <1>1

(* The list as the request sees it when it begins.                         *)
LEMMA Entered ==
    ASSUME BlGood, PageTyped, NEW p \in Procs, NEW i \in Ids, at[p] = "idle",
           id' = [id EXCEPT ![p] = i], Enters(p), ~raced'
    PROVE  /\ \A q \in Procs : ~Editing(q)
           /\ Listed(arrays[ptr], len, wanted)
           /\ hdr' \in [Procs -> Header] /\ \A q \in Procs \ {p} : hdr'[q] = hdr[q]
           /\ hdr'[p].ptr = ptr /\ hdr'[p].len = len
           /\ id'[p] = i /\ \A q \in Procs \ {p} : id'[q] = id[q]
           /\ List = [k \in 1..len |-> List[k]]
           /\ \A k \in 1..len : List[k] = arrays[ptr][k]
<1>1. \A q \in Procs : ~Editing(q)
  BY DEF Enters, Editing
<1>2. Listed(arrays[ptr], len, wanted)
  BY <1>1 DEF BlGood, ListKept
<1> DEFINE h == [ptr |-> ptr, len |-> len, seenLen |-> TRUE]
<1>3. h \in Header /\ h.ptr = ptr /\ h.len = len
  BY DEF BlGood, SliceTyped, Header
<1> HIDE DEF h
<1>4. hdr' = [hdr EXCEPT ![p] = h]
  BY DEF Enters, h
<1>5. hdr' \in [Procs -> Header] /\ (\A q \in Procs \ {p} : hdr'[q] = hdr[q]) /\ hdr'[p] = h
  BY <1>3, <1>4 DEF BlGood, SliceTyped
<1>6. id'[p] = i /\ \A q \in Procs \ {p} : id'[q] = id[q]
  BY DEF PageTyped
<1>7. List = [k \in 1..len |-> List[k]]
  BY DEF List
<1>8. \A k \in 1..len : List[k] = arrays[ptr][k]
  <2>1. arrays[ptr] \in Seq(Elem)
    BY DEF BlGood, SliceTyped
  <2>2. \A k \in 1..len : k \in DOMAIN arrays[ptr]
    BY <1>2, <2>1 DEF Listed
  <2> QED
    BY <2>2 DEF List, Slot
<1> QED
  BY <1>1, <1>2, <1>3, <1>5, <1>6, <1>7, <1>8

LEMMA AddBegins ==
    ASSUME BlGood, PageTyped, NEW p \in Procs, NEW i \in Ids, BlacklistAdd(p, i), ~raced'
    PROVE  BlGood'
<1> DEFINE l == IF i \in Range(List) THEN "lookup" ELSE "append"
           a == arrays[ptr]
<1>1. /\ at[p] = "idle" /\ id' = [id EXCEPT ![p] = i] /\ Enters(p)
      /\ at' = [at EXCEPT ![p] = l] /\ wanted' = wanted \cup {i}
      /\ UNCHANGED <<arrays, ptr, len, online, pos, fill, cl, settled, excused>>
  BY DEF BlacklistAdd, Go, slice, broker
<1>2. /\ \A q \in Procs : ~Editing(q)
      /\ Listed(a, len, wanted)
      /\ hdr' \in [Procs -> Header] /\ \A q \in Procs \ {p} : hdr'[q] = hdr[q]
      /\ hdr'[p].ptr = ptr /\ hdr'[p].len = len
      /\ id'[p] = i /\ \A q \in Procs \ {p} : id'[q] = id[q]
      /\ List = [k \in 1..len |-> List[k]]
      /\ \A k \in 1..len : List[k] = a[k]
  BY <1>1, Entered
<1>3. OthersStay(p) /\ at'[p] = l
  BY <1>1, <1>2 DEF OthersStay, PageTyped
<1>4. i \in Range(List) <=> i \in wanted
  <2>1. Range(List) = {List[k] : k \in 1..len}
    BY <1>2 DEF Range
  <2> QED
    BY <1>2, <2>1 DEF Listed
<1>5. IF i \in wanted THEN at'[p] = "lookup" /\ wanted' = wanted
                      ELSE at'[p] = "append" /\ wanted' \ {i} = wanted
  BY <1>1, <1>3, <1>4
<1> HIDE DEF l
<1>6. Editing(p)' /\ ~Checking(p)' /\ ~Removing(p)' /\ at'[p] # "disconnect"
  BY <1>5 DEF Editing, Checking, Removing
<1>7. SliceTyped'
  BY <1>1, <1>2, <1>3, <1>6 DEF BlGood, SliceTyped, OthersStay, Editing, Checking
<1>8. StageOK(p)'
  <2>1. AddStage(p)'
    <3>1. Adding(p)' => at'[p] = "append" /\ i \notin wanted /\ i \in wanted'
      BY <1>1, <1>5 DEF Adding
    <3>2. i \notin wanted => i \notin settled' /\ Listed(a, len, wanted' \ {i})
      BY <1>1, <1>2, <1>5 DEF BlGood, SliceTyped
    <3>3. at'[p] \notin {"storePtr", "storeLen"}
      BY <1>5
    <3> QED
      BY <1>1, <1>2, <3>1, <3>2, <3>3 DEF AddStage, Listed
  <2>2. AddedStage(p)'
    BY <1>1, <1>2, <1>5 DEF AddedStage, Listed
  <2>3. RemoveStage(p)'
    BY <1>5 DEF RemoveStage, Removing
  <2> QED
    BY <2>1, <2>2, <2>3 DEF StageOK
<1>9. OneEditor' /\ ListKept'
  BY <1>2, <1>3, <1>6, <1>8, EditFrame
<1>10. ChecksKept'
  <2>1. \A r \in Procs : ~Removing(r)'
    BY <1>2, <1>3, <1>6 DEF OthersStay, Removing, Editing
  <2>2. ASSUME NEW q \in Procs, Checking(q), Visible(id[q])' PROVE Visible(id[q])
    <3>1. q # p
      BY <1>1, <2>2 DEF Checking
    <3>2. id'[q] = id[q]
      BY <1>2, <3>1
    <3>3. id[q] \in wanted
      BY <1>2, <1>5, <2>2, <3>2 DEF Visible, Adding
    <3>4. \A r \in Procs : ~Adding(r)
      BY <1>2 DEF Adding, Editing
    <3> QED
      BY <3>3, <3>4 DEF Visible
  <2>3. \A k \in 1..len : k \in 1..Len(arrays[ptr]) => SlotStays(k)
    BY <1>1 DEF SlotStays
  <2> QED
    BY <1>1, <1>3, <1>6, <2>1, <2>2, <2>3, ChecksBeside
<1>11. SessionsGone'
  BY <1>1, <1>3, <1>6, SessionsBeside
<1> QED
  BY <1>7, <1>9, <1>10, <1>11 DEF BlGood

LEMMA AppendKeeps ==
    ASSUME BlGood, PageTyped, NEW p \in Procs, Append1(p)
    PROVE  BlGood'
<1> DEFINE h == hdr[p]
           a == arrays[ptr]
           i == id[p]
           new == [k \in 1..Grown(h.len) |-> CASE k <= h.len -> Slot(a, k)
                                                [] k = h.len + 1 -> i
                                                [] OTHER -> Blank]
<1>1. at[p] = "append" /\ Editing(p) /\ ~Checking(p) /\ Adding(p)
  BY DEF Append1, Editing, Checking, Adding
<1>2. /\ h \in Header /\ h.ptr = ptr /\ h.len = len /\ i \in Ids
      /\ Listed(a, len, wanted \ {i}) /\ i \in wanted /\ i \notin settled
  BY <1>1 DEF BlGood, SliceTyped, ListKept, StageOK, AddStage, PageTyped
<1>3. /\ arrays \in Seq(Seq(Elem)) /\ ptr \in 1..Len(arrays) /\ a \in Seq(Elem)
      /\ len \in 0..Len(a) /\ Len(a) \in Nat /\ i \in Elem
  BY <1>2 DEF BlGood, SliceTyped, Listed, Elem
<1>4. /\ \/ /\ len < Len(a)
            /\ arrays' = [arrays EXCEPT ![ptr] = [a EXCEPT ![len + 1] = i]]
            /\ at' = [at EXCEPT ![p] = "storeLen"]
            /\ hdr' = hdr
         \/ /\ len >= Len(a)
            /\ arrays' = Append(arrays, new)
            /\ hdr' = [hdr EXCEPT ![p].ptr = Len(arrays) + 1]
            /\ at' = [at EXCEPT ![p] = "storePtr"]
      /\ UNCHANGED <<ptr, len, online, id, pos, fill, cl, wanted, settled, excused>>
  BY <1>2 DEF Append1, Go, broker, history
<1>5. /\ hdr' \in [Procs -> Header]
      /\ \A q \in Procs \ {p} : hdr'[q] = hdr[q]
      /\ hdr'[p].len = len
      /\ hdr'[p].ptr = IF len < Len(a) THEN ptr ELSE Len(arrays) + 1
  <2>1. CASE len < Len(a)
    BY <1>2, <1>3, <1>4, <2>1 DEF BlGood, SliceTyped
  <2>2. CASE ~(len < Len(a))
    <3>1. hdr' = [hdr EXCEPT ![p] = [h EXCEPT !.ptr = Len(arrays) + 1]]
      BY <1>3, <1>4, <2>2
    <3>2. /\ [h EXCEPT !.ptr = Len(arrays) + 1] \in Header
          /\ [h EXCEPT !.ptr = Len(arrays) + 1].ptr = Len(arrays) + 1
          /\ [h EXCEPT !.ptr = Len(arrays) + 1].len = len
      <4>1. Len(arrays) + 1 \in Nat
        BY <1>3
      <4> DEFINE n == Len(arrays) + 1
      <4> HIDE DEF n, h
      <4>2. [h EXCEPT !.ptr = n] \in Header /\ [h EXCEPT !.ptr = n].ptr = n
            /\ [h EXCEPT !.ptr = n].len = len
        BY <1>2, <4>1 DEF Header, n
      <4> QED
        BY <4>2 DEF n
    <3> QED
      BY <2>2, <3>1, <3>2 DEF BlGood, SliceTyped
  <2> QED
    BY <2>1, <2>2
<1>6. OthersStay(p) /\ at'[p] = (IF len < Len(a) THEN "storeLen" ELSE "storePtr")
  BY <1>3, <1>4, <1>5 DEF OthersStay, PageTyped
<1>7. Editing(p)' /\ ~Checking(p)' /\ ~Removing(p)' /\ at'[p] # "disconnect" /\ Adding(p)'
  BY <1>6 DEF Editing, Checking, Removing, Adding
<1>8. /\ arrays' \in Seq(Seq(Elem)) /\ Len(arrays) <= Len(arrays')
      /\ Len(a) <= Len(arrays'[ptr])
      /\ \A k \in 1..len : arrays'[ptr][k] = a[k]
      /\ \A m \in 1..Len(arrays) : m # ptr => arrays'[m] = arrays[m]
      /\ IF len < Len(a)
         THEN arrays'[ptr][len + 1] = i
         ELSE /\ arrays'[ptr] = a /\ Len(arrays') = Len(arrays) + 1
              /\ len < Len(arrays'[Len(arrays) + 1])
              /\ arrays'[Len(arrays) + 1][len + 1] = i
              /\ \A k \in 1..len : arrays'[Len(arrays) + 1][k] = a[k]
  <2>1. CASE len < Len(a)
    <3> DEFINE b == [a EXCEPT ![len + 1] = i]
    <3>1. b \in Seq(Elem) /\ Len(b) = Len(a)
      <4>1. len + 1 \in 1..Len(a)
        BY <1>3, <2>1
      <4> QED
        BY <1>3, <4>1, ExceptSeq
    <3>2. b[len + 1] = i /\ \A k \in 1..len : b[k] = a[k]
      BY <1>3, <2>1
    <3> HIDE DEF b
    <3>3. arrays' = [arrays EXCEPT ![ptr] = b]
      BY <1>4, <2>1, <1>3 DEF b
    <3>4. /\ arrays' \in Seq(Seq(Elem)) /\ Len(arrays') = Len(arrays)
          /\ arrays'[ptr] = b
          /\ \A o \in 1..Len(arrays) : o # ptr => arrays'[o] = arrays[o]
      BY <1>3, <3>1, <3>3, ArrayPut
    <3>5. Len(arrays) <= Len(arrays')
      BY <1>3, <3>4
    <3>6. /\ Len(a) <= Len(arrays'[ptr])
          /\ \A k \in 1..len : arrays'[ptr][k] = a[k]
          /\ arrays'[ptr][len + 1] = i
      <4>1. Len(a) <= Len(b)
        BY <1>3, <3>1
      <4> HIDE DEF a, i
      <4> QED
        BY <3>2, <3>4, <4>1
    <3> HIDE DEF a, i, new
    <3> QED
      BY <2>1, <3>4, <3>5, <3>6
  <2>2. CASE ~(len < Len(a))
    <3>1. len = Len(a) /\ Grown(len) \in Nat /\ len + 1 \in 1..Grown(len)
      BY <1>3, <2>2 DEF Grown
    <3>2. \A k \in 1..Grown(len) : new[k] \in Elem
      BY <1>2, <1>3, <3>1 DEF Slot, Elem
    <3>3. new \in Seq(Elem) /\ Len(new) = Grown(len)
      <4>1. new = [k \in 1..Grown(len) |-> new[k]]
        BY <1>2
      <4> HIDE DEF new
      <4> QED
        BY <3>1, <3>2, <4>1
    <3>4. new[len + 1] = i
      BY <1>2, <1>3, <3>1
    <3>5. \A k \in 1..len : new[k] = a[k]
      <4> SUFFICES ASSUME NEW k \in 1..len PROVE new[k] = a[k]
        OBVIOUS
      <4>1. k \in 1..Grown(len) /\ k <= h.len /\ k \in DOMAIN a
        BY <1>2, <1>3, <3>1
      <4> DEFINE G == Grown(len)
                 L == h.len
                 s == Slot(a, k)
      <4>2. s = a[k]
        BY <4>1 DEF Slot
      <4>3. new[k] = s
        <5>1. k \in 1..G /\ k <= L /\ G = Grown(L)
          BY <1>2, <4>1
        <5>2. new[k] = CASE k <= L -> s [] k = L + 1 -> i [] OTHER -> Blank
          BY <1>2, <5>1
        <5>3. k <= L /\ k # L + 1
          BY <1>2, <1>3, <5>1
        <5> HIDE DEF new, L, s, i
        <5> QED
          BY <5>2, <5>3
      <4> QED
        BY <4>2, <4>3
    <3> HIDE DEF new
    <3>6. arrays' = Append(arrays, new)
      BY <1>3, <1>4, <2>2
    <3>7. /\ arrays' \in Seq(Seq(Elem)) /\ Len(arrays') = Len(arrays) + 1
          /\ arrays'[Len(arrays) + 1] = new
          /\ \A m \in 1..Len(arrays) : arrays'[m] = arrays[m]
      BY <1>3, <3>3, <3>6
    <3>8. /\ Len(arrays) <= Len(arrays') /\ arrays'[ptr] = a
          /\ Len(a) <= Len(arrays'[ptr])
      BY <1>3, <3>7
    <3>9. len < Len(new)
      BY <1>3, <3>1, <3>3
    <3> HIDE DEF a, i
    <3> QED
      BY <2>2, <3>4, <3>5, <3>7, <3>8, <3>9
  <2> QED
    BY <2>1, <2>2
<1> HIDE DEF new
<1>9. SliceTyped'
  <2>1. \A q \in Procs : ~Editing(q)' /\ ~Checking(q)' => hdr'[q] = NoHdr
    BY <1>6, <1>7 DEF BlGood, SliceTyped, OthersStay, Editing, Checking
  <2>2. ptr' \in 1..Len(arrays') /\ arrays' \in Seq(Seq(Elem))
    BY <1>3, <1>4, <1>8
  <2> QED
    BY <1>4, <1>5, <2>1, <2>2 DEF BlGood, SliceTyped
<1>10. StageOK(p)'
  <2>1. arrays'[ptr] \in Seq(Elem) /\ Listed(arrays'[ptr], len, wanted \ {i})
    <3>1. arrays'[ptr] \in Seq(Elem) /\ len <= Len(arrays'[ptr])
      BY <1>3, <1>8
    <3> QED
      BY <1>2, <1>3, <1>8, <3>1, ListCopied
  <2>2. AddStage(p)'
    <3>1. CASE len < Len(a)
      <4>1. at'[p] = "storeLen" /\ hdr'[p].ptr = ptr /\ hdr'[p].len = len
            /\ len < Len(arrays'[ptr]) /\ arrays'[ptr][len + 1] = i
        BY <1>3, <1>5, <1>6, <1>8, <2>1, <3>1
      <4> QED
        BY <1>2, <1>4, <2>1, <4>1 DEF AddStage, Listed
    <3>2. CASE ~(len < Len(a))
      <4>1. /\ at'[p] = "storePtr" /\ hdr'[p].ptr = Len(arrays) + 1 /\ hdr'[p].len = len
            /\ hdr'[p].ptr \in 1..Len(arrays') /\ len = Len(arrays'[ptr])
        BY <1>3, <1>5, <1>6, <1>8, <3>2
      <4> QED
        BY <1>2, <1>4, <1>8, <2>1, <3>2, <4>1 DEF AddStage, Listed
    <3> QED
      BY <3>1, <3>2
  <2>3. AddedStage(p)' /\ RemoveStage(p)'
    BY <1>6 DEF AddedStage, RemoveStage, Removing
  <2> QED
    BY <2>2, <2>3 DEF StageOK
<1>11. OneEditor' /\ ListKept'
  BY <1>1, <1>6, <1>7, <1>10, EditFrame
<1>12. ChecksKept'
  <2>1. \A r \in Procs : ~Removing(r)' /\ (Adding(r)' <=> Adding(r))
    BY <1>1, <1>6, <1>7 DEF BlGood, OneEditor, OthersStay, Removing, Editing, Adding
  <2>2. \A q \in Procs : Visible(id[q])' => Visible(id[q])
    BY <1>4, <2>1 DEF Visible
  <2>3. ASSUME NEW k \in 1..len, k \in 1..Len(arrays[ptr]) PROVE SlotStays(k)
    <3>1. \A m \in 1..Len(arrays) : m \in 1..Len(arrays')
      BY <1>3, <1>8
    <3>2. arrays'[ptr] \in Seq(Elem)
      BY <1>3, <1>8, <3>1
    <3>3. k \in 1..Len(arrays'[ptr]) /\ arrays'[ptr][k] = a[k]
      BY <1>3, <1>8, <2>3, <3>2
    <3> QED
      BY <1>4, <1>8, <3>1, <3>3 DEF SlotStays
  <2> QED
    BY <1>4, <1>6, <1>7, <2>1, <2>2, <2>3, ChecksBeside
<1>13. SessionsGone'
  BY <1>4, <1>6, <1>7, SessionsBeside
<1> QED
  BY <1>9, <1>11, <1>12, <1>13 DEF BlGood

(* While p is the one that edits, the others neither add nor remove.       *)
LEMMA Alone ==
    ASSUME BlGood, NEW p \in Procs, Editing(p), OthersStay(p), ~Removing(p)'
    PROVE  /\ \A r \in Procs : ~Removing(r)'
           /\ \A r \in Procs \ {p} : ~Adding(r) /\ ~Adding(r)'
BY DEF BlGood, OneEditor, OthersStay, Removing, Adding, Editing

LEMMA StorePtrKeeps ==
    ASSUME BlGood, PageTyped, NEW p \in Procs, StorePtr(p)
    PROVE  BlGood'
<1> DEFINE h == hdr[p]
           a == arrays[ptr]
           b == arrays[h.ptr]
           i == id[p]
<1>1. /\ at[p] = "storePtr" /\ ptr' = h.ptr
      /\ at' = [at EXCEPT ![p] = IF len = h.len + 1 THEN "lookup" ELSE "storeLen"]
      /\ excused' = excused \cup {q \in Procs : Checking(q) /\ id[q] = i}
      /\ UNCHANGED <<arrays, len, online, id, hdr, pos, fill, cl, wanted, settled>>
  BY DEF StorePtr, Go, NowListed, broker
<1>2. Editing(p) /\ Adding(p)
  BY <1>1 DEF Editing, Adding
<1>3. /\ i \in wanted /\ i \notin settled /\ Listed(a, h.len, wanted \ {i})
      /\ h.ptr \in 1..Len(arrays) /\ h.len = Len(a) /\ len \in {h.len, h.len + 1}
      /\ h.len < Len(b) /\ b[h.len + 1] = i
      /\ \A k \in 1..h.len : b[k] = a[k]
  BY <1>1, <1>2 DEF BlGood, ListKept, StageOK, AddStage
<1>4. /\ arrays \in Seq(Seq(Elem)) /\ a \in Seq(Elem) /\ b \in Seq(Elem)
      /\ h.len \in Nat /\ len \in Nat
  BY <1>3 DEF BlGood, SliceTyped
<1>5. OthersStay(p) /\ at'[p] = IF len = h.len + 1 THEN "lookup" ELSE "storeLen"
  BY <1>1 DEF OthersStay, PageTyped
<1>6. Editing(p)' /\ ~Checking(p)' /\ ~Removing(p)' /\ at'[p] # "disconnect"
  BY <1>5 DEF Editing, Checking, Removing
<1>7. SliceTyped'
  BY <1>1, <1>3, <1>5, <1>6 DEF BlGood, SliceTyped, OthersStay, Editing, Checking
<1>8. Listed(b, h.len, wanted \ {i})
  <2>1. h.len <= Len(b)
    BY <1>3, <1>4
  <2> QED
    BY <1>3, <1>4, <2>1, ListCopied
<1>9. StageOK(p)'
  <2>1. CASE len = h.len + 1
    <3>1. Listed(b, h.len + 1, (wanted \ {i}) \cup {i})
      BY <1>3, <1>4, <1>8, ListGrows
    <3>2. (wanted \ {i}) \cup {i} = wanted
      BY <1>3
    <3>3. Listed(b, len, wanted) /\ at'[p] = "lookup"
      BY <1>5, <2>1, <3>1, <3>2
    <3> QED
      BY <1>1, <1>3, <3>3 DEF StageOK, AddStage, AddedStage, RemoveStage, Adding, Removing,
                              Listed
  <2>2. CASE len # h.len + 1
    <3>1. at'[p] = "storeLen" /\ h.len = len
      BY <1>3, <1>5, <2>2
    <3>2. AddStage(p)'
      BY <1>1, <1>3, <1>8, <3>1 DEF AddStage, Listed
    <3>3. AddedStage(p)' /\ RemoveStage(p)'
      BY <3>1 DEF AddedStage, RemoveStage, Removing
    <3> QED
      BY <3>2, <3>3 DEF StageOK
  <2> QED
    BY <2>1, <2>2
<1>10. OneEditor' /\ ListKept'
  BY <1>2, <1>5, <1>6, <1>9, EditFrame
<1>11. ChecksKept'
  <2>1. /\ \A r \in Procs : ~Removing(r)'
        /\ \A r \in Procs \ {p} : ~Adding(r) /\ ~Adding(r)'
    BY <1>2, <1>5, <1>6, Alone
  <2>2. ASSUME NEW q \in Procs, Checking(q), q \notin excused', Visible(id[q])'
        PROVE  Visible(id[q])
    <3>1. id[q] # i /\ id[q] \in wanted
      BY <1>1, <2>2 DEF Visible
    <3> QED
      BY <2>1, <3>1 DEF Visible
  <2>3. ASSUME NEW k \in 1..len, k \in 1..Len(arrays[ptr]) PROVE SlotStays(k)
    <3>1. k \in 1..h.len /\ k \in 1..Len(b)
      BY <1>3, <1>4, <2>3
    <3> QED
      BY <1>1, <1>3, <3>1 DEF SlotStays
  <2> QED
    BY <1>1, <1>5, <1>6, <2>1, <2>2, <2>3, ChecksBeside
<1>12. SessionsGone'
  BY <1>1, <1>5, <1>6, SessionsBeside
<1> QED
  BY <1>7, <1>10, <1>11, <1>12 DEF BlGood

LEMMA StoreLenKeeps ==
    ASSUME BlGood, PageTyped, NEW p \in Procs, StoreLen(p)
    PROVE  BlGood'
<1> DEFINE h == hdr[p]
           a == arrays[ptr]
           i == id[p]
<1>1. /\ \/ at[p] = "storeLen" /\ at' = [at EXCEPT ![p] = "lookup"]
         \/ at[p] = "storePtr" /\ len # h.len + 1 /\ at' = at
      /\ len' = h.len + 1
      /\ excused' = excused \cup {q \in Procs : Checking(q) /\ id[q] = i}
      /\ UNCHANGED <<arrays, ptr, online, id, hdr, pos, fill, cl, wanted, settled>>
  BY DEF StoreLen, Go, NowListed, broker
<1>2. Editing(p) /\ Adding(p)
  BY <1>1 DEF Editing, Adding
<1>3. /\ AddStage(p) /\ i \in wanted /\ Listed(a, h.len, wanted \ {i})
      /\ h.len = len
  <2>1. AddStage(p)
    BY <1>2 DEF BlGood, ListKept, StageOK
  <2>2. i \in wanted /\ Listed(a, h.len, wanted \ {i})
    BY <1>2, <2>1 DEF AddStage
  <2>3. h.len = len
    BY <1>1, <2>1 DEF AddStage
  <2> QED
    BY <2>1, <2>2, <2>3
<1>4. /\ a \in Seq(Elem) /\ h.len \in Nat /\ len \in Nat /\ len' = len + 1
  BY <1>1, <1>3 DEF BlGood, SliceTyped
<1>5. OthersStay(p) /\ at'[p] = IF at[p] = "storeLen" THEN "lookup" ELSE "storePtr"
  BY <1>1 DEF OthersStay, PageTyped
<1>6. Editing(p)' /\ ~Checking(p)' /\ ~Removing(p)' /\ at'[p] # "disconnect"
  BY <1>5 DEF Editing, Checking, Removing
<1>7. SliceTyped'
  <2>1. \A q \in Procs : ~Editing(q)' /\ ~Checking(q)' => hdr'[q] = NoHdr
    BY <1>5, <1>6 DEF BlGood, SliceTyped, OthersStay, Editing, Checking
  <2>2. len' \in Nat
    BY <1>4
  <2> QED
    BY <1>1, <2>1, <2>2 DEF BlGood, SliceTyped
<1>8. StageOK(p)'
  <2>1. CASE at[p] = "storeLen"
    <3>1. h.len < Len(a) /\ a[h.len + 1] = i
      BY <1>3, <2>1 DEF AddStage
    <3>2. Listed(a, h.len + 1, (wanted \ {i}) \cup {i})
      BY <1>3, <1>4, <3>1, ListGrows
    <3>3. (wanted \ {i}) \cup {i} = wanted
      BY <1>3
    <3>4. Listed(a, len', wanted) /\ at'[p] = "lookup"
      BY <1>1, <1>5, <2>1, <3>2, <3>3
    <3> QED
      BY <1>1, <1>3, <3>4 DEF StageOK, AddStage, AddedStage, RemoveStage, Adding, Removing,
                              Listed
  <2>2. CASE at[p] = "storePtr"
    <3>1. at'[p] = "storePtr"
      BY <1>5, <2>2
    <3>2. AddStage(p)'
      BY <1>1, <1>3, <2>2, <3>1 DEF AddStage, Listed, Adding
    <3>3. AddedStage(p)' /\ RemoveStage(p)'
      BY <3>1 DEF AddedStage, RemoveStage, Removing
    <3> QED
      BY <3>2, <3>3 DEF StageOK
  <2> QED
    BY <1>1, <2>1, <2>2
<1>9. OneEditor' /\ ListKept'
  BY <1>2, <1>5, <1>6, <1>8, EditFrame
<1>10. ChecksKept'
  <2>1. /\ \A r \in Procs : ~Removing(r)'
        /\ \A r \in Procs \ {p} : ~Adding(r) /\ ~Adding(r)'
    BY <1>2, <1>5, <1>6, Alone
  <2>2. ASSUME NEW q \in Procs, Checking(q), q \notin excused', Visible(id[q])'
        PROVE  Visible(id[q])
    <3>1. id[q] # i /\ id[q] \in wanted
      BY <1>1, <2>2 DEF Visible
    <3> QED
      BY <2>1, <3>1 DEF Visible
  <2>3. ASSUME NEW k \in 1..len, k \in 1..Len(arrays[ptr]) PROVE SlotStays(k)
    <3>1. k \in 1..len'
      BY <1>4
    <3> QED
      BY <1>1, <2>3, <3>1 DEF SlotStays
  <2> QED
    BY <1>1, <1>5, <1>6, <2>1, <2>2, <2>3, ChecksBeside
<1>11. SessionsGone'
  BY <1>1, <1>5, <1>6, SessionsBeside
<1> QED
  BY <1>7, <1>9, <1>10, <1>11 DEF BlGood

LEMMA LookupKeeps ==
    ASSUME BlGood, PageTyped, NEW p \in Procs, AddLookup(p)
    PROVE  BlGood'
<1>1. /\ at[p] = "lookup" /\ cl' = [cl EXCEPT ![p] = online[id[p]]]
      /\ at' = [at EXCEPT ![p] = "disconnect"]
      /\ UNCHANGED <<arrays, ptr, len, online, id, hdr, pos, fill, wanted, settled, excused>>
  BY DEF AddLookup, Go, slice, broker, history
<1>2. Editing(p) /\ ~Adding(p) /\ AddedStage(p)
  BY <1>1 DEF Editing, Adding, BlGood, ListKept, StageOK
<1>3. OthersStay(p) /\ at'[p] = "disconnect" /\ cl'[p] = online[id[p]]
  BY <1>1 DEF OthersStay, PageTyped
<1>4. Editing(p)' /\ ~Checking(p)' /\ ~Removing(p)' /\ ~Adding(p)'
  BY <1>3 DEF Editing, Checking, Removing, Adding
<1>5. SliceTyped'
  BY <1>1, <1>3, <1>4 DEF BlGood, SliceTyped, OthersStay, Editing, Checking
<1>6. StageOK(p)'
  BY <1>1, <1>2, <1>3 DEF StageOK, AddStage, AddedStage, RemoveStage, Adding, Removing, Listed
<1>7. OneEditor' /\ ListKept'
  BY <1>2, <1>3, <1>4, <1>6, EditFrame
<1>8. ChecksKept'
  <2>1. /\ \A r \in Procs : ~Removing(r)'
        /\ \A r \in Procs \ {p} : ~Adding(r) /\ ~Adding(r)'
    BY <1>2, <1>3, <1>4, Alone
  <2>2. \A q \in Procs : Visible(id[q])' => Visible(id[q])
    BY <1>1, <1>2, <2>1 DEF Visible
  <2>3. \A k \in 1..len : k \in 1..Len(arrays[ptr]) => SlotStays(k)
    BY <1>1 DEF SlotStays
  <2> QED
    BY <1>1, <1>3, <1>4, <2>1, <2>2, <2>3, ChecksBeside
<1>9. SessionsGone'
  <2>1. \A q \in Procs \ {p} : at'[q] # "disconnect"
    BY <1>2, <1>3 DEF BlGood, OneEditor, OthersStay, Editing
  <2> QED
    BY <1>1, <1>3, <2>1 DEF BlGood, SessionsGone, NoneLeft
<1> QED
  BY <1>5, <1>7, <1>8, <1>9 DEF BlGood

(* The Add returns: no session of its id is left but the excused ones.     *)
LEMMA DisconnectKeeps ==
    ASSUME BlGood, PageTyped, NEW p \in Procs, AddDisconnect(p)
    PROVE  BlGood'
<1> DEFINE i == id[p]
<1>1. /\ at[p] = "disconnect"
      /\ online' = [online EXCEPT ![i] = IF online[i] = cl[p] THEN 0 ELSE online[i]]
      /\ settled' = settled \cup {i}
      /\ at' = [at EXCEPT ![p] = "idle"] /\ id' = [id EXCEPT ![p] = NoId]
      /\ hdr' = [hdr EXCEPT ![p] = NoHdr] /\ pos' = [pos EXCEPT ![p] = 0]
      /\ fill' = [fill EXCEPT ![p] = 0] /\ cl' = [cl EXCEPT ![p] = 0]
      /\ UNCHANGED <<arrays, ptr, len, wanted, excused>>
  BY DEF AddDisconnect, DisconnectClient, End, Go, slice
<1>2. Editing(p) /\ ~Adding(p) /\ i \in Ids /\ i \in wanted /\ Listed(arrays[ptr], len, wanted)
  BY <1>1 DEF Editing, Adding, BlGood, ListKept, StageOK, AddedStage, PageTyped
<1>3. OthersStay(p) /\ at'[p] = "idle" /\ hdr'[p] = NoHdr
  BY <1>1 DEF OthersStay, PageTyped, BlGood, SliceTyped
<1>4. ~Editing(p)' /\ ~Checking(p)' /\ ~Removing(p)' /\ ~Adding(p)'
  BY <1>3 DEF Editing, Checking, Removing, Adding
<1>5. SliceTyped'
  <2>1. NoHdr \in Header
    BY DEF NoHdr, Header
  <2>2. hdr' \in [Procs -> Header] /\ pos' \in [Procs -> Nat] /\ fill' \in [Procs -> Nat]
    BY <1>1, <2>1 DEF BlGood, SliceTyped
  <2>3. settled' \subseteq wanted' /\ wanted' \subseteq Ids
    BY <1>1, <1>2 DEF BlGood, SliceTyped
  <2> QED
    BY <1>1, <1>3, <1>4, <2>2, <2>3 DEF BlGood, SliceTyped, OthersStay, Editing, Checking
<1>6. OneEditor' /\ ListKept'
  <2>1. Listed(arrays[ptr], len, wanted)'
    BY <1>1, <1>2 DEF Listed
  <2> QED
    BY <1>2, <1>3, <1>4, <2>1, EditFrame
<1>7. ChecksKept'
  <2>1. /\ \A r \in Procs : ~Removing(r)'
        /\ \A r \in Procs \ {p} : ~Adding(r) /\ ~Adding(r)'
    BY <1>2, <1>3, <1>4, Alone
  <2>2. ASSUME NEW q \in Procs, Checking(q), Visible(id[q])' PROVE Visible(id[q])
    <3>1. q # p /\ id'[q] = id[q]
      BY <1>1, <1>3, <2>2 DEF Checking, OthersStay
    <3> QED
      BY <1>1, <1>2, <2>1, <2>2, <3>1 DEF Visible
  <2>3. \A k \in 1..len : k \in 1..Len(arrays[ptr]) => SlotStays(k)
    BY <1>1 DEF SlotStays
  <2> QED
    BY <1>1, <1>3, <1>4, <2>1, <2>2, <2>3, ChecksBeside
<1>8. SessionsGone'
  <2>1. \A q \in Procs : at'[q] # "disconnect"
    BY <1>2, <1>3 DEF BlGood, OneEditor, OthersStay, Editing
  <2>2. NoneLeft(i, cl[p])
    BY <1>1 DEF BlGood, SessionsGone
  <2>3. online'[i] = 0 \/ <<i, online'[i]>> \in excused
    BY <1>1, <1>2, <2>2 DEF NoneLeft, PageTyped
  <2>4. \A j \in settled : j # i => online'[j] = 0 \/ <<j, online'[j]>> \in excused
    BY <1>1 DEF BlGood, SliceTyped, SessionsGone, NoneLeft, PageTyped
  <2> QED
    BY <1>1, <2>1, <2>3, <2>4 DEF SessionsGone, NoneLeft
<1> QED
  BY <1>5, <1>6, <1>7, <1>8 DEF BlGood

(* A removal: every check of that time is excused.                         *)
LEMMA ChecksExcused ==
    ASSUME BlGood, NEW p \in Procs, Removing(p), OthersStay(p), ~Checking(p)',
           UNCHANGED excused
    PROVE  ChecksKept'
<1>1. \A q \in Procs : Checking(q) => q \in excused
  BY DEF BlGood, ChecksKept
<1> QED
  BY <1>1 DEF ChecksKept, OthersStay, Checking

LEMMA RemoveBegins ==
    ASSUME BlGood, PageTyped, NEW p \in Procs, NEW i \in Ids, BlacklistRemove(p, i), ~raced'
    PROVE  BlGood'
<1> DEFINE a == arrays[ptr]
           f == SelectInSeq(List, LAMBDA x : x = i)
<1>1. /\ at[p] = "idle" /\ id' = [id EXCEPT ![p] = i] /\ Enters(p)
      /\ \/ /\ f = 0 /\ at' = [at EXCEPT ![p] = "cut"]
            /\ pos' = [pos EXCEPT ![p] = len + 1] /\ fill' = [fill EXCEPT ![p] = len + 1]
         \/ /\ f # 0 /\ at' = [at EXCEPT ![p] = "shift"]
            /\ fill' = [fill EXCEPT ![p] = f] /\ pos' = [pos EXCEPT ![p] = f + 1]
      /\ wanted' = wanted \ {i} /\ settled' = settled \ {i}
      /\ excused' = excused \cup {q \in Procs : Checking(q)}
      /\ UNCHANGED <<arrays, ptr, len, online, cl>>
  BY DEF BlacklistRemove, Go, slice, broker
<1>2. /\ \A q \in Procs : ~Editing(q)
      /\ Listed(a, len, wanted)
      /\ hdr' \in [Procs -> Header] /\ \A q \in Procs \ {p} : hdr'[q] = hdr[q]
      /\ hdr'[p].ptr = ptr /\ hdr'[p].len = len
      /\ id'[p] = i /\ \A q \in Procs \ {p} : id'[q] = id[q]
      /\ List = [k \in 1..len |-> List[k]]
      /\ \A k \in 1..len : List[k] = a[k]
  BY <1>1, Entered
<1>3. len \in Nat /\ a \in Seq(Elem)
  BY DEF BlGood, SliceTyped
<1>4. \/ f = 0 /\ \A k \in 1..len : a[k] # i
      \/ f \in 1..len /\ a[f] = i
  <2>1. \/ f = 0 /\ \A k \in 1..len : List[k] # i
        \/ f \in 1..len /\ List[f] = i
    <3> DEFINE s == List
    <3>1. s = [k \in 1..len |-> s[k]]
      BY <1>2
    <3> HIDE DEF s
    <3>2. LET g == SelectInSeq(s, LAMBDA x : x = i)
          IN  \/ g = 0 /\ \A k \in 1..len : s[k] # i
              \/ g \in 1..len /\ s[g] = i
      <4>1. len \in Nat
        BY <1>3
      <4> HIDE DEF a
      <4> QED
        BY <3>1, <4>1, FirstMatch, ZenonT(60)
    <3> QED
      BY <3>2 DEF s
  <2> HIDE DEF f
  <2> QED
    BY <1>2, <2>1
<1> HIDE DEF f
<1>5. \/ /\ f = 0 /\ at'[p] = "cut" /\ fill'[p] = len + 1
      \/ /\ f \in 1..len /\ at'[p] = "shift" /\ fill'[p] = f /\ pos'[p] = f + 1
  BY <1>1, <1>4 DEF PageTyped, BlGood, SliceTyped
<1>6. /\ OthersStay(p) /\ f \in Nat
      /\ pos' \in [Procs -> Nat] /\ fill' \in [Procs -> Nat]
  <2>1. f \in Nat
    BY <1>4
  <2>2. f + 1 \in Nat /\ len + 1 \in Nat
    BY <1>3, <2>1
  <2>3. pos' \in [Procs -> Nat] /\ fill' \in [Procs -> Nat]
    BY <1>1, <2>1, <2>2 DEF BlGood, SliceTyped
  <2>4. \A q \in Procs \ {p} : at'[q] = at[q] /\ pos'[q] = pos[q] /\ fill'[q] = fill[q]
    BY <1>1 DEF PageTyped, BlGood, SliceTyped
  <2>5. OthersStay(p)
    BY <1>1, <1>2, <2>4 DEF OthersStay
  <2> QED
    BY <2>1, <2>3, <2>5
<1>7. Editing(p)' /\ ~Checking(p)' /\ Removing(p)' /\ at'[p] # "disconnect" /\ ~Adding(p)'
  BY <1>5 DEF Editing, Checking, Removing, Adding
<1>8. SliceTyped'
  <2>1. \A q \in Procs : ~Editing(q)' /\ ~Checking(q)' => hdr'[q] = NoHdr
    BY <1>6, <1>7 DEF BlGood, SliceTyped, OthersStay, Editing, Checking
  <2> QED
    BY <1>1, <1>2, <1>6, <2>1 DEF BlGood, SliceTyped
<1>9. StageOK(p)'
  <2>1. AddStage(p)' /\ AddedStage(p)'
    BY <1>5, <1>7 DEF AddStage, AddedStage
  <2>2. CASE f = 0
    <3>1. at'[p] = "cut" /\ fill'[p] = len + 1
      BY <1>5, <2>2
    <3>2. i \notin wanted
      BY <1>2, <1>4, <2>2 DEF Listed
    <3>3. wanted' = wanted
      BY <1>1, <3>2
    <3>4. fill'[p] # 0 /\ fill'[p] - 1 = len
      BY <1>3, <3>1
    <3>5. RemoveStage(p)'
      BY <1>1, <1>2, <3>1, <3>2, <3>3, <3>4 DEF RemoveStage, Listed
    <3> QED
      BY <2>1, <3>5 DEF StageOK
  <2>3. CASE f # 0
    <3>1. f \in 1..len /\ at'[p] = "shift" /\ fill'[p] = f /\ pos'[p] = f + 1 /\ a[f] = i
      BY <1>4, <1>5, <2>3
    <3>2. ListedBut(a, len, f, wanted \ {i})
      BY <1>2, <1>3, <3>1, ListGap
    <3>3. RemoveStage(p)'
      BY <1>1, <1>2, <3>1, <3>2 DEF RemoveStage, ListedBut
    <3> QED
      BY <2>1, <3>3 DEF StageOK
  <2> QED
    BY <2>2, <2>3
<1>10. OneEditor' /\ ListKept'
  BY <1>2, <1>6, <1>7, <1>9, EditFrame
<1>11. ChecksKept'
  <2>1. \A q \in Procs : Checking(q)' => q \in excused'
    BY <1>1, <1>6, <1>7 DEF OthersStay, Checking
  <2> QED
    BY <2>1 DEF ChecksKept
<1>12. SessionsGone'
  BY <1>1, <1>6, <1>7, SessionsBeside
<1> QED
  BY <1>8, <1>10, <1>11, <1>12 DEF BlGood

LEMMA ShiftKeeps ==
    ASSUME BlGood, PageTyped, NEW p \in Procs, Shift(p)
    PROVE  BlGood'
<1> DEFINE h == hdr[p]
           a == arrays[ptr]
           f == fill[p]
<1>1. at[p] = "shift" /\ Editing(p) /\ Removing(p) /\ ~Checking(p) /\ ~Adding(p)
  BY DEF Shift, Editing, Removing, Checking, Adding
<1>2. /\ h.ptr = ptr /\ h.len = len /\ id[p] \notin wanted
      /\ ListedBut(a, len, f, wanted) /\ pos[p] = f + 1
  BY <1>1 DEF BlGood, ListKept, StageOK, RemoveStage
<1>3. /\ arrays \in Seq(Seq(Elem)) /\ ptr \in 1..Len(arrays) /\ a \in Seq(Elem)
      /\ len \in 1..Len(a) /\ f \in 1..len /\ Len(a) \in Nat
  BY <1>2 DEF BlGood, SliceTyped, ListedBut
<1>4. CASE pos[p] > h.len
  <2>1. /\ at' = [at EXCEPT ![p] = "clear"]
        /\ UNCHANGED <<arrays, ptr, len, online, id, hdr, pos, fill, cl, wanted, settled, excused>>
    BY <1>2, <1>3, <1>4 DEF Shift, Go, broker, history
  <2>2. OthersStay(p) /\ at'[p] = "clear" /\ f = len
    BY <1>2, <1>3, <1>4, <2>1 DEF OthersStay, PageTyped
  <2>3. Editing(p)' /\ ~Checking(p)' /\ Removing(p)' /\ at'[p] # "disconnect" /\ ~Adding(p)'
    BY <2>2 DEF Editing, Checking, Removing, Adding
  <2>4. SliceTyped'
    <3>1. \A q \in Procs : ~Editing(q)' /\ ~Checking(q)' => hdr'[q] = NoHdr
      BY <2>2, <2>3 DEF BlGood, SliceTyped, OthersStay, Editing, Checking
    <3> QED
      BY <2>1, <3>1 DEF BlGood, SliceTyped
  <2>5. StageOK(p)'
    BY <1>2, <2>1, <2>2, <2>3 DEF StageOK, AddStage, AddedStage, RemoveStage, ListedBut
  <2>6. OneEditor' /\ ListKept'
    BY <1>1, <2>2, <2>3, <2>5, EditFrame
  <2> QED
    BY <1>1, <2>1, <2>2, <2>3, <2>4, <2>6, ChecksExcused, SessionsBeside DEF BlGood
<1>5. CASE pos[p] <= h.len
  <2> DEFINE v == a[f + 1]
             b == [a EXCEPT ![f] = v]
  <2>1. f + 1 \in 1..len /\ f + 1 \in DOMAIN a /\ v \in wanted /\ v \in Elem
    <3>1. f + 1 \in 1..len /\ f + 1 \in 1..Len(a)
      BY <1>2, <1>3, <1>5
    <3>2. v \in wanted
      BY <1>2, <1>3, <3>1 DEF ListedBut
    <3> QED
      BY <1>3, <3>1, <3>2
  <2>2. Slot(arrays[hdr[p].ptr], pos[p]) = v /\ v # id[p]
    BY <1>2, <2>1 DEF Slot
  <2>3. /\ arrays' = [arrays EXCEPT ![h.ptr][f] = v]
        /\ fill' = [fill EXCEPT ![p] = f + 1] /\ pos' = [pos EXCEPT ![p] = f + 2]
        /\ UNCHANGED <<at, ptr, len, online, id, hdr, cl, wanted, settled, excused>>
    <3> HIDE DEF v
    <3>1. pos[p] + 1 = f + 2
      BY <1>2, <1>3
    <3>2. ~(pos[p] > h.len)
      BY <1>2, <1>3, <1>5
    <3>3. /\ arrays' = [arrays EXCEPT ![h.ptr][f] = Slot(arrays[hdr[p].ptr], pos[p])]
          /\ fill' = [fill EXCEPT ![p] = @ + 1] /\ pos' = [pos EXCEPT ![p] = @ + 1]
          /\ UNCHANGED <<at, ptr, len, online, id, hdr, cl, wanted, settled, excused>>
      BY <2>2, <3>2 DEF Shift, broker, history
    <3>4. fill' = [fill EXCEPT ![p] = f + 1] /\ pos' = [pos EXCEPT ![p] = pos[p] + 1]
      BY <3>3
    <3> QED
      BY <2>2, <3>1, <3>3, <3>4
  <2>4. b \in Seq(Elem) /\ Len(b) = Len(a)
    <3>1. f \in 1..Len(a)
      BY <1>3
    <3> QED
      BY <1>3, <2>1, <3>1, ExceptSeq
  <2>5. ListedBut(b, len, f + 1, wanted)
    <3>1. f + 1 <= len
      BY <1>3, <2>1
    <3> QED
      BY <1>2, <1>3, <2>4, <3>1, GapMoves
  <2>6. arrays' = [arrays EXCEPT ![ptr] = b]
    BY <1>2, <1>3, <2>3
  <2> HIDE DEF b, v
  <2>7. /\ arrays' \in Seq(Seq(Elem)) /\ Len(arrays') = Len(arrays) /\ arrays'[ptr] = b
    BY <1>3, <2>4, <2>6, ArrayPut
  <2>8. OthersStay(p) /\ at'[p] = "shift" /\ fill'[p] = f + 1 /\ pos'[p] = f + 2
    BY <1>1, <2>3 DEF OthersStay, BlGood, SliceTyped
  <2>9. Editing(p)' /\ ~Checking(p)' /\ Removing(p)' /\ at'[p] # "disconnect" /\ ~Adding(p)'
    BY <2>8 DEF Editing, Checking, Removing, Adding
  <2>10. SliceTyped'
    <3>1. \A q \in Procs : ~Editing(q)' /\ ~Checking(q)' => hdr'[q] = NoHdr
      BY <2>8, <2>9 DEF BlGood, SliceTyped, OthersStay, Editing, Checking
    <3>2. f + 1 \in Nat /\ f + 2 \in Nat
      BY <1>3
    <3>3. pos' \in [Procs -> Nat] /\ fill' \in [Procs -> Nat]
      BY <2>3, <3>2 DEF BlGood, SliceTyped
    <3> QED
      BY <2>3, <2>7, <3>1, <3>3 DEF BlGood, SliceTyped
  <2>11. StageOK(p)'
    <3>1. pos'[p] = fill'[p] + 1
      BY <1>3, <2>8
    <3>2. RemoveStage(p)'
      <4>1. hdr'[p] = h /\ id'[p] = id[p] /\ ptr' = ptr /\ len' = len /\ wanted' = wanted
        BY <2>3
      <4>2. ListedBut(arrays[ptr], len, fill[p], wanted)'
        BY <2>5, <2>7, <2>8, <4>1 DEF ListedBut
      <4> QED
        BY <1>2, <2>8, <3>1, <4>1, <4>2 DEF RemoveStage
    <3>3. AddStage(p)' /\ AddedStage(p)'
      BY <2>8, <2>9 DEF AddStage, AddedStage
    <3> QED
      BY <3>2, <3>3 DEF StageOK
  <2>12. OneEditor' /\ ListKept'
    BY <1>1, <2>8, <2>9, <2>11, EditFrame
  <2> QED
    BY <1>1, <2>3, <2>8, <2>9, <2>10, <2>12, ChecksExcused, SessionsBeside DEF BlGood
<1>6. pos[p] > h.len \/ pos[p] <= h.len
  BY <1>2, <1>3
<1> QED
  BY <1>4, <1>5, <1>6

LEMMA ClearKeeps ==
    ASSUME BlGood, PageTyped, NEW p \in Procs, ClearTail(p)
    PROVE  BlGood'
<1> DEFINE h == hdr[p]
           a == arrays[ptr]
           b == [k \in DOMAIN a |-> IF k \in fill[p]..h.len THEN Blank ELSE a[k]]
<1>1. at[p] = "clear" /\ Editing(p) /\ Removing(p)
  BY DEF ClearTail, Editing, Removing
<1>2. /\ h.ptr = ptr /\ h.len = len /\ id[p] \notin wanted
      /\ ListedBut(a, len, len, wanted) /\ fill[p] = len
  BY <1>1 DEF BlGood, ListKept, StageOK, RemoveStage
<1>3. /\ arrays \in Seq(Seq(Elem)) /\ ptr \in 1..Len(arrays) /\ a \in Seq(Elem)
      /\ len \in 1..Len(a) /\ Len(a) \in Nat
  BY <1>2 DEF BlGood, SliceTyped, ListedBut
<1>4. /\ arrays' = [arrays EXCEPT ![ptr] = b] /\ at' = [at EXCEPT ![p] = "cut"]
      /\ UNCHANGED <<ptr, len, online, id, hdr, pos, fill, cl, wanted, settled, excused>>
  BY <1>2, <1>3 DEF ClearTail, Go, broker, history
<1>5. b \in Seq(Elem) /\ Len(b) = Len(a) /\ \A k \in 1..(len - 1) : b[k] = a[k]
  <2>1. \A k \in 1..Len(a) : b[k] = IF k = len THEN Blank ELSE a[k]
    BY <1>2, <1>3
  <2>2. b = [k \in 1..Len(a) |-> b[k]]
    BY <1>3
  <2> HIDE DEF b
  <2>3. \A k \in 1..Len(a) : b[k] \in Elem
    BY <1>3, <2>1 DEF Elem
  <2> DEFINE n == Len(a)
  <2>4. n \in Nat /\ b = [k \in 1..n |-> b[k]] /\ \A k \in 1..n : b[k] \in Elem
    BY <1>3, <2>2, <2>3
  <2>5. b \in Seq(Elem) /\ Len(b) = n
    <3> HIDE DEF n
    <3> QED
      BY <2>4
  <2>6. \A k \in 1..(len - 1) : k \in 1..n /\ k # len
    BY <1>3
  <2> QED
    BY <2>1, <2>5, <2>6
<1> HIDE DEF b
<1>6. arrays' \in Seq(Seq(Elem)) /\ Len(arrays') = Len(arrays) /\ arrays'[ptr] = b
  BY <1>3, <1>4, <1>5, ArrayPut
<1>7. Listed(b, len - 1, wanted)
  <2>1. Listed(a, len - 1, wanted) /\ len - 1 <= Len(b)
    BY <1>2, <1>3, <1>5, GapAtEnd
  <2> QED
    BY <1>3, <1>5, <2>1, ListCopied
<1>8. OthersStay(p) /\ at'[p] = "cut"
  BY <1>4 DEF OthersStay, PageTyped
<1>9. Editing(p)' /\ ~Checking(p)' /\ Removing(p)' /\ at'[p] # "disconnect" /\ ~Adding(p)'
  BY <1>8 DEF Editing, Checking, Removing, Adding
<1>10. SliceTyped'
  <2>1. \A q \in Procs : ~Editing(q)' /\ ~Checking(q)' => hdr'[q] = NoHdr
    BY <1>8, <1>9 DEF BlGood, SliceTyped, OthersStay, Editing, Checking
  <2> QED
    BY <1>4, <1>6, <2>1 DEF BlGood, SliceTyped
<1>11. StageOK(p)'
  <2>1. /\ hdr'[p] = h /\ id'[p] = id[p] /\ ptr' = ptr /\ len' = len /\ wanted' = wanted
        /\ fill'[p] = len /\ fill'[p] # 0
    BY <1>2, <1>3, <1>4
  <2>2. Listed(arrays[ptr], fill[p] - 1, wanted)'
    BY <1>6, <1>7, <2>1 DEF Listed
  <2>3. RemoveStage(p)'
    BY <1>2, <1>8, <2>1, <2>2 DEF RemoveStage
  <2>4. AddStage(p)' /\ AddedStage(p)'
    BY <1>8, <1>9 DEF AddStage, AddedStage
  <2> QED
    BY <2>3, <2>4 DEF StageOK
<1>12. OneEditor' /\ ListKept'
  BY <1>1, <1>8, <1>9, <1>11, EditFrame
<1> QED
  BY <1>1, <1>4, <1>8, <1>9, <1>10, <1>12, ChecksExcused, SessionsBeside DEF BlGood

LEMMA CutKeeps ==
    ASSUME BlGood, PageTyped, NEW p \in Procs, Cut(p)
    PROVE  BlGood'
<1>1. at[p] = "cut" /\ Editing(p) /\ Removing(p)
  BY DEF Cut, Editing, Removing
<1>2. /\ hdr[p].ptr = ptr /\ fill[p] # 0 /\ Listed(arrays[ptr], fill[p] - 1, wanted)
  BY <1>1 DEF BlGood, ListKept, StageOK, RemoveStage
<1>3. /\ ptr' = ptr /\ len' = fill[p] - 1
      /\ at' = [at EXCEPT ![p] = "idle"] /\ id' = [id EXCEPT ![p] = NoId]
      /\ hdr' = [hdr EXCEPT ![p] = NoHdr] /\ pos' = [pos EXCEPT ![p] = 0]
      /\ fill' = [fill EXCEPT ![p] = 0] /\ cl' = [cl EXCEPT ![p] = 0]
      /\ UNCHANGED <<arrays, online, wanted, settled, excused>>
  BY <1>2 DEF Cut, End, Go, broker, history
<1>4. OthersStay(p) /\ at'[p] = "idle" /\ hdr'[p] = NoHdr
  BY <1>3 DEF OthersStay, PageTyped, BlGood, SliceTyped
<1>5. ~Editing(p)' /\ ~Checking(p)' /\ at'[p] # "disconnect"
  BY <1>4 DEF Editing, Checking
<1>6. SliceTyped'
  <2>1. NoHdr \in Header
    BY DEF NoHdr, Header
  <2>2. hdr' \in [Procs -> Header] /\ pos' \in [Procs -> Nat] /\ fill' \in [Procs -> Nat]
    BY <1>3, <2>1 DEF BlGood, SliceTyped
  <2>3. len' \in Nat
    BY <1>2, <1>3 DEF BlGood, SliceTyped
  <2>4. \A q \in Procs : ~Editing(q)' /\ ~Checking(q)' => hdr'[q] = NoHdr
    BY <1>4, <1>5 DEF BlGood, SliceTyped, OthersStay, Editing, Checking
  <2> QED
    BY <1>3, <2>2, <2>3, <2>4 DEF BlGood, SliceTyped
<1>7. Listed(arrays[ptr], len, wanted)'
  BY <1>2, <1>3 DEF Listed
<1>8. OneEditor' /\ ListKept'
  BY <1>1, <1>4, <1>5, <1>7, EditFrame
<1> QED
  BY <1>1, <1>3, <1>4, <1>5, <1>6, <1>8, ChecksExcused, SessionsBeside DEF BlGood

----------------------------------------------------------------------------
LEMMA BlInitially == BlInit => BlInv
<1> SUFFICES ASSUME BlInit PROVE BlGood
  BY DEF BlInv
<1>1. \A p \in Procs : at[p] = "idle" /\ ~Editing(p) /\ ~Checking(p) /\ hdr[p] = NoHdr
  BY DEF BlInit, Editing, Checking
<1>2. SliceTyped
  <2>1. NoHdr \in Header
    BY DEF NoHdr, Header
  <2>2. hdr \in [Procs -> Header] /\ pos \in [Procs -> Nat] /\ fill \in [Procs -> Nat]
    BY <2>1 DEF BlInit
  <2>3. arrays \in Seq(Seq(Elem)) /\ ptr \in 1..Len(arrays) /\ len \in Nat
    BY DEF BlInit
  <2> QED
    BY <1>1, <2>2, <2>3 DEF BlInit, SliceTyped
<1>3. Listed(arrays[ptr], len, wanted)
  BY DEF BlInit, Listed
<1> QED
  BY <1>1, <1>2, <1>3 DEF BlGood, OneEditor, ListKept, ChecksKept, SessionsGone, BlInit

(* Once raced, always raced: until then every step keeps BlGood.           *)
LEMMA BlKept == BlInv /\ PageTyped /\ [Next]_allVars => BlInv'
<1> SUFFICES ASSUME BlInv, PageTyped, [Next]_allVars, ~raced' PROVE BlGood'
  BY DEF BlInv
<1>1. CASE UNCHANGED pagesAll
  <2>1. BlGood /\ UNCHANGED blVars
    BY <1>1 DEF BlInv, pagesAll, blVars
  <2>2. SliceTyped' /\ OneEditor' /\ SessionsGone'
    BY <2>1 DEF blVars, BlGood, SliceTyped, OneEditor, SessionsGone, NoneLeft, Editing, Checking
  <2>3. ASSUME NEW p \in Procs, StageOK(p) PROVE StageOK(p)'
    <3>1. AddStage(p)' /\ AddedStage(p)'
      BY <2>1, <2>3 DEF blVars, StageOK, AddStage, AddedStage, Listed, Adding
    <3>2. RemoveStage(p)'
      BY <2>1, <2>3 DEF blVars, StageOK, RemoveStage, Listed, ListedBut, Removing
    <3> QED
      BY <3>1, <3>2 DEF StageOK
  <2>4. ListKept'
    BY <2>1, <2>3 DEF blVars, BlGood, ListKept, Listed, Editing
  <2>5. ChecksKept'
    BY <2>1 DEF blVars, BlGood, ChecksKept, Visible, FindsAt, Checking, Adding, Removing
  <2> QED
    BY <2>2, <2>4, <2>5 DEF BlGood
<1>2. ASSUME NEW p \in Procs, BrokerRequest(p) PROVE BlGood'
  <2>1. BlGood
    BY <1>2 DEF BrokerRequest, BlInv
  <2> QED
    BY <1>2, <2>1, AddBegins, RemoveBegins, ConnectKeeps, PagesAside, AsideKeeps
    DEF BrokerRequest
<1>3. ASSUME NEW p \in Procs, PageStep(p) PROVE BlGood'
  <2>1. raced' = raced
    BY <1>3 DEF PageStep, BlEdit, NewSession, TopicsUnsubscribe, SubscriptionsDelete, Kick,
                RetainedDelete, TopicsSubscribe, SubscriptionsAdd, Finish, Append1, StorePtr,
                StoreLen, AddLookup, AddDisconnect, Shift, ClearTail, Cut, LoadWord, Scan, Admit
  <2>2. BlGood
    BY <2>1 DEF BlInv
  <2>3. CASE BlEdit(p)
    BY <2>2, <2>3, AppendKeeps, StorePtrKeeps, StoreLenKeeps, LookupKeeps, DisconnectKeeps,
       ShiftKeeps, ClearKeeps, CutKeeps, LoadKeeps, ScanKeeps DEF BlEdit
  <2>4. CASE NewSession(p)
    BY <2>2, <2>4, AdmitKeeps DEF NewSession
  <2> QED
    BY <1>3, <2>2, <2>3, <2>4, PagesAside, AsideKeeps DEF PageStep
<1> QED
  BY <1>1, <1>2, <1>3 DEF Next, BrokerNext, RegexNext, SamplerNext, allVars

LEMMA BlAlways == Spec => [](PagesInv /\ BlInv)
<1>1. Init => PagesInv /\ BlInv
  BY PagesInitially, BlInitially DEF Init
<1>2. PagesInv /\ BlInv /\ [Next]_allVars => (PagesInv /\ BlInv)'
  BY PagesKept, BlKept DEF PagesInv
<1> QED
  BY <1>1, <1>2, PTL DEF Spec

(* While admin requests do not overlap, the list holds the ids that were   *)
(* added and not removed since, each of them once.                         *)
THEOREM ListIsExact == Spec => []BlacklistExact
<1>1. BlInv => BlacklistExact
  <2> SUFFICES ASSUME BlGood, \A p \in Procs : ~Editing(p)
               PROVE  Range(List) = wanted /\ len = Cardinality(wanted)
    BY DEF BlInv, BlacklistExact
  <2>1. Listed(arrays[ptr], len, wanted) /\ arrays[ptr] \in Seq(Elem) /\ len \in Nat
    BY DEF BlGood, ListKept, SliceTyped
  <2>2. \A k \in 1..len : k \in DOMAIN arrays[ptr]
    BY <2>1 DEF Listed
  <2>3. List = [k \in 1..len |-> arrays[ptr][k]]
    BY <2>2 DEF List, Slot
  <2>4. Range(List) = {arrays[ptr][k] : k \in 1..len}
    BY <2>3 DEF Range
  <2>5. Range(List) = wanted
    BY <2>1, <2>4 DEF Listed
  <2> DEFINE s == [k \in 1..len |-> arrays[ptr][k]]
  <2>6. s \in Bijection(1..len, wanted)
    BY <2>1 DEF Listed, Bijection, Injection, Surjection, IsInjective
  <2>7. Cardinality(wanted) = len
    <3>1. ExistsBijection(1..len, wanted)
      BY <2>6 DEF ExistsBijection
    <3> QED
      BY <2>1, <3>1, FS_CountingElements
  <2> QED
    BY <2>5, <2>7
<1> QED
  BY <1>1, BlAlways, PTL

(* Once Add has returned, no session of the id is left or begins, but the  *)
(* excused ones.                                                           *)
THEOREM ListedStaysOut == Spec => []BlacklistedStaysOut
<1>1. BlInv => BlacklistedStaysOut
  BY DEF BlInv, BlGood, SessionsGone, NoneLeft, BlacklistedStaysOut
<1> QED
  BY <1>1, BlAlways, PTL
============================================================================
