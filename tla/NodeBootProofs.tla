--------------------------- MODULE NodeBootProofs --------------------------
(***************************************************************************)
(* Proofs about SessionSecret.tla, for any set of nodes and any number of  *)
(* faults, crashes and losses of the key, and about NodeBoot.tla, which    *)
(* takes its steps: for any number of boots, failures and crashes too.     *)
(***************************************************************************)
EXTENDS NodeBoot, SequenceTheorems, TLAPS

(* Only a node that is up holds a secret from Redis, and it is a usable    *)
(* one.                                                                    *)
RedisSourced ==
    \A n \in Nodes :
        source[n] = "redis" => pc[n] = "up" /\ secret[n] \in Secret

(* What makes agreement inductive: since the last loss of the key, every   *)
(* secret taken from Redis is the one Redis still holds.                   *)
KeyCurrent ==
    \A n \in Nodes :
        /\ epoch[n] <= flushes
        /\ source[n] = "redis" /\ epoch[n] = flushes => secret[n] = key

(* A node only draws a new key for its disk when the disk has none, or     *)
(* could not be read.                                                      *)
GenerateOnlyWithoutFile ==
    \A n \in Nodes : pc[n] = "generate" => file[n] \notin Secret \/ unread[n]

SecretInv ==
    /\ TypeOK
    /\ RedisSourced
    /\ KeyCurrent
    /\ GenerateOnlyWithoutFile
    /\ RedisAgreement

(* Initially nobody holds a secret.                                        *)
LEMMA SecretInit == Init => SecretInv
BY ValueAssumption
DEF Init, SecretInv, TypeOK, RedisSourced, KeyCurrent, GenerateOnlyWithoutFile,
    RedisAgreement, Stored, Secret, Preset

(* EnsureSecret returning what the Redis key now holds keeps the agreement *)
(* of the nodes that read the key since its last loss.                     *)
LEMMA EnsureStep ==
    ASSUME SecretInv, NEW n \in Nodes, pc[n] # "up", EnsureReturns(n, key'),
           key' \in Stored \ {Absent}, key # Absent => key' = key,
           UNCHANGED <<env, file, unread, flushes, faults, crashes>>,
           cand' \in [Nodes -> Secret], fresh' \in Nat
    PROVE  SecretInv'
<1> USE ValueAssumption DEF SecretInv
<1>1. source[n] # "redis"
  BY DEF RedisSourced
<1>2. \A m \in Nodes : source[m] = "redis" /\ epoch[m] = flushes => secret[m] = key'
  BY DEF KeyCurrent, RedisSourced
<1>3. TypeOK'
  BY DEF TypeOK, EnsureReturns, ComesUp, Goto, Stored
<1>4. RedisSourced' /\ GenerateOnlyWithoutFile'
  BY DEF TypeOK, RedisSourced, GenerateOnlyWithoutFile, EnsureReturns, ComesUp,
         Goto
<1>5. KeyCurrent'
  BY <1>1, <1>2 DEF TypeOK, KeyCurrent, EnsureReturns, ComesUp
<1>6. RedisAgreement'
  BY <1>1, <1>2 DEF TypeOK, RedisAgreement, EnsureReturns, ComesUp
<1> QED
  BY <1>3, <1>4, <1>5, <1>6

(* Every step of a booting node, and every loss of the key, keeps the      *)
(* invariant.                                                              *)
LEMMA SecretStep == SecretInv /\ [Next]_vars => SecretInv'
<1> SUFFICES ASSUME SecretInv, [Next]_vars PROVE SecretInv'
  OBVIOUS
<1> USE ValueAssumption DEF SecretInv
<1>1. ASSUME NEW n \in Nodes, Boot(n) PROVE SecretInv'
  BY <1>1 DEF Boot, Goto, TypeOK, RedisSourced, KeyCurrent,
              GenerateOnlyWithoutFile, RedisAgreement
<1>2. ASSUME NEW n \in Nodes, Get(n) PROVE SecretInv'
  <2>1. CASE key # Absent
    BY <1>2, <2>1, EnsureStep DEF Get, TypeOK
  <2>2. CASE key = Absent
    BY <1>2, <2>2 DEF Get, Goto, TypeOK, RedisSourced, KeyCurrent,
       GenerateOnlyWithoutFile, RedisAgreement, Secret
  <2> QED
    BY <2>1, <2>2
<1>3. ASSUME NEW n \in Nodes, SetNX(n) PROVE SecretInv'
  <2>1. CASE key = Absent
    <3>1. cand[n] \in Stored \ {Absent}
      BY DEF TypeOK, Stored
    <3> QED
      BY <1>3, <2>1, <3>1, EnsureStep DEF SetNX, TypeOK
  <2>2. CASE key # Absent
    BY <1>3, <2>2 DEF SetNX, Goto, TypeOK, RedisSourced, KeyCurrent,
       GenerateOnlyWithoutFile, RedisAgreement
  <2> QED
    BY <2>1, <2>2
<1>4. ASSUME NEW n \in Nodes, SetNXReplyLost(n) PROVE SecretInv'
  <2>1. \A m \in Nodes : ~(source[m] = "redis" /\ epoch[m] = flushes)
    BY <1>4 DEF SetNXReplyLost, RedisSourced, KeyCurrent
  <2> QED
    BY <1>4, <2>1 DEF SetNXReplyLost, local, TypeOK, RedisSourced, KeyCurrent,
       GenerateOnlyWithoutFile, RedisAgreement, Stored
<1>5. ASSUME NEW n \in Nodes, Reread(n) PROVE SecretInv'
  <2>1. CASE key # Absent
    BY <1>5, <2>1, EnsureStep DEF Reread, TypeOK
  <2>2. CASE key = Absent
    BY <1>5, <2>2 DEF Reread, Goto, TypeOK, RedisSourced, KeyCurrent,
       GenerateOnlyWithoutFile, RedisAgreement
  <2> QED
    BY <2>1, <2>2
<1>6. ASSUME NEW n \in Nodes, RedisFails(n) PROVE SecretInv'
  BY <1>6 DEF RedisFails, Goto, TypeOK, RedisSourced, KeyCurrent,
              GenerateOnlyWithoutFile, RedisAgreement
<1>7. ASSUME NEW n \in Nodes, Fallback(n) PROVE SecretInv'
  <2>1. source[n] # "redis" /\ source'[n] # "redis"
    BY <1>7 DEF Fallback, ComesUp, TypeOK, RedisSourced
  <2> QED
    BY <1>7, <2>1 DEF Fallback, ComesUp, Goto, TypeOK, RedisSourced, KeyCurrent,
       GenerateOnlyWithoutFile, RedisAgreement, Stored
<1>8. ASSUME NEW n \in Nodes, Generate(n) PROVE SecretInv'
  BY <1>8 DEF Generate, ComesUp, Goto, TypeOK, RedisSourced, KeyCurrent,
     GenerateOnlyWithoutFile, RedisAgreement, Stored, Secret
<1>9. ASSUME NEW n \in Nodes, GenerateFails(n) PROVE SecretInv'
  BY <1>9 DEF GenerateFails, Goto, TypeOK, RedisSourced, KeyCurrent,
     GenerateOnlyWithoutFile, RedisAgreement, Stored
<1>10. ASSUME NEW n \in Nodes, Crash(n) PROVE SecretInv'
  BY <1>10 DEF Crash, Goto, TypeOK, RedisSourced, KeyCurrent,
     GenerateOnlyWithoutFile, RedisAgreement, Stored
<1>11. CASE Flush
  BY <1>11 DEF Flush, local, TypeOK, RedisSourced, KeyCurrent,
     GenerateOnlyWithoutFile, RedisAgreement, Stored
<1>12. CASE UNCHANGED vars
  BY <1>12 DEF vars, local, TypeOK, RedisSourced, KeyCurrent,
     GenerateOnlyWithoutFile, RedisAgreement
<1>13. ASSUME NEW n \in Nodes, FallbackReadFails(n) PROVE SecretInv'
  <2>1. source[n] # "redis"
    BY <1>13 DEF FallbackReadFails, RedisSourced
  <2> QED
    BY <1>13, <2>1 DEF FallbackReadFails, Goto, TypeOK, RedisSourced, KeyCurrent,
       GenerateOnlyWithoutFile, RedisAgreement
<1> QED
  BY <1>1, <1>2, <1>3, <1>4, <1>5, <1>6, <1>7, <1>8, <1>9, <1>10, <1>11, <1>12,
     <1>13 DEF Next, NodeStep

(* Typing of the secret agreement in every reachable state.                *)
THEOREM SecretTyped == Spec => []TypeOK
<1>1. SecretInv => TypeOK
  BY DEF SecretInv
<1> QED
  BY <1>1, SecretInit, SecretStep, PTL DEF Spec

(* Any two nodes of any cluster that took their key from Redis since its   *)
(* last loss hold the same one.                                            *)
THEOREM SecretAgreed == Spec => []RedisAgreement
<1>1. SecretInv => RedisAgreement
  BY DEF SecretInv
<1> QED
  BY <1>1, SecretInit, SecretStep, PTL DEF Spec

(* A usable key on a node's disk is replaced only when it could not be     *)
(* read in this boot.                                                      *)
THEOREM SecretFileStable == Spec => FileKeyStable
<1> DEFINE Keeps == \A n \in Nodes :
                      file[n] \in Secret /\ file'[n] # file[n] => unread[n]
<1>1. ASSUME SecretInv, [Next]_vars PROVE Keeps
  <2> USE <1>1 DEF SecretInv, TypeOK, GenerateOnlyWithoutFile
  <2>1. ASSUME NEW n \in Nodes, NodeStep(n) PROVE Keeps
    BY <2>1 DEF NodeStep, Boot, Get, SetNX, SetNXReplyLost, Reread, RedisFails,
       Fallback, FallbackReadFails, Generate, GenerateFails, Crash, local
  <2>2. CASE Flush
    BY <2>2 DEF Flush, local
  <2>3. CASE UNCHANGED vars
    BY <2>3 DEF vars, local
  <2> QED
    BY <2>1, <2>2, <2>3 DEF Next
<1>2. SecretInv /\ [Next]_vars => [Keeps]_vars
  BY <1>1
<1> QED
  BY <1>2, SecretInit, SecretStep, PTL DEF Spec, FileKeyStable

----------------------------------------------------------------------------
(* The life of a node.                                                     *)

(* Inside the life of a node the steps of SessionSecret.tla happen as they *)
(* stand there, and no other step touches the secret.                      *)
LEMMA LifeRefinesSecret == [NodeNext]_nodeVars => [Next]_vars
<1> SUFFICES ASSUME NodeNext PROVE [Next]_vars
  BY DEF nodeVars
<1>1. CASE RedisLoses
  BY <1>1 DEF RedisLoses, Next
<1>2. CASE OperatorDeletes
  BY <1>2 DEF OperatorDeletes
<1>3. ASSUME NEW n \in Nodes, LifeStep(n) PROVE [Next]_vars
  <2>1. CASE ApplyDefaults(n)
    BY <2>1 DEF ApplyDefaults, Next, NodeStep
  <2>2. ASSUME Gone(n) PROVE [Next]_vars
    BY <2>2 DEF Gone, Next, NodeStep
  <2>3. CASE Exit(n) \/ Kill(n)
    BY <2>2, <2>3 DEF Exit, Kill
  <2>4. CASE GetRegexSeeded(n) \/ PutRegexRule(n) \/ SetRegexSeeded(n)
             \/ SeedLen(n) \/ SeedSet(n) \/ SeedPrint(n)
    BY <2>4 DEF GetRegexSeeded, PutRegexRule, SetRegexSeeded, SeedLen, SeedSet,
                SeedPrint, Move
  <2>5. CASE StartAgent(n) \/ OpenStores(n) \/ StartWorkers(n) \/ Serve(n)
    BY <2>5 DEF StartAgent, OpenStores, StartWorkers, Serve
  <2>6. CASE Shutdown(n) \/ BootFails(n) \/ StopNext(n)
    BY <2>6 DEF Shutdown, BootFails, StopNext
  <2> QED
    BY <1>3, <2>1, <2>3, <2>4, <2>5, <2>6 DEF LifeStep
<1> QED
  BY <1>1, <1>2, <1>3 DEF NodeNext

(* The nodes of a cluster, with all that a boot and a shutdown of realMain *)
(* do, implement the specification of the session secret.                  *)
THEOREM BootImplementsSecret == NodeSpec => Spec
<1>1. NodeInit => Init
  BY DEF NodeInit
<1> QED
  BY <1>1, LifeRefinesSecret, PTL DEF NodeSpec, Spec

(* Nodes that took their key from Redis agree on it throughout boots,      *)
(* shutdowns and crashes of whole nodes.                                   *)
THEOREM BootAgrees == NodeSpec => []RedisAgreement
BY BootImplementsSecret, SecretAgreed, PTL

(* And none of them replaces a usable key on its disk that it could read.  *)
THEOREM BootKeepsFileKey == NodeSpec => FileKeyStable
BY BootImplementsSecret, SecretFileStable, PTL

----------------------------------------------------------------------------
(* The seeding of the initial rule.                                        *)

LifeTyped ==
    /\ stage \in [Nodes -> Stages]
    /\ running \in [Nodes -> SUBSET Workers]
    /\ seedRules \in Nat
    /\ marked \in BOOLEAN /\ everPut \in BOOLEAN /\ removed \in BOOLEAN

(* A node is past the seeding only when the store is marked, and the mark  *)
(* is set only after a rule was put.                                       *)
MarkAfterPut ==
    /\ marked => everPut
    /\ \A n \in Nodes :
        /\ stage[n] = "mark" => everPut
        /\ stage[n] \in {"secret", "hset", "print", "hook", "listen", "serve"}
             => marked
        /\ "http" \in running[n] => marked

(* Once an operator has removed the rule nobody is going to put another.   *)
NobodyPuts ==
    removed => marked /\ seedRules = 0 /\ \A n \in Nodes : stage[n] # "put"

SeedInv == LifeTyped /\ MarkAfterPut /\ NobodyPuts

(* Every step of a boot, of a shutdown and of the operator keeps it.       *)
LEMMA SeedStep == SeedInv /\ [NodeNext]_nodeVars => SeedInv'
<1> SUFFICES ASSUME SeedInv, [NodeNext]_nodeVars PROVE SeedInv'
  OBVIOUS
<1> USE DEF SeedInv, LifeTyped, MarkAfterPut, NobodyPuts, Stages, auth, life,
        Move, Step, Enter
<1>1. CASE RedisLoses
  BY <1>1 DEF RedisLoses
<1>2. CASE OperatorDeletes
  BY <1>2 DEF OperatorDeletes
<1>3. ASSUME NEW n \in Nodes, LifeStep(n) PROVE SeedInv'
  <2>1. CASE StartAgent(n)
    BY <2>1 DEF StartAgent, Workers
  <2>2. CASE OpenStores(n)
    BY <2>2 DEF OpenStores
  <2>3. CASE GetRegexSeeded(n)
    BY <2>3 DEF GetRegexSeeded
  <2>4. CASE PutRegexRule(n)
    BY <2>4 DEF PutRegexRule, RulePut
  <2>5. CASE SetRegexSeeded(n)
    BY <2>5 DEF SetRegexSeeded
  <2>6. CASE ApplyDefaults(n)
    BY <2>6 DEF ApplyDefaults
  <2>7. CASE SeedLen(n)
    BY <2>7 DEF SeedLen
  <2>8. CASE SeedSet(n)
    BY <2>8 DEF SeedSet
  <2>9. CASE SeedPrint(n)
    BY <2>9 DEF SeedPrint
  <2>10. CASE StartWorkers(n)
    BY <2>10 DEF StartWorkers, Workers
  <2>11. CASE Serve(n)
    BY <2>11 DEF Serve, Workers
  <2>12. CASE Shutdown(n)
    BY <2>12 DEF Shutdown, Leave
  <2>13. CASE BootFails(n)
    <3>1. /\ stage' = [stage EXCEPT ![n] = "stopping"]
          /\ UNCHANGED running
      BY <2>13 DEF BootFails, Leave
    <3>2. CASE UNCHANGED auth
      BY <3>1, <3>2
    <3>3. CASE stage[n] = "put" /\ RulePut /\ UNCHANGED <<marked, removed>>
      BY <3>1, <3>3 DEF RulePut
    <3>4. CASE /\ stage[n] = "mark"
               /\ marked' = TRUE
               /\ UNCHANGED <<seedRules, everPut, removed>>
      BY <3>1, <3>4
    <3> QED
      BY <2>13, <3>2, <3>3, <3>4 DEF BootFails
  <2>14. CASE StopNext(n)
    BY <2>14 DEF StopNext
  <2>15. CASE Exit(n) \/ Kill(n)
    BY <2>15 DEF Exit, Kill, Gone
  <2> QED
    BY <1>3, <2>1, <2>2, <2>3, <2>4, <2>5, <2>6, <2>7, <2>8, <2>9, <2>10,
       <2>11, <2>12, <2>13, <2>14, <2>15 DEF LifeStep
<1>4. CASE UNCHANGED nodeVars
  BY <1>4 DEF nodeVars
<1> QED
  BY <1>1, <1>2, <1>3, <1>4 DEF NodeNext

(* Before the first boot nothing runs and nothing is seeded.               *)
LEMMA SeedStart == NodeInit => SeedInv
<1> SUFFICES ASSUME NodeInit PROVE SeedInv
  OBVIOUS
<1>1. /\ stage = [n \in Nodes |-> "off"]
      /\ running = [n \in Nodes |-> {}]
      /\ seedRules = 0
  BY DEF NodeInit
<1>2. marked = FALSE /\ everPut = FALSE /\ removed = FALSE
  BY DEF NodeInit
<1>3. LifeTyped
  BY <1>1, <1>2 DEF LifeTyped, Stages
<1>4. MarkAfterPut
  BY <1>1, <1>2 DEF MarkAfterPut
<1> QED
  BY <1>2, <1>3, <1>4 DEF SeedInv, NobodyPuts

(* No node ever serves before the initial rule was put and marked, however *)
(* many nodes boot together and wherever they are killed.                  *)
THEOREM BootSeedsFirst == NodeSpec => []NeverServedUnseeded
<1>1. SeedInv => NeverServedUnseeded
  BY DEF SeedInv, LifeTyped, MarkAfterPut, NeverServedUnseeded
<1> QED
  BY <1>1, SeedStart, SeedStep, PTL DEF NodeSpec

(* An initial rule that an operator has deleted while nobody was putting   *)
(* one does not come back at a later boot of any node.                     *)
THEOREM BootKeepsDeletion == NodeSpec => []DeletionSticks
<1>1. SeedInv => DeletionSticks
  BY DEF SeedInv, NobodyPuts, DeletionSticks
<1> QED
  BY <1>1, SeedStart, SeedStep, PTL DEF NodeSpec

----------------------------------------------------------------------------
(* The password of the initial admin.                                      *)

PasswordInv == stage \in [Nodes -> Stages] /\ initial \in [Nodes -> Nat]
               /\ boots \in Nat /\ InitialPasswordPrinted

(* HSET makes the password of its own node the current one, and that node  *)
(* is then about to print it: the invariant is inductive.                  *)
LEMMA PasswordStep == PasswordInv /\ [NodeNext]_nodeVars => PasswordInv'
<1> SUFFICES ASSUME PasswordInv, [NodeNext]_nodeVars PROVE PasswordInv'
  OBVIOUS
<1> USE DEF PasswordInv, InitialPasswordPrinted, Stages, seed, life, Move, Step,
        Enter
<1>1. CASE RedisLoses
  BY <1>1 DEF RedisLoses
<1>2. CASE OperatorDeletes
  BY <1>2 DEF OperatorDeletes
<1>3. ASSUME NEW n \in Nodes, LifeStep(n) PROVE PasswordInv'
  <2>1. CASE StartAgent(n) \/ OpenStores(n) \/ GetRegexSeeded(n)
             \/ PutRegexRule(n) \/ SetRegexSeeded(n)
    BY <2>1 DEF StartAgent, OpenStores, GetRegexSeeded, PutRegexRule,
                SetRegexSeeded
  <2>2. CASE ApplyDefaults(n)
    BY <2>2 DEF ApplyDefaults
  <2>3. CASE SeedLen(n)
    BY <2>3 DEF SeedLen
  <2>4. CASE SeedSet(n)
    BY <2>4 DEF SeedSet
  <2>5. CASE SeedPrint(n)
    BY <2>5 DEF SeedPrint
  <2>6. CASE StartWorkers(n) \/ Serve(n) \/ Shutdown(n) \/ StopNext(n)
    BY <2>6 DEF StartWorkers, Serve, Shutdown, StopNext, Leave
  <2>7. CASE BootFails(n)
    BY <2>7 DEF BootFails, Leave
  <2>8. CASE Exit(n)
    BY <2>8 DEF Exit, Gone
  <2>9. CASE Kill(n)
    BY <2>9 DEF Kill, Gone
  <2> QED
    BY <1>3, <2>1, <2>2, <2>3, <2>4, <2>5, <2>6, <2>7, <2>8, <2>9 DEF LifeStep
<1>4. CASE UNCHANGED nodeVars
  BY <1>4 DEF nodeVars
<1> QED
  BY <1>1, <1>2, <1>3, <1>4 DEF NodeNext

(* The password that opens a fresh cluster has been printed by the node    *)
(* that stored it, or is about to be, unless that node ended in between.   *)
THEOREM BootPrintsPassword == NodeSpec => []InitialPasswordPrinted
<1>1. NodeInit => PasswordInv
  BY DEF NodeInit, PasswordInv, InitialPasswordPrinted, Stages
<1>2. PasswordInv => InitialPasswordPrinted
  BY DEF PasswordInv
<1> QED
  BY <1>1, <1>2, PasswordStep, PTL DEF NodeSpec

----------------------------------------------------------------------------
(* The order of shutdown.                                                  *)

AfterCleanup == <<{"agent"}, {"http"}, Stores>>
AfterAgent   == <<{"http"}, Stores>>
Orders       == {StopOrder, AfterCleanup, AfterAgent, Defers, <<>>}

(* Append to a tuple of three.                                             *)
LEMMA AppendToThree ==
    ASSUME NEW S, NEW a \in S, NEW b \in S, NEW c \in S, NEW d \in S
    PROVE  Append(<<a, b, c>>, d) = <<a, b, c, d>>
<1>1. <<a, b, c>> \in Seq(S) /\ <<a, b, c, d>> \in Seq(S)
  OBVIOUS
<1>2. /\ Append(<<a, b, c>>, d) \in Seq(S)
      /\ Len(Append(<<a, b, c>>, d)) = 4
  BY <1>1, AppendProperties
<1>3. \A i \in 1..4 : Append(<<a, b, c>>, d)[i] = <<a, b, c, d>>[i]
  <2>1. \A i \in 1..3 : Append(<<a, b, c>>, d)[i] = <<a, b, c>>[i]
    BY <1>1, AppendProperties
  <2>2. Append(<<a, b, c>>, d)[4] = d
    BY <1>1, AppendProperties
  <2> QED
    BY <2>1, <2>2
<1> QED
  BY <1>1, <1>2, <1>3, SeqEqual

(* What Leave and StopNext make of todo.                                   *)
LEMMA OrderSteps ==
    /\ StopOrder # <<>> /\ Head(StopOrder) = {"sampler", "bridge"}
    /\ Tail(StopOrder) = AfterCleanup
    /\ AfterCleanup # <<>> /\ Head(AfterCleanup) = {"agent"}
    /\ Tail(AfterCleanup) = AfterAgent
    /\ AfterAgent # <<>> /\ Head(AfterAgent) = {"http"}
    /\ Tail(AfterAgent) = Defers
    /\ Defers # <<>> /\ Head(Defers) = Stores /\ Tail(Defers) = <<>>
    /\ StopOrder # AfterAgent /\ StopOrder # Defers /\ StopOrder # AfterCleanup
    /\ AfterCleanup # AfterAgent /\ AfterCleanup # Defers /\ AfterAgent # Defers
<1>1. StopOrder = <<{"sampler", "bridge"}, {"agent"}, {"http"}, Stores>>
  <2> DEFINE serving == <<{"sampler", "bridge"}, {"agent"}, {"http"}>>
             S == SUBSET (Stores \cup Workers)
  <2>1. serving \in Seq(S) /\ Stores \in S
    BY DEF Stores, Workers
  <2>2. serving \o <<Stores>> = Append(serving, Stores)
    BY <2>1, AppendIsConcat
  <2>3. /\ {"sampler", "bridge"} \in S /\ {"agent"} \in S /\ {"http"} \in S
        /\ Stores \in S
    BY DEF Workers
  <2>4. StopOrder = serving \o <<Stores>>
    BY Zenon DEF StopOrder, Defers
  <2> HIDE DEF S
  <2>5. Append(serving, Stores)
          = <<{"sampler", "bridge"}, {"agent"}, {"http"}, Stores>>
    BY <2>3, AppendToThree
  <2> QED
    BY <2>2, <2>4, <2>5
<1> QED
  BY <1>1 DEF AfterCleanup, AfterAgent, Defers

StopTyped ==
    /\ stage \in [Nodes -> Stages]
    /\ todo \in [Nodes -> Orders]
    /\ running \in [Nodes -> SUBSET Workers]
    /\ open \in [Nodes -> SUBSET Stores]
    /\ aborted \in [Nodes -> BOOLEAN]

(* Who is still there at which point of the way down.                      *)
StillThere(n) ==
    /\ stage[n] \notin {"off", "agent", "stopping"} => open[n] = Stores
    /\ "http" \in running[n] =>
        /\ open[n] = Stores
        /\ \/ stage[n] = "serve"
           \/ stage[n] = "stopping"
                /\ todo[n] \in {StopOrder, AfterCleanup, AfterAgent}
    /\ "bridge" \in running[n] /\ ~aborted[n] =>
        /\ open[n] = Stores
        /\ \/ stage[n] \in {"listen", "serve"}
           \/ stage[n] = "stopping" /\ todo[n] = StopOrder

StopInv == StopTyped /\ \A n \in Nodes : StillThere(n)

(* The steps of a node leave the other nodes alone; those of its own are   *)
(* the ones that start, stop, open or close something.                     *)
LEMMA StopStep == StopInv /\ [NodeNext]_nodeVars => StopInv'
<1> SUFFICES ASSUME StopInv, [NodeNext]_nodeVars PROVE StopInv'
  OBVIOUS
<1> USE DEF StopInv, StopTyped, StillThere, Stages, life, Move, Step, Enter
<1>1. CASE RedisLoses
  BY <1>1 DEF RedisLoses
<1>2. CASE OperatorDeletes
  BY <1>2 DEF OperatorDeletes
<1>3. ASSUME NEW n \in Nodes, LifeStep(n) PROVE StopInv'
  <2>1. CASE StartAgent(n)
    BY <2>1 DEF StartAgent, Workers
  <2>2. CASE OpenStores(n)
    BY <2>2 DEF OpenStores
  <2>3. CASE GetRegexSeeded(n) \/ PutRegexRule(n) \/ SetRegexSeeded(n)
    BY <2>3 DEF GetRegexSeeded, PutRegexRule, SetRegexSeeded
  <2>4. CASE ApplyDefaults(n)
    BY <2>4 DEF ApplyDefaults
  <2>5. CASE SeedLen(n) \/ SeedSet(n) \/ SeedPrint(n)
    BY <2>5 DEF SeedLen, SeedSet, SeedPrint
  <2>6. CASE StartWorkers(n)
    BY <2>6 DEF StartWorkers, Workers
  <2>7. CASE Serve(n)
    BY <2>7 DEF Serve, Workers
  <2>8. CASE Shutdown(n)
    BY <2>8 DEF Shutdown, Leave, Orders
  <2>9. CASE BootFails(n)
    <3>1. /\ stage' = [stage EXCEPT ![n] = "stopping"]
          /\ todo' = [todo EXCEPT ![n] = Defers]
          /\ aborted' = [aborted EXCEPT ![n] = TRUE]
          /\ UNCHANGED <<running, open>>
          /\ stage[n] \notin {"off", "serve", "stopping"}
      BY <2>9 DEF BootFails, Leave, Booting
    <3> QED
      BY <3>1 DEF Orders
  <2>10. CASE StopNext(n)
    <3>1. /\ stage[n] = "stopping" /\ todo[n] # <<>>
          /\ running' = [running EXCEPT ![n] = @ \ Head(todo[n])]
          /\ open' = [open EXCEPT ![n] = @ \ Head(todo[n])]
          /\ todo' = [todo EXCEPT ![n] = Tail(@)]
          /\ UNCHANGED <<stage, aborted>>
      BY <2>10 DEF StopNext
    <3>2. Stores \cap Workers = {}
      BY DEF Stores, Workers
    <3>3. CASE todo[n] = StopOrder
      BY <3>1, <3>3, OrderSteps DEF Orders, Stores
    <3>4. CASE todo[n] = AfterCleanup
      BY <3>1, <3>4, OrderSteps DEF Orders, Stores
    <3>5. CASE todo[n] = AfterAgent
      BY <3>1, <3>5, OrderSteps DEF Orders, Stores
    <3>6. CASE todo[n] = Defers
      BY <3>1, <3>2, <3>6, OrderSteps DEF Orders, Workers
    <3> QED
      BY <3>1, <3>3, <3>4, <3>5, <3>6 DEF Orders
  <2>11. CASE Exit(n) \/ Kill(n)
    BY <2>11 DEF Exit, Kill, Gone, Orders
  <2> QED
    BY <1>3, <2>1, <2>2, <2>3, <2>4, <2>5, <2>6, <2>7, <2>8, <2>9, <2>10,
       <2>11 DEF LifeStep
<1>4. CASE UNCHANGED nodeVars
  BY <1>4 DEF nodeVars
<1> QED
  BY <1>1, <1>2, <1>3, <1>4 DEF NodeNext

(* No node that has served closes a store under its HTTP handlers or under *)
(* the bridge, wherever the signal comes and whatever else happens.        *)
THEOREM BootClosesLast == NodeSpec => []StoresOutliveUsers
<1>1. NodeInit => StopInv
  BY DEF NodeInit, StopInv, StopTyped, StillThere, Stages, Orders
<1>2. StopInv => StoresOutliveUsers
  BY DEF StopInv, StillThere, StoresOutliveUsers, Stores
<1> QED
  BY <1>1, <1>2, StopStep, PTL DEF NodeSpec

----------------------------------------------------------------------------
(* Types.                                                                  *)

(* What NodeTypeOK says of the passwords, beyond the invariants above.     *)
SeedTyped ==
    /\ admin \in Nat \cup {Absent}
    /\ printed \subseteq Nat
    /\ blind \in BOOLEAN
    /\ failures \in Nat

(* Passwords are the ones that Seed has drawn.                             *)
LEMMA SeedTypedStep == PasswordInv /\ SeedTyped /\ [NodeNext]_nodeVars => SeedTyped'
<1> SUFFICES ASSUME PasswordInv, SeedTyped, [NodeNext]_nodeVars PROVE SeedTyped'
  OBVIOUS
<1>0. initial \in [Nodes -> Nat]
  BY DEF PasswordInv
<1> USE DEF SeedTyped, seed, life, Move, Step
<1>1. CASE RedisLoses \/ OperatorDeletes
  BY <1>1 DEF RedisLoses, OperatorDeletes
<1>2. ASSUME NEW n \in Nodes, LifeStep(n) PROVE SeedTyped'
  <2>1. CASE UNCHANGED <<admin, printed, blind, failures>>
    BY <2>1
  <2>2. CASE SeedSet(n) \/ SeedPrint(n)
    BY <1>0, <2>2 DEF SeedSet, SeedPrint
  <2>3. CASE BootFails(n)
    <3>1. /\ failures' = failures + 1
          /\ \/ UNCHANGED <<admin, printed, blind>>
             \/ admin' = initial[n] /\ blind' = TRUE /\ printed' = printed
      BY <2>3 DEF BootFails
    <3>2. blind' \in BOOLEAN
      BY <3>1, Zenon
    <3>3. admin' \in Nat \cup {Absent} /\ printed' \subseteq Nat
      BY <1>0, <3>1
    <3> QED
      BY <3>1, <3>2, <3>3
  <2>4. CASE Exit(n)
    BY <2>4 DEF Exit, Gone
  <2>5. CASE Kill(n)
    <3>1. blind' \in BOOLEAN
      BY <2>5, Zenon DEF Kill
    <3>2. UNCHANGED <<admin, printed, failures>>
      BY <2>5 DEF Kill, Gone
    <3> QED
      BY <3>1, <3>2
  <2> QED
    BY <1>2, <2>1, <2>2, <2>3, <2>4, <2>5 DEF LifeStep, StartAgent, OpenStores,
       GetRegexSeeded, PutRegexRule, SetRegexSeeded, ApplyDefaults, SeedLen,
       StartWorkers, Serve, Shutdown, StopNext
<1>3. CASE UNCHANGED nodeVars
  BY <1>3 DEF nodeVars
<1> QED
  BY <1>1, <1>2, <1>3 DEF NodeNext

(* What is left to stop is always a list of stores and goroutines.         *)
LEMMA OrdersTyped == Orders \subseteq Seq(SUBSET (Stores \cup Workers))
<1> DEFINE S == SUBSET (Stores \cup Workers)
<1>1. /\ {"sampler", "bridge"} \in S /\ {"agent"} \in S /\ {"http"} \in S
      /\ Stores \in S
  BY DEF Workers
<1> HIDE DEF S
<1>2. /\ <<{"sampler", "bridge"}, {"agent"}, {"http"}>> \in Seq(S)
      /\ Defers \in Seq(S) /\ <<>> \in Seq(S)
  BY <1>1 DEF Defers
<1>3. StopOrder \in Seq(S)
  BY <1>2, ConcatProperties DEF StopOrder
<1>4. AfterCleanup \in Seq(S) /\ AfterAgent \in Seq(S)
  BY <1>1 DEF AfterCleanup, AfterAgent
<1>5. Orders \subseteq Seq(S)
  BY <1>2, <1>3, <1>4, Zenon DEF Orders
<1> QED
  BY <1>5 DEF S

(* Every state of the nodes' lives has its type, wherever a boot fails and *)
(* whenever a node is killed.                                              *)
THEOREM BootTyped == NodeSpec => []NodeTypeOK
<1>1. NodeInit => PasswordInv /\ SeedTyped /\ StopInv
  <2> SUFFICES ASSUME NodeInit PROVE PasswordInv /\ SeedTyped /\ StopInv
    OBVIOUS
  <2>1. PasswordInv
    BY DEF NodeInit, PasswordInv, InitialPasswordPrinted, Stages
  <2>2. blind \in BOOLEAN
    BY Zenon DEF NodeInit
  <2>3. admin \in Nat \cup {Absent} /\ printed \subseteq Nat /\ failures \in Nat
    BY DEF NodeInit
  <2>4. StopInv
    BY DEF NodeInit, StopInv, StopTyped, StillThere, Stages, Orders
  <2> QED
    BY <2>1, <2>2, <2>3, <2>4 DEF SeedTyped
<1>2. TypeOK /\ PasswordInv /\ SeedTyped /\ StopInv /\ SeedInv => NodeTypeOK
  <2> SUFFICES ASSUME TypeOK, PasswordInv, SeedTyped, StopInv, SeedInv
               PROVE  NodeTypeOK
    OBVIOUS
  <2>1. todo \in [Nodes -> Seq(SUBSET (Stores \cup Workers))]
    <3>1. todo \in [Nodes -> Orders]
      BY DEF StopInv, StopTyped
    <3> QED
      BY <3>1, OrdersTyped
  <2>2. {marked, everPut, removed, blind} \subseteq BOOLEAN
    BY Zenon DEF SeedInv, LifeTyped, SeedTyped
  <2> QED
    BY <2>1, <2>2 DEF NodeTypeOK, SeedInv, LifeTyped, SeedTyped, StopInv, StopTyped,
       PasswordInv
<1>3. NodeSpec => []TypeOK
  BY BootImplementsSecret, SecretTyped, PTL
<1> QED
  BY <1>1, <1>2, <1>3, SeedTypedStep, PasswordStep, StopStep, SeedStart, SeedStep,
     PTL DEF NodeSpec
============================================================================
