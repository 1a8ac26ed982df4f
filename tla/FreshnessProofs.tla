-------------------------- MODULE FreshnessProofs --------------------------
(***************************************************************************)
(* A proof about RefreshSchedule: what the targets hold was looked up      *)
(* recently, for all specs, intervals, lengths of a reconcile, and faults. *)
(***************************************************************************)
EXTENDS RefreshScheduleProofs, FiniteSetTheorems

-----------------------------------------------------------------------------
(* The inductive invariant *)

\* The stages that come after the refresh of f.
Past(f) ==
  CASE f = "flag"     -> {"keyValue", "secret", "write", "finish"}
    [] f = "keyValue" -> {"secret", "write", "finish"}
    [] f = "secret"   -> {"write", "finish"}

\* The types of the times, and the specs a reconcile may be working on.
Times ==
  /\ DOMAIN next = Features
  /\ \A f \in Features : next[f] # None => next[f] \in Int /\ next[f] >= -1
  /\ wake # None => wake \in Nat
  /\ age \in [Features -> Nat]
  /\ left \in [Kinds -> Nat] /\ left["fault"] <= Budget["fault"]
  /\ IF pc = "idle" THEN elapsed = 0 ELSE job.spec \in Specs \cup {spec}

\* A reconcile of a new generation starts anew; one that is past the refresh of a
\* feature that was due has looked at it.
Looks ==
  pc # "idle" =>
    /\ job.generation # observed => job.should
    /\ job.should /\ pc # "full" => job.handled = Features
    /\ job.secret => "secret" \in job.handled
    /\ \A f \in Features :
         pc \in Past(f) /\ Enabled(job.spec, f) /\ f \in job.due => f \in job.handled

\* The refresh times of the features that are enabled are set: once a spec is in
\* force, and in a reconcile that found them set or is past setting them.
Armed(f) ==
  /\ observed = generation /\ Enabled(spec, f) => next[f] # None
  /\ pc # "idle" /\ Enabled(job.spec, f) /\ (f \notin job.due \/ pc \in Past(f))
       => next[f] # None

\* A refresh time is not further from the CurrentTime of the reconcile than an
\* interval: that of the spec or, for the secrets, of some spec.
Bounded(f) ==
  next[f] \in Nat =>
    IF f = "secret"
    THEN \E s \in Specs \cup {spec} :
           Enabled(s, f) /\ next[f] + elapsed <= Interval(s, f)
    ELSE \/ observed # generation /\ ~ (pc \in Past(f) /\ job.generation = generation)
         \/ ~ Enabled(spec, f)
         \/ next[f] + elapsed <= Interval(spec, f)

\* What a failed step costs, and what the faults so far have cost.
Cost(f) == Max({RetryAfter, Longest(f)}) + Second + MaxDuration
Allowance(f) == (Budget["fault"] - left["fault"]) * Cost(f)

\* Between reconciles, the next one comes in time: at the refresh time or, if that
\* is less than a second away or the last reconcile failed, soon enough.
Waiting(f) ==
  /\ age[f] <= Longest(f) + MaxDuration + Second + Allowance(f)
  /\ next[f] \in Nat => age[f] + next[f] <= Longest(f) + Allowance(f)
  /\ ~queue =>
       /\ wake # None
       /\ \/ next[f] \in Nat /\ wake <= next[f]
          \/ age[f] + wake <= Longest(f) + MaxDuration + Second + Allowance(f)

\* A reconcile that started before the refresh time of f leaves it to the next one.
Looking(f) ==
  /\ age[f] <= Longest(f) + MaxDuration + Second + Allowance(f) + elapsed
  /\ f \notin job.due /\ ~job.should =>
       /\ age[f] <= Longest(f) + Allowance(f) + elapsed
       /\ next[f] \in Nat => age[f] + next[f] <= Longest(f) + Allowance(f)

InTime(f) ==
  VerifyObject(spec, env) /\ observed = generation /\ Enabled(spec, f) =>
    IF pc = "idle" THEN Waiting(f) ELSE Looking(f)

FreshInv ==
  /\ VaultInv /\ Times /\ Looks
  /\ \A f \in Features : Armed(f) /\ Bounded(f) /\ InTime(f)
-----------------------------------------------------------------------------
(* Intervals *)

\* A finite set of natural numbers has a greatest element.
LEMMA FiniteMaximum ==
  ASSUME NEW T, IsFiniteSet(T), T \subseteq Nat, T # {}
  PROVE  Max(T) \in T /\ \A x \in T : x <= Max(T)
<1> DEFINE Unbounded(n) == \E g \in [1..n -> Nat] : \A b \in Nat : \E i \in 1..n : ~ (g[i] <= b)
           Bad == {n \in Nat : Unbounded(n)}
<1>1. Bad = {}
  <2> SUFFICES ASSUME Bad # {} PROVE FALSE
    OBVIOUS
  <2>1. PICK n \in Bad : \A j \in Bad : n <= j
    <3>1. Bad \subseteq Nat
      OBVIOUS
    <3> HIDE DEF Bad
    <3> QED BY <3>1, NatMinimum
  <2>2. n \in Nat /\ Unbounded(n)
    OBVIOUS
  <2>3. PICK g \in [1..n -> Nat] : \A b \in Nat : \E i \in 1..n : ~ (g[i] <= b)
    BY <2>2
  <2>4. n # 0
    <3>1. \E i \in 1..n : ~ (g[i] <= 0)
      BY <2>3
    <3> QED BY <2>2, <3>1
  <2>5. n - 1 \in Nat /\ n - 1 \notin Bad
    <3>1. n - 1 \in Nat /\ ~ (n <= n - 1)
      BY <2>2, <2>4
    <3> HIDE DEF Bad
    <3> QED BY <2>1, <3>1
  <2> DEFINE h == [i \in 1..(n - 1) |-> g[i]]
  <2>6. h \in [1..(n - 1) -> Nat]
    <3>1. \A i \in 1..(n - 1) : i \in 1..n
      BY <2>2
    <3>2. \A i \in 1..(n - 1) : g[i] \in Nat
      BY <2>3, <3>1
    <3> QED BY <3>2
  <2>7. PICK b \in Nat : \A i \in 1..(n - 1) : h[i] <= b
    BY <2>5, <2>6
  <2> DEFINE c == IF g[n] <= b THEN b ELSE g[n]
  <2>8. g[n] \in Nat /\ c \in Nat /\ b <= c /\ g[n] <= c
    <3>1. n \in 1..n
      BY <2>2, <2>4
    <3>2. g[n] \in Nat
      BY <2>3, <3>1
    <3> HIDE DEF Bad
    <3> QED BY <3>2
  <2>9. ASSUME NEW i \in 1..n PROVE g[i] <= c
    <3>1. CASE i = n
      BY <3>1, <2>8
    <3>2. CASE i # n
      <4>1. i \in 1..(n - 1)
        BY <3>2, <2>2
      <4>2. g[i] <= b /\ g[i] \in Nat
        BY <4>1, <2>7
      <4> HIDE DEF c
      <4> QED BY <4>2, <2>8
    <3> QED BY <3>1, <3>2
  <2> HIDE DEF c
  <2> QED BY <2>3, <2>8, <2>9
<1>2. PICK n \in Nat : ExistsBijection(1..n, T)
  BY FS_NatBijection
<1>3. PICK g \in Bijection(1..n, T) : TRUE
  BY <1>2 DEF ExistsBijection
<1>4. g \in [1..n -> T] /\ \A x \in T : \E i \in 1..n : g[i] = x
  BY <1>3 DEF Bijection, Surjection, Injection
<1>5. g \in [1..n -> Nat]
  BY <1>4
<1>6. ~ Unbounded(n)
  BY <1>1
<1>7. PICK b \in Nat : \A i \in 1..n : g[i] <= b
  BY <1>5, <1>6
<1>8. \A x \in T : x <= b
  BY <1>4, <1>7
<1> DEFINE U == {u \in Nat : \A x \in T : x <= u}
<1>9. PICK u \in U : \A v \in U : u <= v
  <2>1. U \subseteq Nat /\ U # {}
    BY <1>8
  <2> HIDE DEF U
  <2> QED BY <2>1, NatMinimum
<1>10. u \in T
  <2> SUFFICES ASSUME u \notin T PROVE FALSE
    OBVIOUS
  <2>1. PICK x \in T : TRUE
    OBVIOUS
  <2>2. u - 1 \in Nat /\ ~ (u <= u - 1)
    BY <2>1, <1>9
  <2>3. \A y \in T : y <= u - 1
    BY <1>9
  <2>4. u - 1 \in U
    BY <2>2, <2>3
  <2> HIDE DEF U
  <2> QED BY <1>9, <2>2, <2>4
<1>11. \E m \in T : \A y \in T : m >= y
  BY <1>9, <1>10
<1>12. Max(T) \in T /\ \A y \in T : Max(T) >= y
  BY <1>11 DEF Max
<1> QED BY <1>12

\* The refresh interval of a spec is a number.
LEMMA IntervalNumber ==
  ASSUME NEW s \in ProviderSpec, NEW f \in Features, Enabled(s, f)
  PROVE  Interval(s, f) \in Nat
<1>1. RefreshOf(s, f) \in Refresh \cup ConfigurationRefresh
  <2>1. CASE f = "flag"
    BY <2>1 DEF Enabled, RefreshOf, ProviderSpec, FlagOptions
  <2>2. CASE f = "keyValue"
    BY <2>2 DEF Enabled, RefreshOf, ProviderSpec
  <2>3. CASE f = "secret"
    BY <2>3 DEF Enabled, RefreshOf, ProviderSpec, SecretOptions
  <2> QED BY <2>1, <2>2, <2>3 DEF Features
<1>2. RefreshOf(s, f).interval \in Durations
  BY <1>1 DEF Refresh, ConfigurationRefresh
<1> QED BY <1>2 DEF Interval, ParseDuration, Durations

\* The longest interval is one, and is that of the spec or longer.
LEMMA LongestNumber ==
  ASSUME Accepted, NEW f \in Features, Enabled(spec, f)
  PROVE  /\ Longest(f) \in Nat
         /\ Interval(spec, f) \in Nat /\ Interval(spec, f) <= Longest(f)
         /\ f = "secret" => \A s \in Specs \cup {spec} : Enabled(s, f) =>
              Interval(s, f) \in Nat /\ Interval(s, f) <= Longest(f)
<1>1. Specs \cup {spec} \subseteq ProviderSpec /\ IsFiniteSet(Specs)
  BY SpecsAssumption DEF Accepted
<1>2. Interval(spec, f) \in Nat
  BY <1>1, IntervalNumber
<1>3. CASE f # "secret"
  BY <1>2, <1>3 DEF Longest
<1>4. CASE f = "secret"
  <2> DEFINE S == {t \in Specs \cup {spec} : Enabled(t, f)}
             T == {Interval(s, f) : s \in S}
  <2>1. IsFiniteSet(S)
    <3>1. IsFiniteSet(Specs \cup {spec})
      BY <1>1, FS_AddElement
    <3> QED BY <3>1, FS_Subset
  <2>2. IsFiniteSet(T)
    <3> DEFINE g == [s \in S |-> Interval(s, f)]
    <3>1. g \in Surjection(S, T)
      BY DEF Surjection
    <3> QED BY <2>1, <3>1, FS_Surjection
  <2>3. T \subseteq Nat /\ T # {}
    BY <1>1, IntervalNumber
  <2>4. Longest(f) = Max(T)
    BY <1>4 DEF Longest
  <2>5. \A s \in Specs \cup {spec} : Enabled(s, f) => Interval(s, f) \in T
    OBVIOUS
  <2> HIDE DEF T
  <2>6. Max(T) \in T /\ \A x \in T : x <= Max(T)
    BY <2>2, <2>3, FiniteMaximum
  <2> QED BY <1>2, <2>3, <2>4, <2>5, <2>6
<1> QED BY <1>3, <1>4

\* A refresh time falls within the longest interval.
LEMMA BoundedLongest ==
  ASSUME FreshInv, NEW f \in Features, Enabled(spec, f), next[f] \in Nat,
         observed = generation \/ (pc \in Past(f) /\ job.generation = generation)
  PROVE  next[f] + elapsed <= Longest(f)
<1>1. Bounded(f) /\ Accepted /\ elapsed \in Nat
  BY ScheduleAssumption DEF FreshInv, VaultInv, Clocks
<1>2. /\ Longest(f) \in Nat
      /\ Interval(spec, f) \in Nat /\ Interval(spec, f) <= Longest(f)
      /\ f = "secret" => \A s \in Specs \cup {spec} : Enabled(s, f) =>
           Interval(s, f) \in Nat /\ Interval(s, f) <= Longest(f)
  BY <1>1, LongestNumber
<1>3. CASE f = "secret"
  <2>1. PICK s \in Specs \cup {spec} : Enabled(s, f) /\ next[f] + elapsed <= Interval(s, f)
    BY <1>1, <1>3 DEF Bounded
  <2> QED BY <1>1, <1>2, <1>3, <2>1
<1>4. CASE f # "secret"
  <2>1. next[f] + elapsed <= Interval(spec, f)
    BY <1>1, <1>4 DEF Bounded
  <2> QED BY <1>1, <1>2, <2>1
<1> QED BY <1>3, <1>4

\* A fault costs at least a retry or an interval, a second and a reconcile.
LEMMA CostNumber ==
  ASSUME Accepted, NEW f \in Features, Enabled(spec, f)
  PROVE  /\ Cost(f) \in Nat
         /\ RetryAfter + Second + MaxDuration <= Cost(f)
         /\ Longest(f) + Second + MaxDuration <= Cost(f)
<1>1. Longest(f) \in Nat
  BY LongestNumber
<1>2. Max({RetryAfter, Longest(f)}) = IF RetryAfter >= Longest(f) THEN RetryAfter ELSE Longest(f)
  BY <1>1, MaxOfTwo, ScheduleAssumption
<1> QED BY <1>1, <1>2, ScheduleAssumption, DurationsAssumption DEF Cost

\* A product with one factor more.
LEMMA OneMore ==
  ASSUME NEW a \in Nat, NEW b \in Nat, NEW c \in Nat, b > 0, b <= a
  PROVE  (a - (b - 1)) * c = (a - b) * c + c
<1> DEFINE d == a - b
<1>1. d \in Nat /\ a - (b - 1) = d + 1
  OBVIOUS
<1> HIDE DEF d
<1>2. (d + 1) * c = d * c + c
  BY <1>1
<1> QED BY <1>1, <1>2 DEF d

\* What the faults so far have cost is within the budget.
LEMMA AllowanceNumber ==
  ASSUME Accepted, Times, NEW f \in Features, Enabled(spec, f)
  PROVE  /\ Allowance(f) \in Nat
         /\ Allowance(f) <= Budget["fault"] * Cost(f)
<1>1. left["fault"] \in Nat /\ left["fault"] <= Budget["fault"] /\ Budget["fault"] \in Nat
  BY ScheduleAssumption DEF Times, Kinds
<1>2. Cost(f) \in Nat
  BY CostNumber
<1> DEFINE a == Budget["fault"] - left["fault"]
           c == Cost(f)
           b == Budget["fault"]
<1>3. a \in Nat /\ b \in Nat /\ a <= b /\ c \in Nat
  BY <1>1, <1>2
<1>4. Allowance(f) = a * c
  BY DEF Allowance
<1> HIDE DEF a, b, c
<1>5. a * c \in Nat /\ a * c <= b * c
  BY <1>3
<1> QED BY <1>4, <1>5 DEF b, c

\* The numbers of a feature do not depend on anything but the spec and the faults.
LEMMA SameNumbers ==
  ASSUME NEW f \in Features, spec' = spec
  PROVE  /\ Longest(f)' = Longest(f) /\ Cost(f)' = Cost(f)
         /\ left'["fault"] = left["fault"] => Allowance(f)' = Allowance(f)
<1>1. Longest(f)' = Longest(f)
  BY DEF Longest
<1>2. Cost(f)' = Cost(f)
  BY <1>1 DEF Cost
<1> QED BY <1>1, <1>2 DEF Allowance

-----------------------------------------------------------------------------
(* The stages of a reconcile *)

\* Before a stage, and the order of the stages.
LEMMA Facts ==
  ASSUME FreshInv
  PROVE  /\ Accepted /\ Times /\ VaultInv
         /\ elapsed \in Nat /\ elapsed <= MaxDuration
         /\ MaxDuration \in Nat /\ Second \in Nat /\ RetryAfter \in Nat
         /\ observed \in Nat /\ generation \in Nat /\ observed <= generation
         /\ job \in Job /\ job.generation \in Nat
         /\ None \notin Int
<1>1. Accepted /\ Times /\ VaultInv /\ Clocks
  BY DEF FreshInv, VaultInv
<1>2. job \in Job /\ job.generation \in Nat
  BY <1>1 DEF Accepted, Job
<1> QED BY <1>1, <1>2, ScheduleAssumption, DurationsAssumption DEF Clocks, Accepted

\* While a spec is in force, every reconcile is one of it.
LEMMA ForceJob ==
  ASSUME FreshInv, pc # "idle", observed = generation
  PROVE  job.generation = generation /\ job.spec = spec
BY Facts DEF FreshInv, VaultInv, JobCurrent

\* Setting the refresh time of a feature.
LEMMA ArmTime ==
  ASSUME FreshInv, pc # "idle", NEW g \in Features, Enabled(job.spec, g), Arm(g)
  PROVE  /\ DOMAIN next' = Features
         /\ \A f \in Features \ {g} : next'[f] = next[f]
         /\ next'[g] \in Int /\ next'[g] >= -1 /\ next'[g] # None
         /\ next'[g] \in Nat => next'[g] + elapsed <= Interval(job.spec, g)
<1>1. job.spec \in ProviderSpec
  BY Facts DEF Accepted, Verified
<1> DEFINE i == Interval(job.spec, g)
<1>2. i \in Nat
  BY <1>1, IntervalNumber
<1>3. /\ DOMAIN next' = Features
      /\ \A f \in Features \ {g} : next'[f] = next[f]
      /\ next'[g] = Max({-1, i - elapsed})
  BY Facts DEF Arm, Times
<1> HIDE DEF i
<1>4. Max({-1, i - elapsed}) = IF -1 >= i - elapsed THEN -1 ELSE i - elapsed
  BY <1>2, Facts, MaxOfTwo
<1>5. next'[g] \in Int /\ next'[g] >= -1 /\ (next'[g] \in Nat => next'[g] + elapsed <= i)
  BY <1>2, <1>3, <1>4, Facts
<1> QED BY <1>3, <1>5, Facts DEF i

\* What the stage of g may do to the refresh times.
TimeStep(g) ==
  \/ /\ Enabled(job.spec, g) /\ g \notin job.due /\ (g # "secret" => ~job.should)
     /\ UNCHANGED next
  \/ Enabled(job.spec, g) /\ (g \in job.due \/ job.should) /\ Arm(g)
  \/ ~Enabled(job.spec, g) /\ Disarm(g)

\* The refresh times after the stage of g.
LEMMA TimeStepTimes ==
  ASSUME FreshInv, pc # "idle", NEW g \in Features, TimeStep(g)
  PROVE  /\ DOMAIN next' = Features
         /\ \A f \in Features \ {g} : next'[f] = next[f]
         /\ next'[g] # None => next'[g] \in Int /\ next'[g] >= -1
         /\ \/ /\ Enabled(job.spec, g) /\ g \notin job.due /\ (g # "secret" => ~job.should)
               /\ next'[g] = next[g] /\ next[g] # None
            \/ /\ Enabled(job.spec, g) /\ (g \in job.due \/ job.should)
               /\ next'[g] # None
               /\ next'[g] \in Nat => next'[g] + elapsed <= Interval(job.spec, g)
            \/ ~Enabled(job.spec, g) /\ next'[g] = None
<1>1. CASE /\ Enabled(job.spec, g) /\ g \notin job.due /\ (g # "secret" => ~job.should)
           /\ UNCHANGED next
  <2>1. next[g] # None
    BY <1>1 DEF FreshInv, Armed
  <2> QED BY <1>1, <2>1, Facts DEF Times
<1>2. CASE Enabled(job.spec, g) /\ (g \in job.due \/ job.should) /\ Arm(g)
  BY <1>2, ArmTime
<1>3. CASE ~Enabled(job.spec, g) /\ Disarm(g)
  BY <1>3, Facts DEF Disarm, Times
<1> QED BY <1>1, <1>2, <1>3 DEF TimeStep

\* The stage of g is between the stages that are not past g and those that are.
LEMMA StageOrder ==
  ASSUME NEW g \in Features, pc = g,
         pc' = IF g = "flag" THEN "keyValue" ELSE IF g = "keyValue" THEN "secret" ELSE "write"
  PROVE  \A f \in Features : pc' \in Past(f) <=> (pc \in Past(f) \/ f = g)
BY DEF Past, Features

\* The stage of a feature keeps the times.
LEMMA FeatureStage ==
  ASSUME FreshInv, VaultInv', Looks', NEW g \in Features, pc = g,
         pc' = IF g = "flag" THEN "keyValue" ELSE IF g = "keyValue" THEN "secret" ELSE "write",
         SameStart(job, job'), TimeStep(g),
         UNCHANGED <<spec, generation, env, observed, wake, elapsed, age, left>>
  PROVE  FreshInv'
<1>1. pc # "idle" /\ pc' # "idle"
  BY DEF Features
<1>2. \A f \in Features : pc' \in Past(f) <=> (pc \in Past(f) \/ f = g)
  BY StageOrder
<1>3. /\ DOMAIN next' = Features
      /\ \A f \in Features \ {g} : next'[f] = next[f]
      /\ next'[g] # None => next'[g] \in Int /\ next'[g] >= -1
      /\ \/ /\ Enabled(job.spec, g) /\ g \notin job.due /\ (g # "secret" => ~job.should)
            /\ next'[g] = next[g] /\ next[g] # None
         \/ /\ Enabled(job.spec, g) /\ (g \in job.due \/ job.should)
            /\ next'[g] # None
            /\ next'[g] \in Nat => next'[g] + elapsed <= Interval(job.spec, g)
         \/ ~Enabled(job.spec, g) /\ next'[g] = None
  BY <1>1, TimeStepTimes
<1>4. /\ job'.spec = job.spec /\ job'.generation = job.generation
      /\ job'.should = job.should /\ job'.due = job.due
  BY DEF SameStart
<1>5. Times'
  BY <1>1, <1>3, <1>4, Facts DEF Times
<1>6. observed = generation => job.generation = generation /\ job.spec = spec
  BY <1>1, ForceJob
<1>7. job.generation = generation => job.spec = spec
  BY <1>1, Facts DEF VaultInv, JobCurrent
<1>8. None \notin Nat
  BY Facts
<1>9. ASSUME NEW f \in Features PROVE Armed(f)'
  <2>1. Armed(f)
    BY DEF FreshInv
  <2>2. CASE f # g
    BY <1>1, <1>2, <1>3, <1>4, <2>1, <2>2 DEF Armed
  <2>3. CASE f = g
    BY <1>1, <1>2, <1>3, <1>4, <1>6, <2>1, <2>3 DEF Armed
  <2> QED BY <2>2, <2>3
<1>10. ASSUME NEW f \in Features PROVE Bounded(f)'
  <2>1. Bounded(f)
    BY DEF FreshInv
  <2>2. CASE f # g
    BY <1>2, <1>3, <1>4, <2>1, <2>2 DEF Bounded
  <2>3. CASE f = g /\ g = "secret"
    <3>1. job.spec \in Specs \cup {spec}
      BY <1>1, Facts DEF Times
    <3> QED BY <1>3, <1>8, <2>1, <2>3, <3>1 DEF Bounded
  <2>4. CASE f = g /\ g # "secret"
    <3>1. ~job.should => job.generation = observed
      BY <1>1 DEF FreshInv, Looks
    <3> QED BY <1>3, <1>4, <1>6, <1>7, <1>8, <2>1, <2>4, <3>1 DEF Bounded
  <2> QED BY <2>2, <2>3, <2>4
<1>11. ASSUME NEW f \in Features PROVE InTime(f)'
  <2> SUFFICES ASSUME VerifyObject(spec, env), observed = generation, Enabled(spec, f)
               PROVE  Looking(f)'
    BY <1>1 DEF InTime
  <2>1. Looking(f)
    BY <1>1 DEF FreshInv, InTime
  <2>2. Longest(f)' = Longest(f) /\ Allowance(f)' = Allowance(f)
    BY SameNumbers
  <2>3. f \notin job.due /\ ~job.should => next'[f] = next[f]
    BY <1>3, <1>6
  <2> QED BY <1>4, <2>1, <2>2, <2>3 DEF Looking
<1> QED BY <1>5, <1>9, <1>10, <1>11 DEF FreshInv

\* A stage that leaves the refresh times alone.
LEMMA NeutralStage ==
  ASSUME FreshInv, VaultInv', Looks', pc \in Stages, pc' \in Stages,
         \A f \in Features : pc' \in Past(f) <=> pc \in Past(f),
         SameStart(job, job'),
         UNCHANGED <<spec, generation, env, observed, next, wake, elapsed, age, left>>
  PROVE  FreshInv'
<1>1. pc # "idle" /\ pc' # "idle"
  BY DEF Stages
<1>2. /\ job'.spec = job.spec /\ job'.generation = job.generation
      /\ job'.should = job.should /\ job'.due = job.due
  BY DEF SameStart
<1>3. Times'
  BY <1>1, <1>2, Facts DEF Times
<1>4. ASSUME NEW f \in Features PROVE Armed(f)' /\ Bounded(f)' /\ InTime(f)'
  <2>1. Armed(f) /\ Bounded(f) /\ InTime(f)
    BY DEF FreshInv
  <2>2. Armed(f)' /\ Bounded(f)'
    BY <1>1, <1>2, <2>1 DEF Armed, Bounded
  <2>3. Longest(f)' = Longest(f) /\ Allowance(f)' = Allowance(f)
    BY SameNumbers
  <2>4. InTime(f)'
    BY <1>1, <1>2, <2>1, <2>3 DEF InTime, Looking
  <2> QED BY <2>2, <2>4
<1> QED BY <1>3, <1>4 DEF FreshInv

-----------------------------------------------------------------------------
(* The steps *)

\* A failure costs the time to the retry, or an interval if the refresh time was
\* already moved.
LEMMA FailsFresh ==
  ASSUME FreshInv, pc # "idle", Fails
  PROVE  FreshInv'
<1>1. /\ pc' = "idle" /\ job' = NewJob /\ elapsed' = 0
      /\ left["fault"] > 0 /\ left' = [left EXCEPT !["fault"] = @ - 1]
      /\ wake' = IF wake = None \/ RetryAfter < wake THEN RetryAfter ELSE wake
      /\ UNCHANGED <<spec, generation, env, observed, next, queue, age>>
  BY DEF Fails, Return, Spend, AddAfter
<1>2. VaultInv'
  BY FailsVault, Facts
<1>3. wake' \in Nat /\ wake' <= RetryAfter /\ wake' # None
  BY <1>1, Facts DEF Times
<1>4. /\ left \in [Kinds -> Nat] /\ left["fault"] \in Nat /\ left["fault"] <= Budget["fault"]
      /\ Budget["fault"] \in Nat /\ "fault" \in Kinds
  BY Facts, ScheduleAssumption DEF Times, Kinds
<1>5. left'["fault"] = left["fault"] - 1 /\ left' \in [Kinds -> Nat]
  BY <1>1, <1>4
<1>6. Times'
  BY <1>1, <1>3, <1>4, <1>5, Facts DEF Times
<1>7. Looks'
  BY <1>1 DEF Looks
<1>8. ASSUME NEW f \in Features PROVE Armed(f)' /\ Bounded(f)'
  <2>1. Armed(f) /\ Bounded(f)
    BY DEF FreshInv
  <2>2. Armed(f)'
    BY <1>1, <2>1 DEF Armed
  <2>3. Bounded(f)'
    <3> SUFFICES ASSUME next[f] \in Nat
                 PROVE  IF f = "secret"
                        THEN \E s \in Specs \cup {spec} :
                               Enabled(s, f) /\ next[f] + 0 <= Interval(s, f)
                        ELSE \/ observed # generation
                             \/ ~ Enabled(spec, f)
                             \/ next[f] + 0 <= Interval(spec, f)
      <4>1. "idle" \notin Past(f)
        BY DEF Past, Features
      <4> QED BY <1>1, <4>1 DEF Bounded
    <3>1. Specs \cup {spec} \subseteq ProviderSpec
      BY Facts, SpecsAssumption DEF Accepted
    <3>2. \A s \in Specs \cup {spec} : Enabled(s, f) => Interval(s, f) \in Nat
      BY <3>1, IntervalNumber
    <3> QED BY <2>1, <3>2, Facts DEF Bounded
  <2> QED BY <2>2, <2>3
<1>9. ASSUME NEW f \in Features PROVE InTime(f)'
  <2> SUFFICES ASSUME VerifyObject(spec, env), observed = generation, Enabled(spec, f)
               PROVE  Waiting(f)'
    BY <1>1 DEF InTime
  <2>1. age[f] <= Longest(f) + MaxDuration + Second + Allowance(f) + elapsed
    BY DEF FreshInv, InTime, Looking
  <2>2. Longest(f) \in Nat /\ Allowance(f) \in Nat /\ age[f] \in Nat
    BY Facts, LongestNumber, AllowanceNumber DEF Times
  <2>3. /\ Cost(f) \in Nat
        /\ RetryAfter + Second + MaxDuration <= Cost(f)
        /\ Longest(f) + Second + MaxDuration <= Cost(f)
    BY Facts, CostNumber
  <2>4. next[f] \in Nat => next[f] + elapsed <= Longest(f)
    BY BoundedLongest
  <2>5. Longest(f)' = Longest(f) /\ Cost(f)' = Cost(f)
    BY <1>1, SameNumbers
  <2>6. Allowance(f)' = Allowance(f) + Cost(f)
    BY <1>1, <1>4, <1>5, <2>3, <2>5, OneMore DEF Allowance
  <2>7. age[f] <= Longest(f) + MaxDuration + Second + (Allowance(f) + Cost(f))
    BY <2>1, <2>2, <2>3, Facts
  <2>8. next[f] \in Nat => age[f] + next[f] <= Longest(f) + (Allowance(f) + Cost(f))
    BY <2>1, <2>2, <2>3, <2>4, Facts
  <2>9. age[f] + wake' <= Longest(f) + MaxDuration + Second + (Allowance(f) + Cost(f))
    BY <2>1, <2>2, <2>3, <1>3, Facts
  <2> QED BY <1>1, <1>3, <2>5, <2>6, <2>7, <2>8, <2>9 DEF Waiting
<1> QED BY <1>2, <1>6, <1>7, <1>8, <1>9 DEF FreshInv

\* A full reconcile looks at everything.
LEMMA FullFresh == FreshInv /\ ProcessFullReconciliation => FreshInv'
<1> SUFFICES ASSUME FreshInv, ProcessFullReconciliation, ~ Fails PROVE FreshInv'
  BY FailsFresh DEF ProcessFullReconciliation
<1>1. /\ pc = "full" /\ pc' \in {"flag", "panic"}
      /\ UNCHANGED <<spec, generation, env, observed, next, wake, elapsed, age, left>>
      /\ job' = [job EXCEPT !.handled = Features, !.configMap = TRUE,
                            !.secret = job.spec.secret # None]
  BY DEF ProcessFullReconciliation
<1>2. VaultInv'
  BY FullVault, Facts
<1>3. pc' = "flag"
  BY <1>1, <1>2 DEF VaultInv, Accepted, Stages
<1>4. SameStart(job, job')
  BY FullJob, Facts
<1>5. job'.handled = Features
  BY <1>1, Facts, Zenon DEF Job
<1>6. Looks'
  <2>1. job'.generation = job.generation /\ job'.should = job.should /\ job.should
    BY <1>1, <1>4, Facts DEF SameStart, VaultInv, JobMayAsk
  <2> QED BY <1>1, <1>3, <1>5, <2>1 DEF Looks, Features
<1>7. \A f \in Features : pc' \in Past(f) <=> pc \in Past(f)
  BY <1>1, <1>3 DEF Past, Features
<1> QED BY <1>1, <1>2, <1>3, <1>4, <1>6, <1>7, NeutralStage DEF Stages

\* Writing the targets changes no times.
LEMMA WriteFresh == FreshInv /\ WriteTargets => FreshInv'
<1> SUFFICES ASSUME FreshInv, WriteTargets, ~ Fails PROVE FreshInv'
  BY FailsFresh DEF WriteTargets
<1>1. /\ pc = "write" /\ pc' = "finish"
      /\ UNCHANGED <<spec, generation, env, observed, next, wake, job, elapsed, age, left>>
  BY DEF WriteTargets
<1>2. VaultInv'
  BY NextVault, Facts DEF Next
<1>3. \A f \in Features : pc' \in Past(f) <=> pc \in Past(f)
  BY <1>1 DEF Past, Features
<1>4. Looks'
  BY <1>1, <1>3 DEF FreshInv, Looks
<1> QED BY <1>1, <1>2, <1>3, <1>4, NeutralStage DEF Stages, SameStart

\* The stages of the flags and the key-values.
LEMMA RefreshFresh ==
  ASSUME FreshInv, NEW g \in {"flag", "keyValue"},
         SkipRefresh(g) \/ RefreshNotNeeded(g) \/ RefreshNeeded(g) \/ RefreshFails(g)
  PROVE  FreshInv'
<1>1. CASE RefreshFails(g)
  BY <1>1, FailsFresh DEF RefreshFails, CheckDue
<1>2. CASE SkipRefresh(g) \/ RefreshNotNeeded(g) \/ RefreshNeeded(g)
  <2>1. VaultInv'
    BY RefreshVault, Facts
  <2>2. /\ pc = g /\ pc' \in {AfterRefresh(g), "panic"}
        /\ UNCHANGED <<spec, generation, env, observed, wake, elapsed, age, left>>
    BY <1>2 DEF SkipRefresh, RefreshNotNeeded, RefreshNeeded, CheckDue
  <2>3. pc' = AfterRefresh(g)
    BY <2>1, <2>2 DEF VaultInv, Accepted, Stages
  <2>4. pc' = IF g = "flag" THEN "keyValue" ELSE IF g = "keyValue" THEN "secret" ELSE "write"
    BY <2>3 DEF AfterRefresh
  <2>5. g \in Features /\ g # "secret"
    BY DEF Features
  <2>6. TimeStep(g)
    BY <1>2 DEF TimeStep, SkipRefresh, RefreshNotNeeded, RefreshNeeded, CheckDue
  <2>7. /\ SameStart(job, job') /\ job.handled \subseteq job'.handled
        /\ job'.secret => job.secret \/ "secret" \in job'.handled
        /\ Enabled(job.spec, g) /\ g \in job.due /\ ~job.should => g \in job'.handled
        /\ job'.handled \subseteq Features
    <3>1. CASE SkipRefresh(g)
      BY <3>1, Facts DEF SkipRefresh, SameStart, Job
    <3>2. CASE RefreshNotNeeded(g)
      <4>1. SameStart(job, job') /\ job'.secret = job.secret /\ job' \in Job
        BY <2>5, <3>2, NotNeededJob, Facts
      <4>2. job'.handled = job.handled \cup {g}
        BY <3>2, Facts, Zenon DEF RefreshNotNeeded, Job
      <4>3. job'.handled \subseteq Features
        BY <4>1 DEF Job
      <4> QED BY <4>1, <4>2, <4>3
    <3>3. CASE RefreshNeeded(g)
      <4>1. SameStart(job, job') /\ job' \in Job
        BY <2>5, <3>3, NeededJob, Facts
      <4> DEFINE secret == g = "keyValue" /\ job.spec.secret # None
      <4>2. job' = [job EXCEPT !.handled = @ \cup {g} \cup (IF secret THEN {"secret"} ELSE {}),
                               !.configMap = TRUE, !.secret = @ \/ secret]
        BY <3>3 DEF RefreshNeeded
      <4> HIDE DEF secret
      <4>3. /\ job'.handled = job.handled \cup {g} \cup (IF secret THEN {"secret"} ELSE {})
            /\ job'.secret = (job.secret \/ secret)
        BY <4>2, Facts, Zenon DEF Job
      <4>4. job'.handled \subseteq Features
        BY <4>1 DEF Job
      <4> QED BY <4>1, <4>3, <4>4
    <3> QED BY <1>2, <3>1, <3>2, <3>3
  <2>8. Looks'
    <3>1. pc # "idle" /\ pc # "full" /\ pc' # "idle" /\ pc' # "full" /\ Looks
      BY <2>2, <2>4 DEF FreshInv
    <3>2. /\ job'.spec = job.spec /\ job'.generation = job.generation
          /\ job'.should = job.should /\ job'.due = job.due
      BY <2>7 DEF SameStart
    <3>3. job.should => job'.handled = Features
      BY <2>7, <3>1 DEF Looks
    <3>4. \A f \in Features : pc' \in Past(f) <=> (pc \in Past(f) \/ f = g)
      BY <2>2, <2>4, <2>5, StageOrder
    <3>5. ASSUME NEW f \in Features, pc' \in Past(f), Enabled(job.spec, f), f \in job.due
          PROVE  f \in job'.handled
      BY <2>7, <3>1, <3>3, <3>4, <3>5 DEF Looks
    <3>6. job'.secret => "secret" \in job'.handled
      BY <2>7, <3>1 DEF Looks
    <3> QED BY <2>2, <3>1, <3>2, <3>3, <3>5, <3>6 DEF Looks
  <2> QED BY <2>1, <2>2, <2>4, <2>5, <2>6, <2>7, <2>8, FeatureStage
<1> QED BY <1>1, <1>2

\* The stage of the secrets.
LEMMA SecretFresh ==
  ASSUME FreshInv, SkipSecretRefresh \/ ProcessSecretReferenceRefresh
  PROVE  FreshInv'
<1>1. CASE Fails /\ ProcessSecretReferenceRefresh
  BY <1>1, FailsFresh DEF ProcessSecretReferenceRefresh
<1>2. CASE SkipSecretRefresh \/ (ProcessSecretReferenceRefresh /\ ~ Fails)
  <2>1. VaultInv'
    BY SkipSecretVault, SecretVault, Facts
  <2>2. /\ pc = "secret" /\ pc' = "write"
        /\ UNCHANGED <<spec, generation, env, observed, wake, elapsed, age, left>>
    BY <1>2 DEF SkipSecretRefresh, ProcessSecretReferenceRefresh
  <2>3. TimeStep("secret")
    BY <1>2 DEF TimeStep, SkipSecretRefresh, ProcessSecretReferenceRefresh
  <2>4. Looks /\ job.handled \subseteq Features
    BY Facts DEF FreshInv, Job
  <2>5. /\ SameStart(job, job')
        /\ job'.handled \in {job.handled, job.handled \cup {"secret"}}
        /\ job'.secret => "secret" \in job'.handled
        /\ Enabled(job.spec, "secret") /\ "secret" \in job.due => "secret" \in job'.handled
    <3>1. CASE SkipSecretRefresh
      BY <2>2, <2>4, <3>1 DEF SkipSecretRefresh, SameStart, Looks
    <3>2. CASE ProcessSecretReferenceRefresh /\ ~ Fails
      <4>1. SameStart(job, job')
        BY <3>2, ResolvedJob, Facts
      <4>2. job' = [job EXCEPT !.handled = @ \cup {"secret"}, !.secret = TRUE]
        BY <3>2 DEF ProcessSecretReferenceRefresh
      <4>3. job'.handled = job.handled \cup {"secret"}
        BY <4>2, Facts, Zenon DEF Job
      <4> QED BY <4>1, <4>3
    <3> QED BY <1>2, <3>1, <3>2
  <2>6. Looks'
    <3>1. /\ job'.spec = job.spec /\ job'.generation = job.generation
          /\ job'.should = job.should /\ job'.due = job.due
      BY <2>5 DEF SameStart
    <3>2. \A f \in Features : pc' \in Past(f) <=> (pc \in Past(f) \/ f = "secret")
      BY <2>2 DEF Past, Features
    <3>3. job.should => job'.handled = Features
      BY <2>2, <2>4, <2>5 DEF Looks, Features
    <3>4. ASSUME NEW f \in Features, pc' \in Past(f), Enabled(job.spec, f), f \in job.due
          PROVE  f \in job'.handled
      BY <2>2, <2>4, <2>5, <3>2, <3>4 DEF Looks
    <3> QED BY <2>2, <2>4, <2>5, <3>1, <3>3, <3>4 DEF Looks
  <2>7. "secret" \in Features
    BY DEF Features
  <2> QED BY <2>1, <2>2, <2>3, <2>5, <2>6, <2>7, FeatureStage
<1> QED BY <1>1, <1>2

\* A reconcile that starts finds each feature due, or its refresh time ahead.
LEMMA StartFresh == FreshInv /\ ReconcileStart => FreshInv'
<1> SUFFICES ASSUME FreshInv, ReconcileStart PROVE FreshInv'
  OBVIOUS
<1>1. /\ pc = "idle" /\ elapsed' = 0 /\ elapsed = 0
      /\ UNCHANGED <<spec, generation, env, observed, next, wake, age, left>>
  BY Facts DEF ReconcileStart, Times
<1>2. VaultInv'
  BY ReconcileStartVault, Facts
<1> DEFINE should == generation # observed \/ edited
           due == {f \in Features : Due(f)}
<1>3. /\ job' = [NewJob EXCEPT !.spec = spec, !.generation = generation,
                                !.should = should, !.due = due]
      /\ pc' = IF ClientManagerDereferencesNil(spec) THEN "panic"
               ELSE IF should THEN "full" ELSE "flag"
  BY DEF ReconcileStart
<1>4. /\ job'.spec = spec /\ job'.generation = generation
      /\ (job'.should <=> should) /\ job'.due = due /\ ~job'.secret
  <2> HIDE DEF should, due
  <2> QED BY <1>3, Zenon DEF NewJob
<1>5. pc' = "flag" => ~ should
  BY <1>3
<1>6. pc' \in {"full", "flag"}
  BY <1>2, <1>3 DEF VaultInv, Accepted, Stages
<1>7. \A f \in Features : pc' \notin Past(f) /\ "idle" \notin Past(f)
  BY <1>6 DEF Past, Features
<1>8. Times'
  BY <1>1, <1>4, <1>6, Facts DEF Times
<1>9. Looks'
  BY <1>1, <1>4, <1>5, <1>6, <1>7 DEF Looks
<1>10. ASSUME NEW f \in Features PROVE Armed(f)' /\ Bounded(f)'
  <2>1. Armed(f) /\ Bounded(f)
    BY DEF FreshInv
  <2>2. f \notin due => next[f] # None
    BY DEF Due
  <2>3. Armed(f)'
    BY <1>1, <1>4, <1>7, <2>1, <2>2 DEF Armed
  <2>4. Bounded(f)'
    BY <1>1, <1>7, <2>1 DEF Bounded
  <2> QED BY <2>3, <2>4
<1>11. ASSUME NEW f \in Features PROVE InTime(f)'
  <2> SUFFICES ASSUME VerifyObject(spec, env), observed = generation, Enabled(spec, f)
               PROVE  Looking(f)'
    BY <1>1, <1>6 DEF InTime
  <2>1. Waiting(f)
    BY <1>1 DEF FreshInv, InTime
  <2>2. Longest(f) \in Nat /\ Allowance(f) \in Nat /\ age[f] \in Nat
    BY Facts, LongestNumber, AllowanceNumber DEF Times
  <2>3. Longest(f)' = Longest(f) /\ Allowance(f)' = Allowance(f)
    BY <1>1, SameNumbers
  <2>4. f \notin due => next[f] \in Nat
    BY Facts DEF Due, Times
  <2>5. age[f] <= Longest(f) + MaxDuration + Second + Allowance(f) + 0
    BY <2>1, <2>2, Facts DEF Waiting
  <2>6. f \notin due => /\ age[f] <= Longest(f) + Allowance(f) + 0
                        /\ age[f] + next[f] <= Longest(f) + Allowance(f)
    BY <2>1, <2>2, <2>4 DEF Waiting
  <2> HIDE DEF due, should
  <2> QED BY <1>1, <1>4, <2>3, <2>5, <2>6 DEF Looking
<1> QED BY <1>2, <1>8, <1>9, <1>10, <1>11 DEF FreshInv

\* The requeue interval is that of the earliest refresh time, or a second.
LEMMA RequeueInterval ==
  ASSUME Times, NEW f \in Features, next[f] # None
  PROVE  /\ CalculateRequeueAfterInterval \in Nat
         /\ CalculateRequeueAfterInterval <= Second \/ CalculateRequeueAfterInterval <= next[f]
<1> DEFINE times == {next[g] : g \in {h \in Features : next[h] # None}}
           lifted == {x + 1 : x \in times}
<1>1. times \subseteq Int /\ next[f] \in times /\ \A x \in times : x >= -1
  BY DEF Times
<1>2. CalculateRequeueAfterInterval = Max({Second, Min(times)})
  BY DEF CalculateRequeueAfterInterval
<1> HIDE DEF times
<1>3. PICK n \in lifted : \A m \in lifted : n <= m
  <2>1. ASSUME NEW x \in times PROVE x + 1 \in Nat
    BY <1>1
  <2>2. next[f] + 1 \in lifted
    BY <1>1
  <2>3. lifted \subseteq Nat
    BY <2>1
  <2> HIDE DEF lifted
  <2> QED BY <2>2, <2>3, NatMinimum
<1>4. \E x \in times : \A y \in times : x <= y
  <2>1. PICK x \in times : n = x + 1
    BY <1>3
  <2>2. ASSUME NEW y \in times PROVE x <= y
    <3>1. y + 1 \in lifted
      OBVIOUS
    <3>2. x + 1 <= y + 1
      BY <1>3, <2>1, <3>1
    <3> QED BY <1>1, <3>2
  <2> QED BY <2>2
<1>5. Min(times) \in times /\ \A y \in times : Min(times) <= y
  BY <1>4 DEF Min
<1>6. Min(times) \in Int /\ Min(times) <= next[f] /\ next[f] \in Int
  BY <1>1, <1>5
<1>7. Max({Second, Min(times)}) = IF Second >= Min(times) THEN Second ELSE Min(times)
  BY <1>6, MaxOfTwo, DurationsAssumption
<1> QED BY <1>2, <1>6, <1>7, DurationsAssumption

\* A reconcile that finishes has looked at f, or comes back for it.
LEMMA FinishFresh == FreshInv /\ Finish => FreshInv'
<1> SUFFICES ASSUME FreshInv, Finish PROVE FreshInv'
  OBVIOUS
<1>1. /\ pc = "finish" /\ pc' = "idle" /\ elapsed' = 0 /\ job' = NewJob
      /\ observed' = job.generation
      /\ age' = [f \in Features |-> IF f \in job.handled THEN elapsed ELSE age[f]]
      /\ UNCHANGED <<spec, generation, env, next, queue, left>>
  BY DEF Finish, Return
<1>2. VaultInv'
  BY FinishVault, Facts
<1>3. \A f \in Features : pc \in Past(f) /\ pc' \notin Past(f)
  BY <1>1 DEF Past, Features
<1>4. \A f \in Features : Enabled(job.spec, f) => next[f] # None
  BY <1>1, <1>3 DEF FreshInv, Armed
<1>5. ASSUME NEW f \in Features, Enabled(job.spec, f)
      PROVE  /\ wake' \in Nat /\ wake' # None
             /\ wake' <= Second \/ wake' <= next[f]
  <2> DEFINE t == CalculateRequeueAfterInterval
  <2>1. wake' = IF wake = None \/ t < wake THEN t ELSE wake
    BY <1>5 DEF Finish, AddAfter
  <2>2. t \in Nat /\ (t <= Second \/ t <= next[f]) /\ next[f] \in Int
    BY <1>4, <1>5, Facts, RequeueInterval DEF Times
  <2> HIDE DEF t
  <2> QED BY <2>1, <2>2, Facts DEF Times
<1>6. wake' # None => wake' \in Nat
  BY <1>5, Facts DEF Finish, Times
<1>7. Times'
  <2>1. age' \in [Features -> Nat]
    BY <1>1, Facts DEF Times
  <2> QED BY <1>1, <1>6, <2>1, Facts DEF Times
<1>8. Looks'
  BY <1>1 DEF Looks
<1>9. job.generation = generation => job.spec = spec
  BY <1>1, Facts DEF VaultInv, JobCurrent
<1>10. ASSUME NEW f \in Features PROVE Armed(f)'
  BY <1>1, <1>4, <1>9 DEF Armed
<1>11. ASSUME NEW f \in Features PROVE Bounded(f)'
  <2>1. Bounded(f)
    BY DEF FreshInv
  <2>2. Specs \cup {spec} \subseteq ProviderSpec
    BY Facts, SpecsAssumption DEF Accepted
  <2>3. \A s \in Specs \cup {spec} : Enabled(s, f) => Interval(s, f) \in Nat
    BY <2>2, IntervalNumber
  <2> SUFFICES ASSUME next[f] \in Nat
               PROVE  IF f = "secret"
                      THEN \E s \in Specs \cup {spec} :
                             Enabled(s, f) /\ next[f] + 0 <= Interval(s, f)
                      ELSE \/ job.generation # generation
                           \/ ~ Enabled(spec, f)
                           \/ next[f] + 0 <= Interval(spec, f)
    BY <1>1, <1>3 DEF Bounded
  <2> QED BY <1>3, <2>1, <2>3, Facts DEF Bounded
<1>12. ASSUME NEW f \in Features PROVE InTime(f)'
  <2> SUFFICES ASSUME VerifyObject(spec, env), job.generation = generation, Enabled(spec, f)
               PROVE  Waiting(f)'
    BY <1>1 DEF InTime
  <2>1. job.spec = spec
    BY <1>9
  <2>2. Longest(f) \in Nat /\ Allowance(f) \in Nat /\ age[f] \in Nat
    BY Facts, LongestNumber, AllowanceNumber DEF Times
  <2>3. Longest(f)' = Longest(f) /\ Allowance(f)' = Allowance(f)
    BY <1>1, SameNumbers
  <2>4. next[f] \in Int /\ wake' \in Nat /\ wake' # None
        /\ (wake' <= Second \/ wake' <= next[f])
    BY <1>4, <1>5, <2>1, Facts DEF Times
  <2> DEFINE L == Longest(f)
             A == Allowance(f)
  <2>5. /\ age'[f] \in Nat /\ age'[f] <= L + MaxDuration + A
        /\ next[f] \in Nat => age'[f] + next[f] <= L + A
    <3>1. CASE f \in job.handled
      <4>1. age'[f] = elapsed
        BY <1>1, <3>1
      <4>2. next[f] \in Nat => next[f] + elapsed <= L
        BY <1>3, BoundedLongest
      <4> HIDE DEF L, A
      <4>3. L \in Nat /\ A \in Nat
        BY <2>2 DEF L, A
      <4> QED BY <4>1, <4>2, <4>3, Facts
    <3>2. CASE f \notin job.handled
      <4>1. age'[f] = age[f]
        BY <1>1, <3>2
      <4>2. Looks
        BY DEF FreshInv
      <4>3. f \notin job.due /\ ~job.should
        BY <1>1, <1>3, <2>1, <3>2, <4>2 DEF Looks
      <4>4. observed = generation
        BY <1>1, <4>2, <4>3 DEF Looks
      <4>5. age[f] <= L + A + elapsed /\ (next[f] \in Nat => age[f] + next[f] <= L + A)
        BY <1>1, <4>3, <4>4 DEF FreshInv, InTime, Looking
      <4> HIDE DEF L, A
      <4>6. L \in Nat /\ A \in Nat
        BY <2>2 DEF L, A
      <4> QED BY <2>2, <4>1, <4>5, <4>6, Facts
    <3> QED BY <3>1, <3>2
  <2>6. L \in Nat /\ A \in Nat
    BY <2>2
  <2> HIDE DEF L, A
  <2>7. age'[f] <= L + MaxDuration + Second + A
    BY <2>5, <2>6, Facts
  <2>8. \/ next[f] \in Nat /\ wake' <= next[f]
        \/ age'[f] + wake' <= L + MaxDuration + Second + A
    BY <2>4, <2>5, <2>6, Facts
  <2> QED BY <1>1, <2>3, <2>4, <2>5, <2>7, <2>8 DEF Waiting, L, A
<1> QED BY <1>2, <1>7, <1>8, <1>10, <1>11, <1>12 DEF FreshInv

\* Time passes only while nothing that waits could happen.
LEMMA TickFresh == FreshInv /\ Tick => FreshInv'
<1> SUFFICES ASSUME FreshInv, Tick PROVE FreshInv'
  OBVIOUS
<1>1. /\ UNCHANGED <<spec, generation, env, observed, queue, pc, job, left>>
      /\ wake # 0 /\ (pc = "idle" => ~queue)
      /\ next' = [f \in Features |-> Passed(next[f])]
      /\ wake' = IF wake = None THEN None ELSE wake - 1
      /\ elapsed' = IF pc = "idle" THEN 0 ELSE elapsed + 1
      /\ age' = [f \in Features |-> Older(age[f], Oldest)]
  BY DEF Tick
<1>2. VaultInv'
  BY TickVault, Facts
<1>3. ASSUME NEW f \in Features
      PROVE  /\ next[f] = None => next'[f] = None
             /\ next[f] # None => next'[f] \in Int /\ next'[f] >= -1 /\ next'[f] # None
             /\ next'[f] \in Nat => next[f] \in Nat /\ next'[f] = next[f] - 1
             /\ next[f] \in Nat /\ next[f] > 0 => next'[f] = next[f] - 1
  <2>1. next'[f] = Passed(next[f])
    BY <1>1
  <2>2. CASE next[f] = None
    BY <2>1, <2>2, Facts DEF Passed
  <2>3. CASE next[f] # None
    <3> DEFINE n == next[f]
    <3>1. n \in Int /\ n >= -1
      BY <2>3, Facts DEF Times
    <3>2. next'[f] = Max({-1, n - 1})
      BY <2>1, <2>3 DEF Passed
    <3> HIDE DEF n
    <3>3. Max({-1, n - 1}) = IF -1 >= n - 1 THEN -1 ELSE n - 1
      BY <3>1, MaxOfTwo
    <3>4. next'[f] \in Int /\ next'[f] >= -1 /\ (next'[f] \in Nat => n \in Nat /\ next'[f] = n - 1)
          /\ (n \in Nat /\ n > 0 => next'[f] = n - 1)
      BY <3>1, <3>2, <3>3
    <3> QED BY <2>3, <3>4, Facts DEF n
  <2> QED BY <2>2, <2>3
<1>4. wake # None => wake \in Nat /\ wake > 0 /\ wake' = wake - 1 /\ wake' \in Nat /\ wake' # None
  BY <1>1, Facts DEF Times
<1>5. \A f \in Features : age'[f] \in Nat /\ age'[f] <= age[f] + 1 /\ age[f] \in Nat
  BY <1>1, Facts DEF Times, Older
<1>6. elapsed' \in Nat /\ (pc # "idle" => elapsed' = elapsed + 1)
  BY <1>1, Facts
<1>7. Times'
  <2>1. age' \in [Features -> Nat]
    BY <1>1, <1>5
  <2>2. DOMAIN next' = Features
    BY <1>1
  <2>3. wake' # None => wake' \in Nat
    BY <1>1, <1>4
  <2> QED BY <1>1, <1>3, <2>1, <2>2, <2>3, Facts DEF Times
<1>8. Looks'
  BY <1>1 DEF FreshInv, Looks
<1>9. ASSUME NEW f \in Features PROVE Armed(f)'
  BY <1>1, <1>3 DEF FreshInv, Armed
<1>10. ASSUME NEW f \in Features PROVE Bounded(f)'
  <2>1. Bounded(f)
    BY DEF FreshInv
  <2> SUFFICES ASSUME next'[f] \in Nat PROVE Bounded(f)'
    BY DEF Bounded
  <2>2. next[f] \in Nat /\ next'[f] = next[f] - 1
    BY <1>3
  <2>3. next'[f] + elapsed' <= next[f] + elapsed
    BY <1>1, <2>2, Facts
  <2>4. Specs \cup {spec} \subseteq ProviderSpec
    BY Facts, SpecsAssumption DEF Accepted
  <2>5. \A s \in Specs \cup {spec} : Enabled(s, f) => Interval(s, f) \in Nat
    BY <2>4, IntervalNumber
  <2>6. \A s \in Specs \cup {spec} : Enabled(s, f) /\ next[f] + elapsed <= Interval(s, f)
          => next'[f] + elapsed' <= Interval(s, f)
    BY <1>6, <2>2, <2>3, <2>5, Facts
  <2> QED BY <1>1, <2>1, <2>2, <2>6 DEF Bounded
<1>11. ASSUME NEW f \in Features PROVE InTime(f)'
  <2> SUFFICES ASSUME VerifyObject(spec, env), observed = generation, Enabled(spec, f)
               PROVE  IF pc = "idle" THEN Waiting(f)' ELSE Looking(f)'
    BY <1>1 DEF InTime
  <2> DEFINE L == Longest(f)
             A == Allowance(f)
  <2>1. L \in Nat /\ A \in Nat
    BY Facts, LongestNumber, AllowanceNumber
  <2>2. Longest(f)' = L /\ Allowance(f)' = A
    BY <1>1, SameNumbers
  <2>3. CASE pc = "idle"
    <3>1. Waiting(f) /\ ~queue /\ wake # None
      BY <1>1, <2>3 DEF FreshInv, InTime, Waiting
    <3>2. /\ next[f] \in Nat => age[f] + next[f] <= L + A
          /\ \/ next[f] \in Nat /\ wake <= next[f]
             \/ age[f] + wake <= L + MaxDuration + Second + A
      BY <3>1 DEF Waiting
    <3> HIDE DEF L, A
    <3>3. next'[f] \in Nat => age'[f] + next'[f] <= L + A
      BY <1>3, <1>5, <2>1, <3>2
    <3>4. \/ next'[f] \in Nat /\ wake' <= next'[f] /\ age'[f] + next'[f] <= L + A
          \/ age'[f] + wake' <= L + MaxDuration + Second + A
      <4>1. CASE next[f] \in Nat /\ wake <= next[f]
        <5>1. next[f] > 0 /\ next'[f] = next[f] - 1
          BY <1>3, <1>4, <3>1, <4>1
        <5>2. next'[f] \in Nat /\ wake' <= next'[f]
          BY <1>4, <3>1, <4>1, <5>1
        <5> QED BY <3>3, <5>2
      <4>2. CASE age[f] + wake <= L + MaxDuration + Second + A
        BY <1>4, <1>5, <2>1, <3>1, <4>2, Facts
      <4> QED BY <3>2, <4>1, <4>2
    <3>5. age'[f] <= L + MaxDuration + Second + A
      BY <1>4, <1>5, <2>1, <3>1, <3>4, Facts
    <3> QED BY <1>1, <1>4, <2>2, <2>3, <3>1, <3>3, <3>4, <3>5 DEF Waiting
  <2>4. CASE pc # "idle"
    <3>1. /\ age[f] <= L + MaxDuration + Second + A + elapsed
          /\ f \notin job.due /\ ~job.should =>
               /\ age[f] <= L + A + elapsed
               /\ next[f] \in Nat => age[f] + next[f] <= L + A
      BY <2>4 DEF FreshInv, InTime, Looking
    <3> HIDE DEF L, A
    <3>2. age'[f] <= L + MaxDuration + Second + A + elapsed'
      BY <1>5, <1>6, <2>1, <2>4, <3>1, Facts
    <3>3. f \notin job.due /\ ~job.should =>
            /\ age'[f] <= L + A + elapsed'
            /\ next'[f] \in Nat => age'[f] + next'[f] <= L + A
      BY <1>3, <1>5, <1>6, <2>1, <2>4, <3>1, Facts
    <3> QED BY <1>1, <2>2, <2>4, <3>2, <3>3 DEF Looking
  <2> QED BY <2>3, <2>4
<1> QED BY <1>2, <1>7, <1>8, <1>9, <1>10, <1>11 DEF FreshInv

\* A new spec is not in force until a reconcile of it has finished.
LEMMA UpdateFresh ==
  ASSUME FreshInv, NEW s \in Specs, UpdateSpec(s)
  PROVE  FreshInv'
<1>1. /\ spec' = s /\ generation' = generation + 1 /\ spec \in Specs
      /\ left' = [left EXCEPT !["spec"] = @ - 1] /\ left["spec"] > 0
      /\ UNCHANGED <<env, observed, next, wake, pc, job, elapsed, age>>
  BY DEF UpdateSpec, Spend
<1>2. VaultInv'
  BY UpdateSpecVault, Facts
<1>3. Times'
  <2>1. left' \in [Kinds -> Nat] /\ left'["fault"] = left["fault"]
    BY <1>1, Facts DEF Times, Kinds
  <2> QED BY <1>1, <2>1, Facts DEF Times
<1>4. Looks'
  BY <1>1 DEF FreshInv, Looks
<1>5. /\ observed' # generation'
      /\ pc # "idle" => job.generation # generation'
  BY <1>1, Facts DEF VaultInv, JobCurrent
<1>6. ASSUME NEW f \in Features PROVE Armed(f)' /\ Bounded(f)' /\ InTime(f)'
  <2>1. Armed(f) /\ Bounded(f)
    BY DEF FreshInv
  <2>2. Armed(f)' /\ InTime(f)'
    BY <1>1, <1>5, <2>1 DEF Armed, InTime
  <2>3. "idle" \notin Past(f)
    BY DEF Past, Features
  <2>4. Specs \cup {spec} = Specs \cup {s}
    BY <1>1
  <2>5. Bounded(f)'
    BY <1>1, <1>5, <2>1, <2>3, <2>4 DEF Bounded
  <2> QED BY <2>2, <2>5
<1> QED BY <1>2, <1>3, <1>4, <1>6 DEF FreshInv

\* The queue and the ConfigMap.
LEMMA QueueFresh ==
  ASSUME FreshInv, RequeueFires \/ ReconcileInvalid \/ EditConfigMap \/ UNCHANGED vars
  PROVE  FreshInv'
<1>1. UNCHANGED <<spec, generation, env, observed, next, pc, job, elapsed, age>>
  BY DEF RequeueFires, ReconcileInvalid, EditConfigMap, vars
<1>2. VaultInv'
  BY NextVault, Facts DEF Next
<1>3. left' \in [Kinds -> Nat] /\ left'["fault"] = left["fault"]
  BY Facts DEF RequeueFires, ReconcileInvalid, EditConfigMap, Spend, vars, Times, Kinds
<1>4. wake' \in {wake, None}
  BY DEF RequeueFires, ReconcileInvalid, EditConfigMap, vars
<1>5. Times' /\ Looks'
  BY <1>1, <1>3, <1>4, Facts DEF Times, FreshInv, Looks
<1>6. ASSUME NEW f \in Features PROVE Armed(f)' /\ Bounded(f)' /\ InTime(f)'
  <2>1. Armed(f) /\ Bounded(f) /\ InTime(f)
    BY DEF FreshInv
  <2>2. Armed(f)' /\ Bounded(f)'
    BY <1>1, <2>1 DEF Armed, Bounded
  <2>3. Longest(f)' = Longest(f) /\ Allowance(f)' = Allowance(f)
    BY <1>1, <1>3, SameNumbers
  <2>4. ASSUME VerifyObject(spec, env) PROVE ~queue' => ~queue /\ wake' = wake
    BY <2>4 DEF RequeueFires, ReconcileInvalid, EditConfigMap, vars
  <2>5. VerifyObject(spec, env) /\ Waiting(f) => Waiting(f)'
    BY <1>1, <2>3, <2>4 DEF Waiting
  <2>6. Looking(f) => Looking(f)'
    BY <1>1, <2>3 DEF Looking
  <2>7. InTime(f)'
    BY <1>1, <2>1, <2>5, <2>6 DEF InTime
  <2> QED BY <2>2, <2>7
<1> QED BY <1>2, <1>5, <1>6 DEF FreshInv

\* Nothing has been looked at in the beginning, and no spec is in force.
LEMMA InitFresh == Init => FreshInv
<1> SUFFICES ASSUME Init PROVE FreshInv
  OBVIOUS
<1>1. VaultInv
  BY InitVault
<1>2. \A f \in Features : next[f] = None
  BY DEF Init
<1>3. /\ pc = "idle" /\ observed # generation /\ elapsed = 0 /\ wake = None
      /\ left = Budget /\ age = [f \in Features |-> 0] /\ DOMAIN next = Features
  BY DEF Init
<1>4. Times /\ Looks
  BY <1>2, <1>3, ScheduleAssumption DEF Times, Looks, Kinds
<1>5. ASSUME NEW f \in Features PROVE Armed(f) /\ Bounded(f) /\ InTime(f)
  <2>1. None \notin Nat
    BY ScheduleAssumption
  <2> QED BY <1>2, <1>3, <2>1 DEF Armed, Bounded, InTime
<1> QED BY <1>1, <1>4, <1>5 DEF FreshInv

\* Every step keeps the inductive invariant.
LEMMA NextFresh == FreshInv /\ [Next]_vars => FreshInv'
BY StartFresh, FullFresh, RefreshFresh, SecretFresh, WriteFresh, FinishFresh, TickFresh,
   UpdateFresh, QueueFresh DEF Next

\* Each enabled feature is looked at within its interval, the second of a requeue
\* that falls on the refresh time, two reconciles, and what the faults so far cost:
\* for all specs and intervals, whatever is edited, changed and retried.
THEOREM TargetsAreFresh == Spec => []Fresh
<1>1. ASSUME FreshInv PROVE Fresh
  <2> SUFFICES ASSUME VerifyObject(spec, env), observed = generation,
                      NEW f \in Features, Enabled(spec, f)
               PROVE  age[f] <= Longest(f) + Second + 2 * MaxDuration
                                + Budget["fault"] * Cost(f)
    BY DEF Fresh, Cost
  <2> DEFINE L == Longest(f)
             A == Allowance(f)
             B == Budget["fault"] * Cost(f)
  <2>1. L \in Nat /\ A \in Nat /\ A <= B /\ age[f] \in Nat
    BY <1>1, Facts, LongestNumber, AllowanceNumber DEF Times
  <2>2. B \in Nat
    <3>1. Budget["fault"] \in Nat /\ Cost(f) \in Nat
      BY <1>1, Facts, CostNumber, ScheduleAssumption DEF Kinds
    <3> QED BY <3>1
  <2>3. age[f] <= L + MaxDuration + Second + A + elapsed
    <3>1. CASE pc = "idle"
      <4>1. age[f] <= L + MaxDuration + Second + A
        BY <1>1, <3>1 DEF FreshInv, InTime, Waiting
      <4> HIDE DEF L, A, B
      <4> QED BY <1>1, <2>1, <4>1, Facts
    <3>2. CASE pc # "idle"
      BY <1>1, <3>2 DEF FreshInv, InTime, Looking
    <3> QED BY <3>1, <3>2
  <2>4. SUFFICES age[f] <= L + Second + 2 * MaxDuration + B
    OBVIOUS
  <2> HIDE DEF L, A, B
  <2> QED BY <1>1, <2>1, <2>2, <2>3, Facts
<1> QED BY <1>1, InitFresh, NextFresh, PTL DEF Spec
=============================================================================
