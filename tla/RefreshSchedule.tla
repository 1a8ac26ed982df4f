-------------------------- MODULE RefreshSchedule --------------------------
(***************************************************************************)
(* When a provider is reconciled: the refresh times of the                 *)
(* ReconciliationState, Result.RequeueAfter, and the clock.  Reconciler     *)
(* models what a reconcile does and lets refresh times pass at any moment;  *)
(* here contents are left out and times are kept.                           *)
(*                                                                         *)
(* Times are relative to now.  A refresh time is None (the zero time) or    *)
(* the time still to go, -1 standing for every time that has passed: the    *)
(* code asks only whether the time is after it, and a requeue interval      *)
(* below a second becomes a second.  The worker is free whenever the        *)
(* provider is queued, and a reconcile takes up to MaxDuration.             *)
(***************************************************************************)
EXTENDS Validation, Integers, FiniteSetsExt

CONSTANTS
  Specs,         \* the specs a user moves between
  Variants,      \* further specs to start from
  Environment(_),  \* the environments of the controller process to try with a spec
  RetryAfter,    \* RequeueReconcileAfter
  MaxDuration,   \* the longest reconcile
  Oldest,        \* ages are not told apart from here on
  Budget         \* how often each kind of outside event may happen

Kinds == {"spec", "edit", "fault"}

ASSUME ScheduleAssumption ==
  /\ None \notin Int
  /\ RetryAfter \in Nat \ {0}
  /\ MaxDuration \in Nat
  /\ Oldest \in Nat
  /\ Budget \in [Kinds -> Nat]

ASSUME SpecsAssumption ==
  /\ IsFiniteSet(Specs)
  /\ Specs \cup Variants \subseteq ProviderSpec

Features == {"flag", "keyValue", "secret"}

VARIABLES
  spec, generation,  \* the provider
  env,
  edited,    \* the ConfigMap is not the one whose version is recorded
  observed,  \* generation of the ReconciliationState
  next,      \* its three refresh times
  queue,
  wake,      \* when the delayed addition to the queue falls due
  pc, job,   \* the running reconcile
  elapsed,   \* since its CurrentTime
  age,       \* time since the last look at what is in the targets, per feature
  vaultAge,  \* time since the start of the last reconcile that resolved secrets
             \* because of their interval
  left

vars == <<spec, generation, env, edited, observed, next, queue, wake, pc, job,
          elapsed, age, vaultAge, left>>

-----------------------------------------------------------------------------
(* Data *)

RefreshOf(s, f) ==
  CASE f = "flag"     -> IF s.flag = None THEN None ELSE s.flag.refresh
    [] f = "keyValue" -> s.refresh
    [] f = "secret"   -> IF s.secret = None THEN None ELSE s.secret.refresh

Enabled(s, f) == RefreshOf(s, f) # None /\ RefreshOf(s, f).enabled
Interval(s, f) == ParseDuration(RefreshOf(s, f).interval)

\* handled are the features this reconcile has looked at.
NewJob == [spec |-> None, generation |-> 0, should |-> FALSE, due |-> {},
           handled |-> {}, configMap |-> FALSE, secret |-> FALSE]

\* Ages up to a maximum.
Older(a, max) == IF a < max THEN a + 1 ELSE a

Spend(kind) == /\ left[kind] > 0
               /\ left' = [left EXCEPT ![kind] = @ - 1]

-----------------------------------------------------------------------------
(* The queue *)

\* AddAfter keeps the earlier of two pending additions.
AddAfter(t) == wake' = IF wake = None \/ t < wake THEN t ELSE wake

RequeueFires ==
  /\ wake = 0
  /\ wake' = None
  /\ queue' = TRUE
  /\ UNCHANGED <<spec, generation, env, edited, observed, next, pc, job, elapsed,
                 age, vaultAge, left>>

Return == pc' = "idle" /\ job' = NewJob /\ elapsed' = 0

-----------------------------------------------------------------------------
(* The reconcile *)

\* A spec that is refused is not requeued.
ReconcileInvalid ==
  /\ pc = "idle"
  /\ queue
  /\ ~VerifyObject(spec, env)
  /\ queue' = FALSE
  /\ UNCHANGED <<spec, generation, env, edited, observed, next, wake, pc, job,
                 elapsed, age, vaultAge, left>>

Due(f) == next[f] = None \/ next[f] < 0

ReconcileStart ==
  /\ pc = "idle"
  /\ queue
  /\ VerifyObject(spec, env)
  /\ queue' = FALSE
  /\ LET should == generation # observed \/ edited
     IN  /\ job' = [NewJob EXCEPT !.spec = spec, !.generation = generation,
                                  !.should = should, !.due = {f \in Features : Due(f)}]
         /\ pc' = IF ClientManagerDereferencesNil(spec) THEN "panic"
                  ELSE IF should THEN "full" ELSE "flag"
  /\ elapsed' = 0
  /\ UNCHANGED <<spec, generation, env, edited, observed, next, wake, age, vaultAge,
                 left>>

\* A remote call of the stage fails.
Fails ==
  /\ Spend("fault")
  /\ Return
  /\ AddAfter(RetryAfter)
  /\ UNCHANGED <<spec, generation, env, observed, next, queue, age, vaultAge>>

FullDereferencesNil(s) ==
  \/ FetchDereferencesNil(s.selectors)
  \/ s.flag # None /\ FetchDereferencesNil(s.flag.selectors)
  \/ SecretClientsDereferenceNil(s)

ProcessFullReconciliation ==
  /\ pc = "full"
  /\ \/ Fails /\ UNCHANGED edited
     \/ /\ pc' = IF FullDereferencesNil(job.spec) THEN "panic" ELSE "flag"
        /\ job' = [job EXCEPT !.handled = Features, !.configMap = TRUE,
                              !.secret = job.spec.secret # None]
        /\ UNCHANGED <<spec, generation, env, edited, observed, next, queue, wake,
                       elapsed, age, vaultAge, left>>

\* The next time counts from the CurrentTime of the reconcile.
Arm(f) == next' = [next EXCEPT ![f] = Max({-1, Interval(job.spec, f) - elapsed})]
Disarm(f) == next' = [next EXCEPT ![f] = None]

AfterRefresh(f) == IF f = "flag" THEN "keyValue" ELSE "secret"

\* processFeatureFlagRefresh and processKeyValueRefresh up to the check.
SkipRefresh(f) ==
  /\ pc = f
  /\ \/ ~Enabled(job.spec, f) /\ Disarm(f)
     \/ Enabled(job.spec, f) /\ job.should /\ Arm(f)
     \/ Enabled(job.spec, f) /\ ~job.should /\ f \notin job.due /\ UNCHANGED next
  /\ pc' = AfterRefresh(f)
  /\ UNCHANGED <<spec, generation, env, edited, observed, queue, wake, job, elapsed,
                 age, vaultAge, left>>

CheckDue(f) == pc = f /\ Enabled(job.spec, f) /\ ~job.should /\ f \in job.due

RefreshNotNeeded(f) ==
  /\ CheckDue(f)
  /\ Arm(f)
  /\ job' = [job EXCEPT !.handled = @ \cup {f}]
  /\ pc' = AfterRefresh(f)
  /\ UNCHANGED <<spec, generation, env, edited, observed, queue, wake, elapsed, age,
                 vaultAge, left>>

\* The settings are fetched; those of the key-values come with the secrets.
RefreshNeeded(f) ==
  /\ CheckDue(f)
  /\ LET secret == f = "keyValue" /\ job.spec.secret # None
     IN  job' = [job EXCEPT !.handled = @ \cup {f} \cup (IF secret THEN {"secret"} ELSE {}),
                            !.configMap = TRUE, !.secret = @ \/ secret]
  /\ pc' = IF f = "flag" /\ FlagRefreshDereferencesNil(job.spec)
           THEN "panic" ELSE AfterRefresh(f)
  /\ Arm(f)
  /\ UNCHANGED <<spec, generation, env, edited, observed, queue, wake, elapsed, age,
                 vaultAge, left>>

RefreshFails(f) == CheckDue(f) /\ Fails /\ UNCHANGED edited

\* Settings that were just fetched came with resolved secrets, and the refresh
\* time moves only if it has passed.
SkipSecretRefresh ==
  /\ pc = "secret"
  /\ \/ ~Enabled(job.spec, "secret") /\ Disarm("secret")
     \/ /\ Enabled(job.spec, "secret")
        /\ IF "secret" \in job.due THEN job.secret /\ Arm("secret") ELSE UNCHANGED next
  /\ pc' = "write"
  /\ UNCHANGED <<spec, generation, env, edited, observed, queue, wake, job, elapsed,
                 age, vaultAge, left>>

\* A failure leaves the refresh time as it is.
ProcessSecretReferenceRefresh ==
  /\ pc = "secret"
  /\ Enabled(job.spec, "secret")
  /\ "secret" \in job.due
  /\ ~job.secret
  /\ \/ Fails /\ UNCHANGED edited
     \/ /\ Arm("secret")
        /\ job' = [job EXCEPT !.handled = @ \cup {"secret"}, !.secret = TRUE]
        /\ pc' = "write"
        /\ vaultAge' = elapsed
        /\ UNCHANGED <<spec, generation, env, edited, observed, queue, wake, elapsed,
                       age, left>>

\* The ConfigMap and then the Secrets, as far as their settings were fetched.  When
\* the write of a Secret fails, the version of the ConfigMap is already recorded.
WriteTargets ==
  /\ pc = "write"
  /\ \/ job.configMap /\ Fails /\ UNCHANGED edited
     \/ job.secret /\ Fails /\ edited' = (edited /\ ~job.configMap)
     \/ /\ edited' = (edited /\ ~job.configMap)
        /\ pc' = "finish"
        /\ UNCHANGED <<spec, generation, env, observed, next, queue, wake, job,
                       elapsed, age, vaultAge, left>>

CalculateRequeueAfterLatest ==
  LET times == {next[f] : f \in {g \in Features : next[g] # None}}
  IN  Max({Second, Max(times)})

\* The earliest refresh time, at least a second from now.
CalculateRequeueAfterInterval ==
  LET times == {next[f] : f \in {g \in Features : next[g] # None}}
  IN  Max({Second, Min(times)})

Finish ==
  /\ pc = "finish"
  /\ observed' = job.generation
  /\ age' = [f \in Features |-> IF f \in job.handled THEN elapsed ELSE age[f]]
  /\ IF \E f \in Features : Enabled(job.spec, f)
     THEN AddAfter(CalculateRequeueAfterInterval)
     ELSE UNCHANGED wake
  /\ Return
  /\ UNCHANGED <<spec, generation, env, edited, next, queue, vaultAge, left>>

-----------------------------------------------------------------------------
(* The clock and the users *)

Passed(t) == IF t = None THEN None ELSE Max({-1, t - 1})

\* Nothing waits that could happen now.
Tick ==
  /\ wake # 0
  /\ IF pc = "idle" THEN ~queue ELSE elapsed < MaxDuration
  /\ next' = [f \in Features |-> Passed(next[f])]
  /\ wake' = IF wake = None THEN None ELSE wake - 1
  /\ elapsed' = IF pc = "idle" THEN 0 ELSE elapsed + 1
  /\ age' = [f \in Features |-> Older(age[f], Oldest)]
  /\ vaultAge' = Older(vaultAge, Minute + MaxDuration)
  /\ UNCHANGED <<spec, generation, env, edited, observed, queue, pc, job, left>>

UpdateSpec(s) ==
  /\ spec \in Specs \ {s}
  /\ Spend("spec")
  /\ spec' = s
  /\ generation' = generation + 1
  /\ queue' = TRUE
  /\ UNCHANGED <<env, edited, observed, next, wake, pc, job, elapsed, age, vaultAge>>

EditConfigMap ==
  /\ observed # 0
  /\ Spend("edit")
  /\ edited' = TRUE
  /\ queue' = TRUE
  /\ UNCHANGED <<spec, generation, env, observed, next, wake, pc, job, elapsed, age,
                 vaultAge>>

-----------------------------------------------------------------------------
(* The specification *)

Init ==
  /\ spec \in Specs \cup Variants
  /\ env \in Environment(spec)
  /\ generation = 1
  /\ edited = FALSE
  /\ observed = 0
  /\ next = [f \in Features |-> None]
  /\ queue = TRUE
  /\ wake = None
  /\ pc = "idle"
  /\ job = NewJob
  /\ elapsed = 0
  /\ age = [f \in Features |-> 0]
  /\ vaultAge = Minute + MaxDuration
  /\ left = Budget

Next ==
  \/ RequeueFires
  \/ ReconcileInvalid
  \/ ReconcileStart
  \/ ProcessFullReconciliation
  \/ \E f \in {"flag", "keyValue"} :
       SkipRefresh(f) \/ RefreshNotNeeded(f) \/ RefreshNeeded(f) \/ RefreshFails(f)
  \/ SkipSecretRefresh
  \/ ProcessSecretReferenceRefresh
  \/ WriteTargets
  \/ Finish
  \/ Tick
  \/ \E s \in Specs : UpdateSpec(s)
  \/ EditConfigMap

Spec == Init /\ [][Next]_vars

-----------------------------------------------------------------------------
(* Properties *)

\* No accepted spec leads to a nil dereference: behind verifyObject the code
\* follows pointers to endpoints, client IDs, snapshot names, vault URLs and data
\* options without looking at them.
AcceptedNeverPanics == pc # "panic"

\* Every reserved character is preceded by an odd number of escapes.
OneLabel(label) ==
  \A i \in 1..Len(label) : label[i] \in Reserved =>
    \E j \in 0..(i - 1) :
      /\ (i - 1 - j) % 2 = 1
      /\ \A k \in (j + 1)..(i - 1) : label[k] = "\\"
      /\ j > 0 => label[j] # "\\"

\* A label filter that is sent to the store stands for one label, however many
\* escapes precede a reserved character.
OneLabelPerFilter ==
  job.spec # None =>
    \A i \in 1..Len(job.spec.selectors) :
      job.spec.selectors[i].label = None \/ OneLabel(job.spec.selectors[i].label)

\* The longest interval a refresh time may still have been set with: that of the
\* secrets survives a change of the spec.
Longest(f) ==
  IF f = "secret"
  THEN Max({Interval(s, f) : s \in {t \in Specs \cup {spec} : Enabled(t, f)}})
  ELSE Interval(spec, f)

\* What the targets hold was looked up recently: once a spec is in force, each
\* enabled feature is checked again within its interval, the second that a requeue
\* falling exactly on a refresh time costs, and the two reconciles involved.  A
\* failed step costs a retry or, after the refresh time has moved, an interval.
Fresh ==
  VerifyObject(spec, env) /\ observed = generation =>
    \A f \in {g \in Features : Enabled(spec, g)} :
      age[f] <= Longest(f) + Second + 2 * MaxDuration
                + Budget["fault"] * (Max({RetryAfter, Longest(f)}) + Second + MaxDuration)

\* What Key Vault has answered because of the interval is not asked for again on that
\* account, be it with success or not, by a reconcile that starts within a minute of
\* the one that got it, whatever happens to the spec, to the writes and to the retries
\* in between.  A question that failed leaves the refresh time where it is
\* (processor.go:243-246) and is repeated by the next retry, within the minute.
VaultSpared == [][ProcessSecretReferenceRefresh => vaultAge - elapsed >= Minute]_vars
=============================================================================
