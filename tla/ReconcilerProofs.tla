-------------------------- MODULE ReconcilerProofs --------------------------
(***************************************************************************)
(* Proofs about Reconciler for every set of endpoints, Secret names, specs *)
(* and budgets: type correctness and soundness of the recorded ETags.      *)
(***************************************************************************)
EXTENDS Reconciler, TLAPS

-----------------------------------------------------------------------------
(* The inductive invariant *)

Fetching == {"keyValues", "sentinel", "flags", "ffRefresh", "kvRefresh", "kvFetch"}
Refreshing == {"ffRefresh", "kvRefresh", "kvFetch"}

\* What the stages of a reconcile have established.
StageOK ==
  /\ pc # "idle" => job.prov \in Provider
  /\ pc \notin {"configMap", "verify", "secrets"} => ~job.alias
  /\ pc \in Fetching => rs.client \in Endpoints
  /\ pc \in {"keyValues", "sentinel", "flags"} => job.should
  /\ pc \in {"sentinel", "flags", "configMap"} => job.data # None
  /\ pc \in Refreshing /\ ~job.should => job.cm # None
  /\ pc = "ffRefresh" /\ ~job.should => job.data = None
  /\ pc = "kvFetch" => ~job.should
  /\ job.alias => rs.k8s = job.k8s
  /\ pc # "secrets" => job.todo = {}
  /\ \A n \in job.todo : job.secs[n] # None

\* The inductive invariant behind type correctness.
TypeInv == TypeOK /\ StageOK


\* The local state of no reconcile has its type.
LEMMA NewJobType == NewJob \in Job
BY DEF NewJob, Job, Phases

\* The zero ReconciliationState has its type.
LEMMA NewStateType == NewState \in State
BY DEF NewState, State

\* The inductive invariant holds before the first reconcile.
LEMMA InitType == Init => TypeInv
<1> SUFFICES ASSUME Init PROVE TypeInv
  OBVIOUS
<1>1. prov \in Provider
  BY DEF Init, NewProvider, Provider, Phases
<1>2. store \in [Endpoints -> [keyValue : Nat, flag : Nat, sentinel : Nat, published : Nat,
                              refs : SUBSET Names]]
  BY RefSetsAssumption DEF Init
<1>3. TypeOK
  BY <1>1, <1>2, NewJobType, NewStateType, BudgetAssumption DEF Init, TypeOK, Stages
<1>4. StageOK
  BY DEF Init, StageOK, NewJob, Fetching, Refreshing
<1> QED
  BY <1>3, <1>4 DEF TypeInv

\* The budget of outside events stays a budget.
LEMMA SpendType ==
  ASSUME TypeOK, NEW kind \in Kinds, Spend(kind)
  PROVE  left' \in [Kinds -> Nat]
BY DEF TypeOK, Spend

\* Leaving a reconcile keeps the types, whatever the outcome.
LEMMA ReturnType ==
  ASSUME TypeOK, NEW p \in Provider, NEW phase \in Phases, NEW again \in BOOLEAN,
         Return(p, phase, again)
  PROVE  job' \in Job /\ pc' \in Stages /\ StageOK'
BY NewJobType DEF Return, Job, Stages, StageOK, NewJob, Fetching, Refreshing

\* logAndSetFailStatus chooses a phase.
LEMMA FailPhaseType ==
  ASSUME NEW r, NEW p, NEW argumentError
  PROVE  FailPhase(r, p, argumentError) \in Phases
BY DEF FailPhase, Phases

\* The failures of a running reconcile keep the types.
LEMMA FailuresType ==
  ASSUME TypeInv, pc # "idle",
         GetSettingsFails \/ UnexpectedReferenceFails \/ WriteFails
  PROVE  TypeInv'
<1>1. job.prov \in Provider
  BY DEF TypeInv, StageOK
<1>2. job' \in Job /\ pc' \in Stages /\ StageOK'
  BY <1>1, ReturnType, FailPhaseType
  DEF TypeInv, GetSettingsFails, UnexpectedReferenceFails, WriteFails
<1>3. left' \in [Kinds -> Nat]
  BY SpendType DEF TypeInv, TypeOK, Kinds, GetSettingsFails, UnexpectedReferenceFails,
    WriteFails
<1> QED
  BY <1>2, <1>3 DEF TypeInv, TypeOK, GetSettingsFails, UnexpectedReferenceFails,
    WriteFails, world, cluster

\* The reconciles that end where they start.
LEMMA RefusalsType ==
  TypeInv /\ (\/ ReconcileNotFound \/ GetProviderFails \/ ReconcileRunning
              \/ ReconcileInvalid \/ ReconcileConflict)
    => TypeInv'
<1> SUFFICES ASSUME TypeInv,
                    \/ ReconcileNotFound \/ GetProviderFails \/ ReconcileRunning
                    \/ ReconcileInvalid \/ ReconcileConflict
             PROVE  TypeInv'
  OBVIOUS
<1> USE DEF TypeInv
<1>1. CASE ReconcileNotFound
  BY <1>1, NewStateType DEF TypeOK, StageOK, ReconcileNotFound, Dequeue, world,
    cluster, Fetching, Refreshing
<1>2. CASE GetProviderFails
  <2>1. left' \in [Kinds -> Nat]
    BY <1>2, SpendType DEF GetProviderFails, Kinds
  <2> QED
    BY <1>2, <2>1 DEF TypeOK, StageOK, GetProviderFails, Dequeue, world, cluster
<1>3. CASE ReconcileRunning
  BY <1>3 DEF TypeOK, StageOK, ReconcileRunning, Dequeue, world, cluster
<1>4. CASE ReconcileInvalid
  <2>1. prov \in Provider
    BY <1>4 DEF TypeOK, ReconcileInvalid
  <2>2. job' \in Job /\ pc' \in Stages /\ StageOK'
    BY <1>4, <2>1, ReturnType, FailPhaseType DEF ReconcileInvalid
  <2> QED
    BY <1>4, <2>2 DEF TypeOK, ReconcileInvalid, Dequeue, world, cluster
<1>5. CASE ReconcileConflict
  <2>1. prov \in Provider
    BY <1>5 DEF TypeOK, ReconcileConflict, Admitted
  <2>2. job' \in Job /\ pc' \in Stages /\ StageOK'
    BY <1>5, <2>1, ReturnType, FailPhaseType DEF ReconcileConflict
  <2>3. left' \in [Kinds -> Nat]
    BY <1>5, SpendType DEF TypeOK, ReconcileConflict, Kinds
  <2> QED
    BY <1>5, <2>2, <2>3 DEF TypeOK, ReconcileConflict, Dequeue, world, cluster
<1> QED
  BY <1>1, <1>2, <1>3, <1>4, <1>5

\* The Secrets collected at the start are Secrets.
LEMMA CollectType ==
  ASSUME TypeOK, NEW names
  PROVE  Collect(names) \in [Names -> Object(SecretData) \cup {None}]
BY DEF TypeOK, Collect

\* Forgetting resource versions keeps the types, and keeps ETags and generation.
LEMMA ResetVersionsType ==
  ASSUME TypeOK, NEW p, NEW ex
  PROVE  /\ ResetVersions(p, ex) \in State
         /\ ResetVersions(p, ex).cmrv = IF cm = None THEN 0 ELSE rs.cmrv
         /\ ResetVersions(p, ex).kvTag = rs.kvTag
         /\ ResetVersions(p, ex).ffTag = rs.ffTag
         /\ ResetVersions(p, ex).gen = rs.gen
         /\ ResetVersions(p, ex).client = rs.client
<1> DEFINE k == [n \in Names |->
                   IF p.spec.secret = None \/ rs.k8s[n] = None THEN None
                   ELSE IF ex[n] = None THEN [rs.k8s[n] EXCEPT !.rv = 0] ELSE rs.k8s[n]]
           v == IF cm = None THEN 0 ELSE rs.cmrv
<1>1. rs \in State
  BY DEF TypeOK
<1>2. k \in [Names -> Metadata \cup {None}]
  BY <1>1 DEF State, Metadata
<1>3. v \in Nat
  BY <1>1 DEF State
<1>4. ResetVersions(p, ex) = [rs EXCEPT !.cmrv = v, !.k8s = k]
  BY DEF ResetVersions
<1> HIDE DEF k
<1> QED
  BY <1>1, <1>2, <1>3, <1>4 DEF State

\* What is tracked stays tracked, with the same references, if spec.secret is
\* still there; what is gone loses its version.
LEMMA ResetMetadata ==
  ASSUME TypeOK, NEW p, NEW ex, NEW n \in Names
  PROVE  ResetVersions(p, ex).k8s[n] =
           IF p.spec.secret = None \/ rs.k8s[n] = None THEN None
           ELSE IF ex[n] = None THEN [rs.k8s[n] EXCEPT !.rv = 0] ELSE rs.k8s[n]
<1> DEFINE k == [m \in Names |->
                   IF p.spec.secret = None \/ rs.k8s[m] = None THEN None
                   ELSE IF ex[m] = None THEN [rs.k8s[m] EXCEPT !.rv = 0] ELSE rs.k8s[m]]
           v == IF cm = None THEN 0 ELSE rs.cmrv
<1>1. ResetVersions(p, ex) = [rs EXCEPT !.cmrv = v, !.k8s = k]
  BY DEF ResetVersions
<1> HIDE DEF k, v
<1>2. ResetVersions(p, ex).k8s = k
  BY <1>1 DEF TypeOK, State
<1> QED
  BY <1>2 DEF k

\* A reconcile that gets no client keeps the types.
LEMMA ClientManagerFailsType == TypeInv /\ ClientManagerFails => TypeInv'
<1> SUFFICES ASSUME TypeInv, ClientManagerFails PROVE TypeInv'
  OBVIOUS
<1> USE DEF TypeInv
<1>1. prov \in Provider
  BY DEF TypeOK, ClientManagerFails, Admitted
<1>2. rs' \in State
  BY ResetVersionsType DEF ClientManagerFails
<1>3. job' \in Job /\ pc' \in Stages /\ StageOK'
  BY <1>1, ReturnType, FailPhaseType DEF ClientManagerFails
<1>4. left' \in [Kinds -> Nat]
  BY SpendType DEF ClientManagerFails, Kinds
<1> QED
  BY <1>2, <1>3, <1>4 DEF TypeOK, ClientManagerFails, Dequeue, world, cluster

\* A reconcile that starts has its endpoint, and its ConfigMap unless it will
\* fetch everything.
LEMMA StartType == TypeInv /\ ReconcileStart => TypeInv'
<1> SUFFICES ASSUME TypeInv, ReconcileStart PROVE TypeInv'
  OBVIOUS
<1> USE DEF TypeInv
<1> DEFINE ex == Collect(CollectedNames(prov))
           r == ResetVersions(prov, ex)
<1>1. prov \in Provider
  BY DEF TypeOK, ReconcileStart, Admitted
<1>2. ex \in [Names -> Object(SecretData) \cup {None}]
  BY CollectType
<1>3. r \in State /\ r.cmrv = (IF cm = None THEN 0 ELSE rs.cmrv)
  BY ResetVersionsType
<1> HIDE DEF r
<1>4. WithClient(r, prov) \in State
  BY <1>1, <1>3, SpecsAssumption DEF WithClient, NeedsClient, State, Provider, ProviderSpec
<1> DEFINE should == ShouldReconcile(r, prov, cm, ex)
<1>5. should \in BOOLEAN
  BY DEF ShouldReconcile
<1>6. rs' = WithClient(r, prov) /\ pc' = IF should THEN "keyValues" ELSE "ffRefresh"
  BY DEF ReconcileStart, r
<1>7. job' = [NewJob EXCEPT !.prov = prov, !.cm = cm, !.ex = ex,
                                  !.should = should, !.due = Timers \ rs.armed]
  BY DEF ReconcileStart, r
<1> HIDE DEF ex, should
<1>8. rs' \in State /\ pc' \in Stages
  BY <1>4, <1>6 DEF Stages
<1>9. job' \in Job
  <2>1. cm \in Object(ConfigMapData) \cup {None} /\ Timers \ rs.armed \in SUBSET Timers
    BY DEF TypeOK
  <2> QED
    BY <2>1, <1>1, <1>2, <1>5, <1>7, NewJobType DEF Job
<1>10. StageOK'
  <2>1. rs'.client \in Endpoints
    BY <1>1, <1>3, <1>6, SpecsAssumption DEF WithClient, NeedsClient, State, Provider, ProviderSpec
  <2>2. ~should => cm # None
    BY <1>3 DEF should, ShouldReconcile
  <2>3. /\ job'.prov = prov /\ job'.alias = FALSE /\ job'.should = should
        /\ job'.data = None /\ job'.cm = cm /\ job'.todo = {}
    BY <1>7 DEF NewJob
  <2> QED
    BY <1>1, <1>6, <2>1, <2>2, <2>3 DEF StageOK, Fetching, Refreshing
<1> QED
  BY <1>8, <1>9, <1>10 DEF TypeOK, ReconcileStart, Dequeue, world, cluster

-----------------------------------------------------------------------------
(* The stages of PopulateSettings *)

\* What the stores return has its type.
LEMMA ContentType ==
  ASSUME TypeOK, NEW e \in Endpoints
  PROVE  KeyValues(e) \in Content /\ Flags(e) \in Content
         /\ Sentinel(e) \in Content \cup {None}
BY DEF TypeOK, KeyValues, Flags, Sentinel, Content

\* The settings built from the key-values have their types and keep the rest of
\* the job.
LEMMA WithKeyValuesType ==
  ASSUME TypeOK, rs.client \in Endpoints, NEW j \in Job, NEW flags \in Content \cup {None}
  PROVE  /\ WithKeyValues(j, flags) \in Job
         /\ WithKeyValues(j, flags).data =
              [keyValue |-> KeyValues(rs.client), flag |-> flags]
         /\ WithKeyValues(j, flags).data \in ConfigMapData
         /\ WithKeyValues(j, flags).data # None
         /\ WithKeyValues(j, flags).prov = j.prov
         /\ WithKeyValues(j, flags).should = j.should
         /\ WithKeyValues(j, flags).alias = j.alias
         /\ WithKeyValues(j, flags).todo = j.todo
         /\ WithKeyValues(j, flags).cm = j.cm
         /\ WithKeyValues(j, flags).ex = j.ex
         /\ WithKeyValues(j, flags).secPop <=> j.prov.spec.secret # None
         /\ WithKeyValues(j, flags).secs = FetchedSecrets
         /\ WithKeyValues(j, flags).k8s = FetchedMetadata
         /\ WithKeyValues(j, flags).kvTag = j.kvTag
         /\ WithKeyValues(j, flags).ffTag = j.ffTag
<1> DEFINE data == [keyValue |-> KeyValues(rs.client), flag |-> flags]
           populated == j.prov.spec.secret # None
<1>1. KeyValues(rs.client) \in Content
  BY ContentType
<1>2. data \in ConfigMapData
  BY <1>1 DEF ConfigMapData
<1>3. FetchedSecrets \in [Names -> SecretData \cup {None}]
  BY <1>1 DEF FetchedSecrets, SecretData, TypeOK
<1>4. FetchedMetadata \in [Names -> Metadata \cup {None}]
  BY <1>1 DEF FetchedMetadata, Metadata
<1>5. populated \in BOOLEAN
  OBVIOUS
<1>6. WithKeyValues(j, flags) = [j EXCEPT !.data = data, !.secPop = populated,
                                          !.secs = FetchedSecrets,
                                          !.k8s = FetchedMetadata]
  BY DEF WithKeyValues
<1> HIDE DEF data, populated
<1>7. WithKeyValues(j, flags) \in Job
  BY <1>2, <1>3, <1>4, <1>5, <1>6 DEF Job
<1>8. data # None
  BY <1>2, NoDataAssumption
<1>9. WithKeyValues(j, flags).secPop = populated
  BY <1>6, Zenon DEF Job
<1>10. WithKeyValues(j, flags).secPop <=> j.prov.spec.secret # None
  BY <1>9, Zenon DEF populated
<1> QED
  BY <1>2, <1>6, <1>7, <1>8, <1>10 DEF Job, data

\* CreateKeyValueSettings keeps the types.
LEMMA CreateKeyValueSettingsType == TypeInv /\ CreateKeyValueSettings => TypeInv'
<1> SUFFICES ASSUME TypeInv, CreateKeyValueSettings PROVE TypeInv'
  OBVIOUS
<1>1. CASE GetSettingsFails \/ UnexpectedReferenceFails
  BY <1>1, FailuresType DEF CreateKeyValueSettings
<1>2. CASE ~(GetSettingsFails \/ UnexpectedReferenceFails)
  <2> DEFINE j == WithKeyValues(job, None)
  <2>1. rs.client \in Endpoints /\ job \in Job /\ TypeOK
    BY DEF TypeInv, StageOK, TypeOK, Fetching, CreateKeyValueSettings
  <2>2. /\ j \in Job /\ j.data # None /\ j.prov = job.prov /\ j.should = job.should
        /\ j.alias = job.alias /\ j.todo = job.todo
    BY <2>1, WithKeyValuesType
  <2>3. job' = [j EXCEPT !.kvTag = KeyValues(rs.client)]
    BY <1>2 DEF CreateKeyValueSettings
  <2>4. pc' \in {"sentinel", "flags", "ffRefresh"} /\ rs' = rs
    BY <1>2 DEF CreateKeyValueSettings
  <2> HIDE DEF j
  <2>5. job' \in Job
    BY <2>1, <2>2, <2>3, ContentType DEF Job
  <2>6. /\ job'.data # None /\ job'.prov = job.prov /\ job'.should = job.should
        /\ job'.alias = job.alias /\ job'.todo = job.todo
    BY <2>2, <2>3 DEF Job
  <2>7. StageOK'
    BY <2>1, <2>4, <2>6 DEF TypeInv, StageOK, Fetching, Refreshing, CreateKeyValueSettings
  <2> QED
    BY <1>2, <2>4, <2>5, <2>7 DEF TypeInv, TypeOK, CreateKeyValueSettings, world, cluster, Stages
<1> QED
  BY <1>1, <1>2

\* Reading the initial sentinels keeps the types.
LEMMA InitializeSentinelsType == TypeInv /\ InitializeSentinels => TypeInv'
<1> SUFFICES ASSUME TypeInv, InitializeSentinels PROVE TypeInv'
  OBVIOUS
<1>1. CASE GetSettingsFails
  BY <1>1, FailuresType DEF InitializeSentinels
<1>2. CASE ~GetSettingsFails
  <2>1. rs.client \in Endpoints /\ job \in Job /\ TypeOK
    BY DEF TypeInv, StageOK, TypeOK, Fetching, InitializeSentinels
  <2>2. job' = [job EXCEPT !.senTag = Sentinel(rs.client)]
    BY <1>2 DEF InitializeSentinels
  <2>3. job' \in Job
    BY <2>1, <2>2, ContentType DEF Job
  <2>4. /\ job'.data = job.data /\ job'.prov = job.prov /\ job'.should = job.should
        /\ job'.alias = job.alias /\ job'.todo = job.todo
    BY <2>1, <2>2 DEF Job
  <2>5. pc' \in {"flags", "ffRefresh"} /\ rs' = rs
    BY <1>2 DEF InitializeSentinels
  <2>6. StageOK'
    BY <2>1, <2>4, <2>5 DEF TypeInv, StageOK, Fetching, Refreshing, InitializeSentinels
  <2> QED
    BY <1>2, <2>3, <2>5, <2>6 DEF TypeInv, TypeOK, InitializeSentinels, world, cluster, Stages
<1> QED
  BY <1>1, <1>2

\* getFeatureFlagSettings adds flags to data that is there.
LEMMA GetFeatureFlagSettingsType == TypeInv /\ GetFeatureFlagSettings => TypeInv'
<1> SUFFICES ASSUME TypeInv, GetFeatureFlagSettings PROVE TypeInv'
  OBVIOUS
<1>1. CASE GetSettingsFails
  BY <1>1, FailuresType DEF GetFeatureFlagSettings
<1>2. CASE ~GetSettingsFails
  <2> DEFINE data == [job.data EXCEPT !.flag = Flags(rs.client)]
  <2>1. rs.client \in Endpoints /\ job \in Job /\ TypeOK /\ job.data # None
    BY DEF TypeInv, StageOK, TypeOK, Fetching, GetFeatureFlagSettings
  <2>2. Flags(rs.client) \in Content
    BY <2>1, ContentType
  <2>3. data \in ConfigMapData
    BY <2>1, <2>2 DEF Job, ConfigMapData
  <2>4. job' = [job EXCEPT !.data = data, !.ffTag = Flags(rs.client)]
    BY <1>2 DEF GetFeatureFlagSettings
  <2> HIDE DEF data
  <2>5. job' \in Job
    BY <2>1, <2>2, <2>3, <2>4 DEF Job
  <2>6. /\ job'.prov = job.prov /\ job'.should = job.should
        /\ job'.alias = job.alias /\ job'.todo = job.todo
    BY <2>1, <2>4 DEF Job
  <2>7. pc' = "ffRefresh" /\ rs' = rs
    BY <1>2 DEF GetFeatureFlagSettings
  <2>8. StageOK'
    BY <2>1, <2>6, <2>7 DEF TypeInv, StageOK, Fetching, Refreshing, GetFeatureFlagSettings
  <2> QED
    BY <1>2, <2>5, <2>7, <2>8 DEF TypeInv, TypeOK, GetFeatureFlagSettings, world, cluster, Stages
<1> QED
  BY <1>1, <1>2

\* Setting a refresh time changes nothing else of the state.
LEMMA ArmType ==
  ASSUME TypeOK, NEW timer \in Timers
  PROVE  /\ Arm(timer) \in State /\ Disarm(timer) \in State
         /\ Arm(timer).client = rs.client /\ Disarm(timer).client = rs.client
         /\ Arm(timer).gen = rs.gen /\ Disarm(timer).gen = rs.gen
         /\ Arm(timer).k8s = rs.k8s /\ Disarm(timer).k8s = rs.k8s
         /\ Arm(timer).cmrv = rs.cmrv /\ Disarm(timer).cmrv = rs.cmrv
         /\ Arm(timer).kvTag = rs.kvTag /\ Disarm(timer).kvTag = rs.kvTag
         /\ Arm(timer).ffTag = rs.ffTag /\ Disarm(timer).ffTag = rs.ffTag
<1>1. rs \in State
  BY DEF TypeOK
<1>2. rs.armed \cup {timer} \in SUBSET Timers /\ rs.armed \ {timer} \in SUBSET Timers
  BY <1>1 DEF State
<1> QED
  BY <1>1, <1>2 DEF Arm, Disarm, State

\* A refresh that is not due changes at most a refresh time.
LEMMA RefreshNotNeededType ==
  ASSUME TypeOK, NEW timer \in Timers, NEW enabled, RefreshNotNeeded(timer, enabled)
  PROVE  /\ rs' \in State
         /\ rs'.client = rs.client
         /\ rs'.gen = rs.gen
         /\ rs'.k8s = rs.k8s
         /\ rs'.cmrv = rs.cmrv
         /\ rs'.kvTag = rs.kvTag
         /\ rs'.ffTag = rs.ffTag
BY ArmType DEF RefreshNotNeeded, TypeOK

\* processFeatureFlagRefresh keeps the types.
LEMMA ProcessFeatureFlagRefreshType ==
  TypeInv /\ ProcessFeatureFlagRefresh => TypeInv'
<1> SUFFICES ASSUME TypeInv, ProcessFeatureFlagRefresh PROVE TypeInv'
  OBVIOUS
<1>0. TypeOK /\ rs.client \in Endpoints /\ job \in Job /\ "flag" \in Timers
  BY DEF TypeInv, TypeOK, StageOK, Fetching, ProcessFeatureFlagRefresh, Timers
<1>1. CASE RefreshNotNeeded("flag", FlagRefreshEnabled)
  <2>1. rs' \in State /\ rs'.client = rs.client /\ rs'.k8s = rs.k8s
    BY <1>0, <1>1, RefreshNotNeededType
  <2>2. pc' = "kvRefresh" /\ job' = job
    BY <1>1 DEF ProcessFeatureFlagRefresh, RefreshNotNeeded, RefreshNeeded
  <2>3. StageOK'
    BY <2>1, <2>2 DEF TypeInv, StageOK, Fetching, Refreshing, ProcessFeatureFlagRefresh
  <2> QED
    BY <1>1, <2>1, <2>2, <2>3 DEF TypeInv, TypeOK, RefreshNotNeeded, world, cluster, Stages
<1>2. CASE GetSettingsFails
  BY <1>2, FailuresType DEF ProcessFeatureFlagRefresh
<1>3. CASE ~GetSettingsFails /\ ~RefreshNotNeeded("flag", FlagRefreshEnabled)
  <2> DEFINE data == [keyValue |-> job.cm.data.keyValue, flag |-> Flags(rs.client)]
             j == [job EXCEPT !.data = data, !.ffTag = Flags(rs.client)]
  <2>1. Flags(rs.client) \in Content
    BY <1>0, ContentType
  <2>2. job.cm \in Object(ConfigMapData) /\ ~job.should
    BY <1>0, <1>3 DEF TypeInv, StageOK, Refreshing, Job, ProcessFeatureFlagRefresh,
      RefreshNeeded
  <2>3. data \in ConfigMapData
    BY <2>1, <2>2 DEF Object, ConfigMapData
  <2>4. /\ rs' = Arm("flag") /\ pc' = "kvRefresh"
        /\ job' = IF rs.ffTag = Flags(rs.client) THEN job ELSE j
    BY <1>3 DEF ProcessFeatureFlagRefresh
  <2> HIDE DEF data
  <2>5. /\ j \in Job
        /\ j.prov = job.prov /\ j.should = job.should /\ j.cm = job.cm
        /\ j.alias = job.alias /\ j.todo = job.todo
    BY <1>0, <2>1, <2>3 DEF Job
  <2> HIDE DEF j
  <2>6. /\ job' \in Job
        /\ job'.prov = job.prov /\ job'.should = job.should /\ job'.cm = job.cm
        /\ job'.alias = job.alias /\ job'.todo = job.todo
    BY <1>0, <2>4, <2>5
  <2>7. rs' \in State /\ rs'.client = rs.client /\ rs'.k8s = rs.k8s
    BY <1>0, <2>4, ArmType
  <2>8. StageOK'
    BY <2>4, <2>6, <2>7 DEF TypeInv, StageOK, Fetching, Refreshing, ProcessFeatureFlagRefresh
  <2> QED
    BY <1>3, <2>4, <2>6, <2>7, <2>8
    DEF TypeInv, TypeOK, ProcessFeatureFlagRefresh, world, cluster, Stages
<1> QED
  BY <1>1, <1>2, <1>3

\* The check of processKeyValueRefresh keeps the types.
LEMMA ProcessKeyValueRefreshType ==
  TypeInv /\ ProcessKeyValueRefresh => TypeInv'
<1> SUFFICES ASSUME TypeInv, ProcessKeyValueRefresh PROVE TypeInv'
  OBVIOUS
<1>0. TypeOK /\ rs.client \in Endpoints /\ job \in Job /\ "keyValue" \in Timers
  BY DEF TypeInv, TypeOK, StageOK, Fetching, ProcessKeyValueRefresh, Timers
<1>1. CASE RefreshNotNeeded("keyValue", KeyValueRefreshEnabled) /\ pc' = "secretRefresh"
  <2>1. rs' \in State /\ rs'.client = rs.client /\ rs'.k8s = rs.k8s
    BY <1>0, <1>1, RefreshNotNeededType
  <2>2. job' = job
    BY <1>1 DEF RefreshNotNeeded
  <2>3. StageOK'
    BY <1>1, <2>1, <2>2 DEF TypeInv, StageOK, Fetching, Refreshing, ProcessKeyValueRefresh
  <2> QED
    BY <1>1, <2>1, <2>2, <2>3 DEF TypeInv, TypeOK, RefreshNotNeeded, world, cluster, Stages
<1>2. CASE GetSettingsFails
  BY <1>2, FailuresType DEF ProcessKeyValueRefresh
<1>3. CASE /\ rs' = Arm("keyValue")
           /\ pc' = "secretRefresh"
           /\ UNCHANGED <<world, cluster, prov, job, queue, delayed, left>>
  <2>1. rs' \in State /\ rs'.client = rs.client /\ rs'.k8s = rs.k8s
    BY <1>0, <1>3, ArmType
  <2>2. StageOK'
    BY <1>3, <2>1 DEF TypeInv, StageOK, Fetching, Refreshing, ProcessKeyValueRefresh
  <2> QED
    BY <1>3, <2>1, <2>2 DEF TypeInv, TypeOK, world, cluster, Stages
<1>4. CASE /\ RefreshNeeded("keyValue", KeyValueRefreshEnabled)
           /\ job' = IF job.prov.spec.keyValue = "sentinel"
                     THEN [job EXCEPT !.changed = TRUE, !.senTag = Sentinel(rs.client)]
                     ELSE job
           /\ pc' = "kvFetch"
           /\ UNCHANGED <<world, cluster, prov, rs, queue, delayed, left>>
  <2>1. Sentinel(rs.client) \in Content \cup {None}
    BY <1>0, ContentType
  <2>2. /\ job' \in Job
        /\ job'.prov = job.prov /\ job'.should = job.should /\ job'.cm = job.cm
        /\ job'.alias = job.alias /\ job'.todo = job.todo /\ job'.data = job.data
    BY <1>0, <1>4, <2>1 DEF Job
  <2>3. StageOK'
    BY <1>4, <2>2 DEF TypeInv, StageOK, Fetching, Refreshing, ProcessKeyValueRefresh,
      RefreshNeeded
  <2> QED
    BY <1>4, <2>2, <2>3 DEF TypeInv, TypeOK, world, cluster, Stages
<1> QED
  BY <1>1, <1>2, <1>3, <1>4 DEF ProcessKeyValueRefresh

\* RefreshKeyValueSettings keeps the types.
LEMMA RefreshKeyValueSettingsType ==
  TypeInv /\ RefreshKeyValueSettings => TypeInv'
<1> SUFFICES ASSUME TypeInv, RefreshKeyValueSettings PROVE TypeInv'
  OBVIOUS
<1>1. CASE GetSettingsFails \/ UnexpectedReferenceFails
  BY <1>1, FailuresType DEF RefreshKeyValueSettings
<1>2. CASE ~(GetSettingsFails \/ UnexpectedReferenceFails)
  <2> DEFINE j == WithKeyValues(job, KeptFlags)
  <2>1. rs.client \in Endpoints /\ job \in Job /\ TypeOK /\ "keyValue" \in Timers
    BY DEF TypeInv, StageOK, TypeOK, Fetching, RefreshKeyValueSettings, Timers
  <2>2. KeptFlags \in Content \cup {None}
    BY <2>1 DEF TypeInv, StageOK, Refreshing, RefreshKeyValueSettings, KeptFlags, Job, Object,
      ConfigMapData
  <2>3. /\ j \in Job /\ j.prov = job.prov
        /\ j.alias = job.alias /\ j.todo = job.todo
    BY <2>1, <2>2, WithKeyValuesType
  <2>4. /\ job' = [j EXCEPT !.kvTag = IF job.prov.spec.keyValue = "page"
                                      THEN KeyValues(rs.client) ELSE @]
        /\ pc' = "secretRefresh" /\ rs' = Arm("keyValue")
    BY <1>2 DEF RefreshKeyValueSettings
  <2> HIDE DEF j
  <2>5. job' \in Job
    BY <2>1, <2>3, <2>4, ContentType DEF Job
  <2>6. /\ job'.prov = job.prov /\ job'.alias = job.alias /\ job'.todo = job.todo
    BY <2>3, <2>4 DEF Job
  <2>7. rs' \in State
    BY <2>1, <2>4, ArmType
  <2>8. StageOK'
    BY <2>4, <2>6 DEF TypeInv, StageOK, Fetching, Refreshing, RefreshKeyValueSettings
  <2> QED
    BY <1>2, <2>4, <2>5, <2>7, <2>8
    DEF TypeInv, TypeOK, RefreshKeyValueSettings, world, cluster, Stages
<1> QED
  BY <1>1, <1>2

\* processSecretReferenceRefresh keeps the types; from here on the map of the job
\* may be the map of the state.
LEMMA ProcessSecretReferenceRefreshType ==
  TypeInv /\ ProcessSecretReferenceRefresh => TypeInv'
<1> SUFFICES ASSUME TypeInv, ProcessSecretReferenceRefresh PROVE TypeInv'
  OBVIOUS
<1>0. TypeOK /\ job \in Job /\ rs \in State /\ "secret" \in Timers
  BY DEF TypeInv, TypeOK, Timers
<1>1. CASE GetSettingsFails
  BY <1>1, FailuresType DEF ProcessSecretReferenceRefresh
<1>2. CASE /\ job' = job
           /\ rs' \in {Disarm("secret"), Arm("secret"), rs}
           /\ pc' = AfterSettings(job)
           /\ UNCHANGED <<world, cluster, prov, queue, delayed, left>>
  <2>1. rs' \in State /\ rs'.k8s = rs.k8s
    BY <1>0, <1>2, ArmType
  <2>2. StageOK'
    BY <1>2, <2>1 DEF TypeInv, StageOK, Fetching, Refreshing, AfterSettings,
      ProcessSecretReferenceRefresh
  <2> QED
    BY <1>2, <2>1, <2>2 DEF TypeInv, TypeOK, world, cluster, Stages, AfterSettings
<1>3. CASE ~GetSettingsFails /\ job' # job
  <2> DEFINE secs == [n \in Names |->
                        IF job.ex[n] = None THEN None
                        ELSE IF rs.k8s[n] = None THEN job.ex[n].data
                        ELSE Resolved(job.ex[n], rs.k8s[n])]
  <2>1. /\ job' = [job EXCEPT !.secs = secs, !.k8s = rs.k8s, !.alias = TRUE,
                              !.secPop = TRUE]
        /\ rs' = Arm("secret")
        /\ pc' = AfterSettings(job')
        /\ UNCHANGED <<world, cluster, prov, queue, delayed, left>>
    BY <1>3 DEF ProcessSecretReferenceRefresh
  <2>2. secs \in [Names -> SecretData \cup {None}]
    BY <1>0 DEF TypeOK, Job, State, Object, SecretData, Metadata, Resolved
  <2>3. rs.k8s \in [Names -> Metadata \cup {None}]
    BY <1>0 DEF State
  <2> HIDE DEF secs
  <2>4. job' \in Job
    BY <1>0, <2>1, <2>2, <2>3 DEF Job
  <2>5. job'.prov = job.prov /\ job'.todo = job.todo /\ job'.data = job.data
        /\ job'.k8s = rs.k8s
    BY <1>0, <2>1 DEF Job
  <2>6. rs' \in State /\ rs'.k8s = rs.k8s
    BY <1>0, <2>1, ArmType
  <2>7. pc' \in {"configMap", "verify", "secrets"} /\ (pc' = "configMap" => job'.data # None)
    BY <2>1 DEF AfterSettings
  <2>8. StageOK'
    BY <2>5, <2>6, <2>7 DEF TypeInv, StageOK, Fetching, Refreshing,
      ProcessSecretReferenceRefresh
  <2> QED
    BY <2>1, <2>4, <2>6, <2>7, <2>8 DEF TypeInv, TypeOK, world, cluster, Stages
<1> QED
  BY <1>1, <1>2, <1>3 DEF ProcessSecretReferenceRefresh

\* A panic while the settings are built keeps the types.
LEMMA SettingsPanicType == TypeInv /\ SettingsPanic => TypeInv'
<1> SUFFICES ASSUME TypeInv, SettingsPanic PROVE TypeInv'
  OBVIOUS
<1>1. job.prov \in Provider
  BY DEF TypeInv, StageOK, SettingsPanic
<1>2. job' \in Job /\ pc' \in Stages /\ StageOK'
  BY <1>1, ReturnType DEF TypeInv, SettingsPanic, Phases
<1>3. left' \in [Kinds -> Nat]
  BY SpendType DEF TypeInv, SettingsPanic, Kinds
<1> QED
  BY <1>2, <1>3 DEF TypeInv, TypeOK, SettingsPanic, world, cluster

-----------------------------------------------------------------------------
(* Writing the targets *)

\* A written object is an object.
LEMMA WrittenType ==
  ASSUME TypeInv, pc # "idle", NEW D, NEW data \in D, NEW obj \in Object(D) \cup {None}
  PROVE  Written(obj, data) \in Object(D)
<1>1. job.prov.uid \in Nat /\ rev + 1 \in Nat
  BY DEF TypeInv, TypeOK, StageOK, Provider
<1> QED
  BY <1>1 DEF Object, Written

\* createOrUpdateConfigMap keeps the types.
LEMMA CreateOrUpdateConfigMapType == TypeInv /\ CreateOrUpdateConfigMap => TypeInv'
<1> SUFFICES ASSUME TypeInv, CreateOrUpdateConfigMap PROVE TypeInv'
  OBVIOUS
<1>0. /\ TypeOK /\ job \in Job /\ rs \in State
      /\ job.data \in ConfigMapData /\ pc = "configMap"
  BY DEF TypeInv, TypeOK, StageOK, Job, CreateOrUpdateConfigMap
<1>1. CASE WriteFails
  BY <1>0, <1>1, FailuresType
<1>2. CASE ~WriteFails /\ ~ShouldWriteConfigMap
  <2>1. job.cm.rv \in Nat
    BY <1>0, <1>2 DEF ShouldWriteConfigMap, Job, Object
  <2>2. rs' = [rs EXCEPT !.cmrv = job.cm.rv] /\ job' = job /\ pc' = AfterConfigMap
    BY <1>2 DEF CreateOrUpdateConfigMap
  <2>3. rs' \in State /\ rs'.k8s = rs.k8s
    BY <1>0, <2>1, <2>2 DEF State
  <2>4. StageOK'
    BY <1>0, <2>2, <2>3 DEF TypeInv, StageOK, Fetching, Refreshing, AfterConfigMap
  <2> QED
    BY <1>2, <2>2, <2>3, <2>4
    DEF TypeInv, TypeOK, CreateOrUpdateConfigMap, world, cluster, Stages, AfterConfigMap
<1>3. CASE ~WriteFails /\ ShouldWriteConfigMap
  <2>1. /\ cm' = Written(cm, job.data) /\ rev' = rev + 1 /\ rs' = [rs EXCEPT !.cmrv = cm'.rv]
        /\ pc' = AfterConfigMap /\ job' = job
        /\ queue' = (queue \/ (cm # None /\ EnqueuesUpdate(cm, cm')))
    BY <1>3 DEF CreateOrUpdateConfigMap
  <2>2. cm \in Object(ConfigMapData) \cup {None}
    BY <1>0 DEF TypeOK
  <2>3. cm' \in Object(ConfigMapData)
    BY <1>0, <2>1, <2>2, WrittenType
  <2>4. rs' \in State /\ rs'.k8s = rs.k8s
    BY <1>0, <2>1, <2>3 DEF State, Object
  <2>5. StageOK'
    BY <1>0, <2>1, <2>4 DEF TypeInv, StageOK, Fetching, Refreshing, AfterConfigMap
  <2>6. queue' \in BOOLEAN /\ rev' \in Nat
    BY <1>0, <2>1 DEF TypeOK, EnqueuesUpdate
  <2> QED
    BY <1>3, <2>1, <2>3, <2>4, <2>5, <2>6
    DEF TypeInv, TypeOK, CreateOrUpdateConfigMap, world, Stages, AfterConfigMap
<1> QED
  BY <1>1, <1>2, <1>3

\* Verifying the Secrets keeps the types and leaves only Secrets with data to
\* write.
LEMMA VerifySecretsType == TypeInv /\ VerifySecrets => TypeInv'
<1> SUFFICES ASSUME TypeInv, VerifySecrets PROVE TypeInv'
  OBVIOUS
<1>0. /\ TypeOK /\ job \in Job /\ job.prov \in Provider
  BY DEF TypeInv, TypeOK, StageOK, VerifySecrets
<1>1. left' \in [Kinds -> Nat]
  BY <1>0, SpendType DEF TypeOK, TypeInv, VerifySecrets, Kinds
<1>2. CASE Return(job.prov, FailPhase(rs, job.prov, FALSE), TRUE)
  <2>1. job' \in Job /\ pc' \in Stages /\ StageOK'
    BY <1>0, <1>2, ReturnType, FailPhaseType
  <2> QED
    BY <1>1, <2>1 DEF TypeInv, TypeOK, VerifySecrets, world, cluster
<1>3. CASE ~Return(job.prov, FailPhase(rs, job.prov, FALSE), TRUE)
  <2> DEFINE ex == [n \in Names |-> IF n \in Unverified THEN sec[n] ELSE job.ex[n]]
             todo == Present(job.secs)
  <2>1. job' = [job EXCEPT !.ex = ex, !.todo = todo] /\ pc' = "secrets" /\ rs' = rs
    BY <1>3 DEF VerifySecrets
  <2>2. ex \in [Names -> Object(SecretData) \cup {None}]
    BY <1>0 DEF TypeOK, Job
  <2>3. todo \in SUBSET Names /\ \A n \in todo : job.secs[n] # None
    BY DEF Present
  <2> HIDE DEF ex, todo
  <2>4. job' \in Job
    BY <1>0, <2>1, <2>2, <2>3 DEF Job
  <2>5. /\ job'.prov = job.prov /\ job'.alias = job.alias /\ job'.k8s = job.k8s
        /\ job'.todo = todo /\ job'.secs = job.secs
    BY <1>0, <2>1 DEF Job
  <2>6. StageOK'
    BY <1>0, <2>1, <2>3, <2>5 DEF TypeInv, StageOK, Fetching, Refreshing
  <2> QED
    BY <1>1, <2>1, <2>4, <2>6
    DEF TypeInv, TypeOK, VerifySecrets, world, cluster, Stages
<1> QED
  BY <1>2, <1>3

\* Recording the version of a Secret keeps the types and, where the two maps are
\* one, the equality of both.
LEMMA SetSecretVersionType ==
  ASSUME TypeInv, pc = "secrets", NEW n \in Names, NEW rv \in Nat,
         SetSecretVersion(n, rv)
  PROVE  job' \in Job /\ rs' \in State /\ pc' \in Stages /\ StageOK'
<1>0. TypeOK /\ job \in Job /\ rs \in State /\ job.prov \in Provider
  BY DEF TypeInv, TypeOK, StageOK
<1>1. CASE job.k8s[n] = None
  BY <1>0, <1>1, ReturnType DEF SetSecretVersion, Phases
<1>2. CASE job.k8s[n] # None
  <2> DEFINE m == [job.k8s EXCEPT ![n].rv = rv]
             todo == job.todo \ {n}
  <2>1. /\ job' = [job EXCEPT !.k8s = m, !.todo = todo] /\ pc' = pc
        /\ rs' = IF job.alias THEN [rs EXCEPT !.k8s[n].rv = rv] ELSE rs
    BY <1>2 DEF SetSecretVersion
  <2>2. m \in [Names -> Metadata \cup {None}]
    BY <1>0, <1>2 DEF Job, Metadata
  <2>3. job.alias => rs' = [rs EXCEPT !.k8s = m]
    BY <2>1 DEF TypeInv, StageOK
  <2>4. todo \in SUBSET Names /\ todo \subseteq job.todo
    BY <1>0 DEF Job
  <2> HIDE DEF m, todo
  <2>5. /\ job' \in Job /\ job'.prov = job.prov /\ job'.secs = job.secs /\ job'.todo = todo
        /\ job'.alias = job.alias /\ job'.k8s = m
    BY <1>0, <2>1, <2>2, <2>4 DEF Job
  <2>6. rs' \in State /\ (job.alias => rs'.k8s = m)
    BY <1>0, <2>1, <2>2, <2>3 DEF State
  <2>7. StageOK'
    BY <1>0, <2>1, <2>4, <2>5, <2>6 DEF TypeInv, StageOK, Fetching, Refreshing
  <2> QED
    BY <2>1, <2>5, <2>6, <2>7 DEF Stages
<1> QED
  BY <1>1, <1>2

\* createOrUpdateSecrets keeps the types.
LEMMA CreateOrUpdateSecretType ==
  ASSUME TypeInv, NEW n \in Names, CreateOrUpdateSecret(n)
  PROVE  TypeInv'
<1>0. /\ TypeOK /\ job \in Job /\ pc = "secrets" /\ job.secs[n] \in SecretData
  BY DEF TypeInv, TypeOK, StageOK, Job, CreateOrUpdateSecret
<1>1. CASE WriteFails
  BY <1>0, <1>1, FailuresType
<1>2. CASE ~WriteFails /\ ~ShouldWriteSecret(n)
  <2>1. job.ex[n].rv \in Nat
    BY <1>0, <1>2 DEF ShouldWriteSecret, Job, Object
  <2>2. job' \in Job /\ rs' \in State /\ pc' \in Stages /\ StageOK'
    BY <1>0, <1>2, <2>1, SetSecretVersionType DEF CreateOrUpdateSecret
  <2> QED
    BY <1>2, <2>2 DEF TypeInv, TypeOK, CreateOrUpdateSecret, world, cluster
<1>3. CASE ~WriteFails /\ ShouldWriteSecret(n)
  <2>1. rev + 1 \in Nat /\ sec[n] \in Object(SecretData) \cup {None}
    BY <1>0 DEF TypeOK
  <2>2. job' \in Job /\ rs' \in State /\ pc' \in Stages /\ StageOK'
    BY <1>0, <1>3, <2>1, SetSecretVersionType DEF CreateOrUpdateSecret
  <2>3. Written(sec[n], job.secs[n]) \in Object(SecretData)
    BY <1>0, <2>1, WrittenType
  <2>4. sec' \in [Names -> Object(SecretData) \cup {None}]
    BY <1>0, <1>3, <2>3 DEF TypeOK, CreateOrUpdateSecret
  <2>5. queue' \in BOOLEAN
    BY <1>0, <1>3 DEF TypeOK, CreateOrUpdateSecret, EnqueuesUpdate
  <2> QED
    BY <1>3, <2>1, <2>2, <2>4, <2>5 DEF TypeInv, TypeOK, CreateOrUpdateSecret, world
<1> QED
  BY <1>1, <1>2, <1>3

\* expelRemovedSecrets keeps the types.
LEMMA ExpelSecretType ==
  ASSUME TypeInv, NEW n \in Names, ExpelSecret(n)
  PROVE  TypeInv'
<1>0. TypeOK /\ job \in Job /\ pc = "secrets" /\ job.prov \in Provider
  BY DEF TypeInv, TypeOK, StageOK, ExpelSecret
<1>1. CASE WriteFails
  BY <1>0, <1>1, FailuresType
<1>2. CASE ~WriteFails /\ sec[n] = None
  <2>1. job' \in Job /\ pc' \in Stages /\ StageOK'
    BY <1>0, <1>2, ReturnType, FailPhaseType DEF ExpelSecret
  <2> QED
    BY <1>2, <2>1 DEF TypeInv, TypeOK, ExpelSecret, world, cluster
<1>3. CASE ~WriteFails /\ sec[n] # None
  <2>1. job' = [job EXCEPT !.ex[n] = None] /\ rs' = rs /\ pc' = pc
    BY <1>3 DEF ExpelSecret
  <2>2. job' \in Job
    BY <1>0, <2>1 DEF Job
  <2>3. /\ job'.prov = job.prov /\ job'.secs = job.secs /\ job'.todo = job.todo
        /\ job'.alias = job.alias /\ job'.k8s = job.k8s
    BY <1>0, <2>1 DEF Job
  <2>4. StageOK'
    BY <1>0, <2>1, <2>3 DEF TypeInv, StageOK, Fetching, Refreshing
  <2>5. sec' \in [Names -> Object(SecretData) \cup {None}] /\ queue' \in BOOLEAN
    BY <1>0, <1>3 DEF TypeOK, ExpelSecret, EnqueuesDelete
  <2> QED
    BY <1>3, <2>1, <2>2, <2>4, <2>5 DEF TypeInv, TypeOK, ExpelSecret, world
<1> QED
  BY <1>1, <1>2, <1>3

-----------------------------------------------------------------------------
(* The end of a reconcile, the background and the outside *)

\* What Finish makes of the state.
LEMMA FinishedState ==
  ASSUME TypeInv, Finish
  PROVE  /\ rs' \in State
         /\ rs'.cmrv = rs.cmrv
         /\ rs'.gen = job.prov.gen
         /\ rs'.client = rs.client
         /\ rs'.k8s = IF job.secPop THEN job.k8s ELSE rs.k8s
         /\ rs'.kvTag = IF job.kvTag # None THEN job.kvTag ELSE rs.kvTag
         /\ rs'.ffTag = IF job.ffTag # None THEN job.ffTag ELSE rs.ffTag
<1>1. rs \in State /\ job \in Job /\ job.prov \in Provider
  BY DEF TypeInv, TypeOK, StageOK, Finish
<1> DEFINE g == job.prov.gen
           a == job.prov.annotation
           m == IF job.secPop THEN job.k8s ELSE rs.k8s
           k == IF job.kvTag # None THEN job.kvTag ELSE rs.kvTag
           f == IF job.ffTag # None THEN job.ffTag ELSE rs.ffTag
           s == IF job.should \/ job.changed THEN job.senTag ELSE rs.senTag
<1>2. g \in Nat /\ a \in Nat
  BY <1>1 DEF Provider
<1>3. /\ m \in [Names -> Metadata \cup {None}]
      /\ k \in Content \cup {None} /\ f \in Content \cup {None} /\ s \in Content \cup {None}
  BY <1>1 DEF Job, State
<1>4. rs' = [rs EXCEPT !.gen = g, !.annotation = a, !.k8s = m, !.kvTag = k,
                       !.ffTag = f, !.senTag = s]
  BY DEF Finish, ObservedGeneration
<1> HIDE DEF g, a, m, k, f, s
<1>5. /\ rs' \in State /\ rs'.cmrv = rs.cmrv /\ rs'.kvTag = k /\ rs'.ffTag = f
      /\ rs'.gen = g /\ rs'.client = rs.client /\ rs'.k8s = m
  BY <1>1, <1>2, <1>3, <1>4 DEF State
<1> QED
  BY <1>5 DEF k, f, g, m

\* Finish keeps the types.
LEMMA FinishType == TypeInv /\ Finish => TypeInv'
<1> SUFFICES ASSUME TypeInv, Finish PROVE TypeInv'
  OBVIOUS
<1>1. job.prov \in Provider /\ RefreshEnabled \in BOOLEAN
  BY DEF TypeInv, StageOK, Finish, RefreshEnabled, KeyValueRefreshEnabled,
    FlagRefreshEnabled, SecretRefreshEnabled
<1>2. job' \in Job /\ pc' \in Stages /\ StageOK'
  BY <1>1, ReturnType DEF TypeInv, Finish, Phases
<1> QED
  BY <1>2, FinishedState DEF TypeInv, TypeOK, Finish, world, cluster

\* The status patch keeps the types.
LEMMA PatchStatusType == TypeInv /\ PatchStatus => TypeInv'
<1> SUFFICES ASSUME TypeInv, PatchStatus PROVE TypeInv'
  OBVIOUS
<1>0. TypeOK /\ job \in Job
  BY DEF TypeInv, TypeOK
<1>1. prov' \in Provider \cup {None}
  BY <1>0 DEF TypeOK, PatchStatus, Provider, Job
<1>2. left' \in [Kinds -> Nat]
  BY <1>0, SpendType DEF TypeOK, PatchStatus, Kinds
<1>3. delayed' \in BOOLEAN
  BY <1>0 DEF TypeOK, PatchStatus, Job
<1>4. StageOK'
  BY DEF StageOK, PatchStatus, NewJob, Fetching, Refreshing
<1> QED
  BY <1>1, <1>2, <1>3, <1>4, NewJobType DEF TypeInv, TypeOK, PatchStatus, world, cluster, Stages

\* Time and the garbage collector keep the types.
LEMMA BackgroundType == TypeInv /\ Background => TypeInv'
<1> SUFFICES ASSUME TypeInv, Background PROVE TypeInv'
  OBVIOUS
<1>1. CASE RequeueFires
  BY <1>1 DEF TypeInv, TypeOK, StageOK, RequeueFires, world, cluster
<1>2. ASSUME NEW timer \in Timers, Tick(timer) PROVE TypeInv'
  <2>1. rs' \in State /\ rs'.client = rs.client /\ rs'.k8s = rs.k8s
    BY <1>2, ArmType DEF TypeInv, Tick
  <2> QED
    BY <1>2, <2>1 DEF TypeInv, TypeOK, StageOK, Tick, world, cluster
<1>3. CASE CollectConfigMap
  BY <1>3 DEF TypeInv, TypeOK, StageOK, CollectConfigMap, EnqueuesDelete, world
<1>4. ASSUME NEW n \in Names, CollectSecret(n) PROVE TypeInv'
  BY <1>4 DEF TypeInv, TypeOK, StageOK, CollectSecret, EnqueuesDelete, world
<1> QED
  BY <1>1, <1>2, <1>3, <1>4 DEF Background

\* The stores and the vault keep the types.
LEMMA StoresType ==
  ASSUME TypeInv, NEW e \in Endpoints, NEW refs \in RefSets,
         ChangeKeyValues(e, refs) \/ ChangeFlags(e) \/ ChangeSentinel(e) \/ RotateVault
  PROVE  TypeInv'
<1>1. TypeOK /\ refs \in SUBSET Names
  BY RefSetsAssumption DEF TypeInv
<1>2. left' \in [Kinds -> Nat]
  BY <1>1, SpendType DEF Kinds, ChangeKeyValues, ChangeFlags, ChangeSentinel, RotateVault
<1>3. store' \in [Endpoints -> [keyValue : Nat, flag : Nat, sentinel : Nat,
                                published : Nat, refs : SUBSET Names]]
  BY <1>1 DEF TypeOK, ChangeKeyValues, ChangeFlags, ChangeSentinel, RotateVault
<1>4. vault' \in Nat
  BY <1>1 DEF TypeOK, ChangeKeyValues, ChangeFlags, ChangeSentinel, RotateVault
<1> QED
  BY <1>2, <1>3, <1>4 DEF TypeInv, TypeOK, StageOK, ChangeKeyValues, ChangeFlags,
    ChangeSentinel, RotateVault, cluster

\* The data of an object written by others has its type.
LEMMA NoDataType ==
  /\ [keyValue |-> None, flag |-> None] \in ConfigMapData
  /\ [keyValue |-> None, vault |-> 0] \in SecretData
BY DEF ConfigMapData, SecretData

\* Others that change the ConfigMap keep the types.
LEMMA ConfigMapsType ==
  TypeInv /\ (EditConfigMap \/ DeleteConfigMap \/ CreateForeignConfigMap) => TypeInv'
<1> SUFFICES ASSUME TypeInv, EditConfigMap \/ DeleteConfigMap \/ CreateForeignConfigMap
             PROVE  TypeInv'
  OBVIOUS
<1>1. TypeOK
  BY DEF TypeInv
<1>2. left' \in [Kinds -> Nat]
  BY <1>1, SpendType DEF Kinds, EditConfigMap, DeleteConfigMap, CreateForeignConfigMap
<1>3. cm' \in Object(ConfigMapData) \cup {None}
  <2> DEFINE data == [keyValue |-> None, flag |-> None]
  <2>1. data \in ConfigMapData /\ rev + 1 \in Nat
    BY <1>1, NoDataType DEF TypeOK
  <2>2. \/ cm' = None
        \/ /\ cm # None
           /\ \E d \in {cm.data, data} : cm' = [cm EXCEPT !.rv = rev + 1, !.data = d]
        \/ cm' = [own |-> 0, rv |-> rev + 1, stamp |-> 0, data |-> data]
    BY DEF EditConfigMap, DeleteConfigMap, CreateForeignConfigMap
  <2> HIDE DEF data
  <2>3. ASSUME cm # None, NEW d \in {cm.data, data}
        PROVE  [cm EXCEPT !.rv = rev + 1, !.data = d] \in Object(ConfigMapData)
    <3>1. cm \in Object(ConfigMapData)
      BY <1>1, <2>3 DEF TypeOK
    <3>2. d \in ConfigMapData
      BY <2>1, <3>1 DEF Object
    <3> QED
      BY <2>1, <3>1, <3>2 DEF Object
  <2>4. [own |-> 0, rv |-> rev + 1, stamp |-> 0, data |-> data] \in Object(ConfigMapData)
    BY <2>1 DEF Object
  <2> QED
    BY <2>2, <2>3, <2>4
<1>5. rev' \in Nat
  BY <1>1 DEF TypeOK, EditConfigMap, DeleteConfigMap, CreateForeignConfigMap
<1>4. queue' \in BOOLEAN
  BY <1>1 DEF TypeOK, EditConfigMap, DeleteConfigMap, CreateForeignConfigMap,
    EnqueuesUpdate, EnqueuesDelete
<1> QED
  BY <1>2, <1>3, <1>4, <1>5 DEF TypeInv, TypeOK, StageOK, EditConfigMap, DeleteConfigMap,
    CreateForeignConfigMap, world

\* Others that change a Secret keep the types.
LEMMA SecretObjectsType ==
  ASSUME TypeInv, NEW n \in Names,
         EditSecret(n) \/ DeleteSecret(n) \/ CreateForeignSecret(n)
  PROVE  TypeInv'
<1>1. TypeOK
  BY DEF TypeInv
<1>2. left' \in [Kinds -> Nat]
  BY <1>1, SpendType DEF Kinds, EditSecret, DeleteSecret, CreateForeignSecret
<1>3. sec' \in [Names -> Object(SecretData) \cup {None}] /\ rev' \in Nat
  <2>1. CASE DeleteSecret(n) \/ CreateForeignSecret(n)
    BY <1>1, <2>1, NoDataType DEF TypeOK, Object, DeleteSecret, CreateForeignSecret
  <2>2. CASE EditSecret(n)
    <3>1. sec[n] \in Object(SecretData) /\ rev + 1 \in Nat
      BY <1>1, <2>2 DEF TypeOK, EditSecret
    <3>2. PICK data \in {sec[n].data, [keyValue |-> None, vault |-> 0]} :
            sec' = [sec EXCEPT ![n].rv = rev + 1, ![n].data = data]
      BY <2>2 DEF EditSecret
    <3>3. data \in SecretData
      BY <3>1, <3>2, NoDataType DEF Object
    <3>4. [sec[n] EXCEPT !.rv = rev + 1, !.data = data] \in Object(SecretData)
      BY <3>1, <3>3 DEF Object
    <3>5. sec' = [sec EXCEPT ![n] = [sec[n] EXCEPT !.rv = rev + 1, !.data = data]]
      BY <1>1, <3>2 DEF TypeOK
    <3> QED BY <1>1, <2>2, <3>1, <3>4, <3>5 DEF TypeOK, EditSecret
  <2> QED BY <2>1, <2>2
<1>4. queue' \in BOOLEAN
  BY <1>1 DEF TypeOK, EditSecret, DeleteSecret, CreateForeignSecret, EnqueuesUpdate,
    EnqueuesDelete
<1> QED
  BY <1>2, <1>3, <1>4 DEF TypeInv, TypeOK, StageOK, EditSecret, DeleteSecret,
    CreateForeignSecret, world

\* Changes of the provider object and crashes keep the types.
LEMMA ProvidersType ==
  ASSUME TypeInv, NEW spec \in Specs,
         \/ UpdateSpec(spec) \/ UpdateAnnotations \/ DeleteProvider \/ CreateProvider(spec)
         \/ Crash
  PROVE  TypeInv'
<1>1. TypeOK
  BY DEF TypeInv
<1>2. left' \in [Kinds -> Nat]
  BY <1>1, SpendType DEF Kinds, UpdateSpec, UpdateAnnotations, DeleteProvider,
    CreateProvider, Crash
<1>3. prov' \in Provider \cup {None}
  <2>1. prov # None => /\ [prov EXCEPT !.spec = spec, !.gen = @ + 1] \in Provider
                       /\ [prov EXCEPT !.annotation = @ + 1] \in Provider
    <3> SUFFICES ASSUME prov \in Provider
                 PROVE  /\ [prov EXCEPT !.spec = spec, !.gen = @ + 1] \in Provider
                        /\ [prov EXCEPT !.annotation = @ + 1] \in Provider
      BY <1>1 DEF TypeOK
    <3>1. prov.gen + 1 \in Nat /\ prov.annotation + 1 \in Nat
      BY DEF Provider
    <3> QED
      BY <3>1 DEF Provider
  <2>2. NewProvider(spec, rev + 1) \in Provider
    BY <1>1 DEF TypeOK, NewProvider, Provider, Phases
  <2> QED
    BY <1>1, <2>1, <2>2 DEF TypeOK, UpdateSpec, UpdateAnnotations, DeleteProvider,
      CreateProvider, Crash
<1>6. rev' \in Nat
  BY <1>1 DEF TypeOK, UpdateSpec, UpdateAnnotations, DeleteProvider, CreateProvider, Crash,
    cluster
<1>4. CASE Crash
  BY <1>2, <1>3, <1>4, <1>6, NewJobType, NewStateType DEF TypeInv, TypeOK, StageOK, Crash, NewJob,
    Stages, Fetching, Refreshing, world, cluster
<1>5. CASE ~Crash
  BY <1>2, <1>3, <1>5, <1>6 DEF TypeInv, TypeOK, StageOK, UpdateSpec, UpdateAnnotations,
    DeleteProvider, CreateProvider, world, cluster
<1> QED
  BY <1>4, <1>5

\* The outside keeps the types.
LEMMA OutsideType == TypeInv /\ Outside => TypeInv'
<1> SUFFICES ASSUME TypeInv, Outside PROVE TypeInv'
  OBVIOUS
<1>1. \E s \in Specs, e \in Endpoints : TRUE
  BY SpecsAssumption DEF ProviderSpec
<1>2. {} \in RefSets
  BY RefSetsAssumption
<1>3. CASE RotateVault \/ \E e \in Endpoints : ChangeFlags(e) \/ ChangeSentinel(e)
                            \/ \E refs \in RefSets : ChangeKeyValues(e, refs)
  BY <1>1, <1>2, <1>3, StoresType
<1>4. CASE EditConfigMap \/ DeleteConfigMap \/ CreateForeignConfigMap
  BY <1>4, ConfigMapsType
<1>5. CASE \E n \in Names : EditSecret(n) \/ DeleteSecret(n) \/ CreateForeignSecret(n)
  BY <1>5, SecretObjectsType
<1>6. CASE UpdateAnnotations \/ DeleteProvider \/ Crash
           \/ \E spec \in Specs : UpdateSpec(spec) \/ CreateProvider(spec)
  BY <1>1, <1>6, ProvidersType
<1> QED
  BY <1>3, <1>4, <1>5, <1>6 DEF Outside

\* Every step of a reconcile keeps the types.
LEMMA ReconcileType == TypeInv /\ Reconcile => TypeInv'
BY RefusalsType, ClientManagerFailsType, StartType, CreateKeyValueSettingsType,
  InitializeSentinelsType, GetFeatureFlagSettingsType, ProcessFeatureFlagRefreshType,
  ProcessKeyValueRefreshType, RefreshKeyValueSettingsType,
  ProcessSecretReferenceRefreshType, SettingsPanicType, CreateOrUpdateConfigMapType,
  VerifySecretsType, CreateOrUpdateSecretType, ExpelSecretType, FinishType,
  PatchStatusType DEF Reconcile

\* The inductive invariant is inductive.
LEMMA StepType == TypeInv /\ [Next]_vars => TypeInv'
<1> SUFFICES ASSUME TypeInv, [Next]_vars PROVE TypeInv'
  OBVIOUS
<1>1. CASE Next
  BY <1>1, ReconcileType, BackgroundType, OutsideType DEF Next
<1>2. CASE UNCHANGED vars
  BY <1>2 DEF TypeInv, TypeOK, StageOK, vars
<1> QED
  BY <1>1, <1>2

\* The inductive invariant holds in every state of every behaviour.
THEOREM AlwaysTypeInv == Spec => []TypeInv
BY InitType, StepType, PTL DEF Spec

\* The controller never leaves the types: no nil target data is written, no
\* reconcile runs without a provider or a client, whatever the constants.
THEOREM TypeCorrect == Spec => []TypeOK
<1>1. TypeInv => TypeOK
  BY DEF TypeInv
<1> QED
  BY <1>1, AlwaysTypeInv, PTL

-----------------------------------------------------------------------------
(* Soundness of the recorded ETags *)

\* No tag is newer than the contents of the store that issued it.
Issued(tag, field) == tag # None => tag.ver <= store[tag.src][field]

TagsIssued ==
  /\ Issued(rs.kvTag, "keyValue") /\ Issued(job.kvTag, "keyValue")
  /\ Issued(rs.ffTag, "flag") /\ Issued(job.ffTag, "flag")

\* Resource versions are handed out once: the ConfigMap read at the start of
\* the reconcile, while it has the resource version of the present one, has
\* its data too.
Versions ==
  /\ rs.cmrv <= rev
  /\ cm # None => cm.rv <= rev
  /\ job.cm # None => job.cm.rv <= rev
  /\ cm # None /\ job.cm # None /\ cm.rv = job.cm.rv => cm.data = job.cm.data

\* Neither the tags of the state nor the ones Finish will adopt are ahead of
\* data.
Covers(data) ==
  /\ NotAhead(rs.kvTag, data.keyValue) /\ NotAhead(job.kvTag, data.keyValue)
  /\ NotAhead(rs.ffTag, data.flag) /\ NotAhead(job.ffTag, data.flag)

\* What the settings under construction owe to the tags.
Built ==
  /\ job.data = None => job.kvTag = None /\ job.ffTag = None
  /\ job.data # None => Covers(job.data)
  /\ pc \in Refreshing /\ ~job.should => NotAhead(rs.kvTag, job.cm.data.keyValue)
                                         /\ NotAhead(rs.ffTag, job.cm.data.flag)
  /\ /\ pc \in {"verify", "secrets"} /\ job.data # None
     /\ cm # None /\ cm.rv = rs.cmrv
     => cm.data = job.data

\* The inductive invariant behind TagsSound.
TagInv == TagsIssued /\ Versions /\ Built /\ TagsSound

\* No tag is recorded before the first reconcile.
LEMMA InitTags == Init => TagInv
BY DEF Init, TagInv, TagsIssued, Issued, Versions, Built, TagsSound, NotAhead, NewJob,
  NewState, Refreshing

\* Steps that leave tags, data and the ConfigMap alone.
LEMMA FrameTags ==
  ASSUME TypeInv, TagInv, rev' \in Nat, rev' >= rev, store' = store, cm' = cm,
         job'.cm = job.cm, job'.data = job.data, job'.should = job.should,
         job'.kvTag = job.kvTag, job'.ffTag = job.ffTag,
         rs'.kvTag = rs.kvTag, rs'.ffTag = rs.ffTag, rs'.cmrv = rs.cmrv,
         pc' \in Refreshing => pc \in Refreshing \/ job.should,
         pc' \in {"verify", "secrets"} /\ job.data # None => pc \in {"verify", "secrets"}
  PROVE  TagInv'
<1>1. /\ rev \in Nat /\ rs.cmrv \in Nat
      /\ cm # None => cm.rv \in Nat
      /\ job.cm # None => job.cm.rv \in Nat
  BY DEF TypeInv, TypeOK, State, Job, Object
<1>2. TagsIssued'
  BY DEF TagInv, TagsIssued, Issued
<1>3. Versions'
  BY <1>1 DEF TagInv, Versions
<1>4. Built'
  BY DEF TagInv, Built, Covers, NotAhead
<1>5. TagsSound'
  BY DEF TagInv, TagsSound, NotAhead
<1> QED
  BY <1>2, <1>3, <1>4, <1>5 DEF TagInv

\* Steps that drop the job and keep the state's tags, or drop those too.
LEMMA DroppedTags ==
  ASSUME TypeInv, TagInv, rev' = rev, store' = store, cm' = cm,
         job'.cm = None, job'.data = None, job'.kvTag = None, job'.ffTag = None,
         pc' \in {"idle", "patch"},
         \/ /\ rs'.kvTag = rs.kvTag /\ rs'.ffTag = rs.ffTag
            /\ rs'.cmrv = IF cm = None THEN 0 ELSE rs.cmrv
         \/ rs'.kvTag = rs.kvTag /\ rs'.ffTag = rs.ffTag /\ rs'.cmrv = rs.cmrv
         \/ rs'.kvTag = None /\ rs'.ffTag = None /\ rs'.cmrv = 0
  PROVE  TagInv'
<1>1. /\ rev \in Nat /\ rs.cmrv \in Nat
      /\ cm # None => cm.rv \in Nat
  BY DEF TypeInv, TypeOK, State, Object
<1>2. TagsIssued'
  BY DEF TagInv, TagsIssued, Issued
<1>3. Versions'
  BY <1>1 DEF TagInv, Versions
<1>4. Built'
  BY DEF Built, Refreshing
<1>5. TagsSound'
  BY DEF TagInv, TagsSound, NotAhead
<1> QED
  BY <1>2, <1>3, <1>4, <1>5 DEF TagInv

\* A reconcile that ends without Finish leaves the tags alone.
LEMMA ReturnTags ==
  ASSUME TypeInv, TagInv, NEW p, NEW phase, NEW again, Return(p, phase, again),
         UNCHANGED <<store, cm, rev, rs>>
  PROVE  TagInv'
<1>1. /\ job'.cm = None /\ job'.data = None /\ job'.kvTag = None /\ job'.ffTag = None
      /\ pc' = "patch"
  BY DEF Return, NewJob
<1> QED
  BY <1>1, DroppedTags

\* Failures leave the tags alone.
LEMMA FailuresTags ==
  ASSUME TypeInv, TagInv, GetSettingsFails \/ UnexpectedReferenceFails \/ WriteFails
  PROVE  TagInv'
BY ReturnTags DEF GetSettingsFails, UnexpectedReferenceFails, WriteFails, world, cluster

\* A reconcile that ends where it starts leaves the tags alone or drops them.
LEMMA RefusalsTags ==
  TypeInv /\ TagInv /\ (\/ ReconcileNotFound \/ GetProviderFails \/ ReconcileRunning
                        \/ ReconcileInvalid \/ ReconcileConflict \/ ClientManagerFails)
    => TagInv'
<1> SUFFICES ASSUME TypeInv, TagInv,
                    \/ ReconcileNotFound \/ GetProviderFails \/ ReconcileRunning
                    \/ ReconcileInvalid \/ ReconcileConflict \/ ClientManagerFails
             PROVE  TagInv'
  OBVIOUS
<1>0. rev \in Nat
  BY DEF TypeInv, TypeOK
<1>1. CASE ReconcileNotFound
  <2>1. rs'.kvTag = None /\ rs'.ffTag = None /\ rs'.cmrv = 0
    BY <1>1 DEF ReconcileNotFound, NewState
  <2>2. pc = "idle" /\ UNCHANGED <<store, cm, rev, pc, job>>
    BY <1>1 DEF ReconcileNotFound, Dequeue, world, cluster
  <2> QED
    BY <1>0, <2>1, <2>2 DEF TypeInv, TypeOK, TagInv, TagsIssued, Issued, Versions, Built,
      Covers, TagsSound, NotAhead, Refreshing
<1>2. CASE GetProviderFails \/ ReconcileRunning
  BY <1>0, <1>2, FrameTags DEF GetProviderFails, ReconcileRunning, world, cluster
<1>3. CASE ReconcileInvalid \/ ReconcileConflict
  BY <1>3, ReturnTags DEF ReconcileInvalid, ReconcileConflict, world, cluster
<1>4. CASE ClientManagerFails
  <2>1. /\ rs'.kvTag = rs.kvTag /\ rs'.ffTag = rs.ffTag
        /\ rs'.cmrv = IF cm = None THEN 0 ELSE rs.cmrv
    BY <1>4, ResetVersionsType DEF TypeInv, ClientManagerFails
  <2>2. /\ job'.cm = None /\ job'.data = None /\ job'.kvTag = None /\ job'.ffTag = None
        /\ pc' = "patch" /\ UNCHANGED <<store, cm, rev>>
    BY <1>4 DEF ClientManagerFails, Return, NewJob, world, cluster
  <2> QED
    BY <2>1, <2>2, DroppedTags
<1> QED
  BY <1>1, <1>2, <1>3, <1>4

\* A reconcile that starts without a full reconcile due knows the ConfigMap.
LEMMA StartTags == TypeInv /\ TagInv /\ ReconcileStart => TagInv'
<1> SUFFICES ASSUME TypeInv, TagInv, ReconcileStart PROVE TagInv'
  OBVIOUS
<1> DEFINE ex == Collect(CollectedNames(prov))
           r == ResetVersions(prov, ex)
           should == ShouldReconcile(r, prov, cm, ex)
<1>1. /\ r \in State /\ r.cmrv = (IF cm = None THEN 0 ELSE rs.cmrv)
      /\ r.kvTag = rs.kvTag /\ r.ffTag = rs.ffTag
  BY ResetVersionsType DEF TypeInv
<1>2. /\ rs' = WithClient(r, prov) /\ pc' = IF should THEN "keyValues" ELSE "ffRefresh"
      /\ job' = [NewJob EXCEPT !.prov = prov, !.cm = cm, !.ex = ex,
                               !.should = should, !.due = Timers \ rs.armed]
  BY DEF ReconcileStart
<1> HIDE DEF r
<1>3. ~should => cm # None /\ cm.rv = rs.cmrv
  BY <1>1 DEF ShouldReconcile
<1> HIDE DEF should, ex
<1>4. /\ job'.cm = cm /\ job'.data = None /\ job'.kvTag = None /\ job'.ffTag = None
      /\ job'.should = should
  BY <1>2 DEF NewJob
<1>5. rs'.kvTag = rs.kvTag /\ rs'.ffTag = rs.ffTag /\ rs'.cmrv = r.cmrv
  BY <1>1, <1>2 DEF WithClient, State
<1>6. UNCHANGED <<store, cm, rev>>
  BY DEF ReconcileStart, world, cluster
<1>7. TagsIssued'
  BY <1>4, <1>5, <1>6 DEF TagInv, TagsIssued, Issued
<1>8. Versions'
  BY <1>1, <1>4, <1>5, <1>6 DEF TagInv, Versions, TypeInv, TypeOK
<1>9. Built'
  BY <1>2, <1>3, <1>4, <1>5 DEF TagInv, Built, TagsSound, Refreshing
<1>10. TagsSound'
  BY <1>1, <1>5, <1>6 DEF TagInv, TagsSound, NotAhead
<1> QED
  BY <1>7, <1>8, <1>9, <1>10 DEF TagInv

\* What is fetched now covers every tag issued so far.
LEMMA FetchedCovers ==
  ASSUME TypeOK, NEW e \in Endpoints, NEW tag \in Content \cup {None}
  PROVE  /\ Issued(tag, "keyValue") => NotAhead(tag, KeyValues(e))
         /\ Issued(tag, "flag") => NotAhead(tag, Flags(e))
         /\ Issued(KeyValues(e), "keyValue")
         /\ Issued(Flags(e), "flag")
BY DEF TypeOK, Issued, NotAhead, KeyValues, Flags, Content

\* Steps that build the data of the ConfigMap.
LEMMA BuiltTags ==
  ASSUME TypeInv, TagInv, UNCHANGED <<store, cm, rev>>,
         rs'.kvTag = rs.kvTag, rs'.ffTag = rs.ffTag, rs'.cmrv = rs.cmrv,
         job'.cm = job.cm, job'.should = job.should, job'.data # None,
         Issued(job'.kvTag, "keyValue"), Issued(job'.ffTag, "flag"),
         NotAhead(rs.kvTag, job'.data.keyValue), NotAhead(rs.ffTag, job'.data.flag),
         NotAhead(job'.kvTag, job'.data.keyValue), NotAhead(job'.ffTag, job'.data.flag),
         pc' \notin {"verify", "secrets"},
         pc' \in Refreshing => pc \in Refreshing \/ job.should
  PROVE  TagInv'
<1>1. TagsIssued'
  BY DEF TagInv, TagsIssued, Issued
<1>2. Versions'
  BY DEF TagInv, Versions
<1>3. Built'
  BY DEF TagInv, Built, Covers, NotAhead
<1>4. TagsSound'
  BY DEF TagInv, TagsSound, NotAhead
<1> QED
  BY <1>1, <1>2, <1>3, <1>4 DEF TagInv

\* Key-values just fetched cover every tag.
LEMMA CreateKeyValueSettingsTags == TypeInv /\ TagInv /\ CreateKeyValueSettings => TagInv'
<1> SUFFICES ASSUME TypeInv, TagInv, CreateKeyValueSettings PROVE TagInv'
  OBVIOUS
<1>1. CASE GetSettingsFails \/ UnexpectedReferenceFails
  BY <1>1, FailuresTags
<1>2. CASE ~(GetSettingsFails \/ UnexpectedReferenceFails)
  <2> DEFINE j == WithKeyValues(job, None)
  <2>1. /\ rs.client \in Endpoints /\ job \in Job /\ TypeOK /\ job.should
        /\ rs.kvTag \in Content \cup {None}
    BY DEF TypeInv, StageOK, TypeOK, Fetching, State, CreateKeyValueSettings
  <2>2. /\ j \in Job /\ j.data # None /\ j.cm = job.cm /\ j.should = job.should
        /\ j.data = [keyValue |-> KeyValues(rs.client), flag |-> None]
        /\ j.ffTag = job.ffTag
    BY <2>1, WithKeyValuesType
  <2>3. job' = [j EXCEPT !.kvTag = KeyValues(rs.client)]
    BY <1>2 DEF CreateKeyValueSettings
  <2>4. pc' \in {"sentinel", "flags", "ffRefresh"} /\ UNCHANGED <<rs, store, cm, rev>>
    BY <1>2 DEF CreateKeyValueSettings, world, cluster
  <2> HIDE DEF j
  <2>5. /\ job'.data # None /\ job'.cm = job.cm /\ job'.should = job.should
        /\ job'.kvTag = KeyValues(rs.client) /\ job'.ffTag = job.ffTag
        /\ job'.data.keyValue = KeyValues(rs.client) /\ job'.data.flag = None
    BY <2>2, <2>3 DEF Job
  <2>6. /\ NotAhead(rs.kvTag, KeyValues(rs.client))
        /\ Issued(KeyValues(rs.client), "keyValue") /\ Issued(job.ffTag, "flag")
    BY <2>1, FetchedCovers DEF TagInv, TagsIssued
  <2>7. /\ NotAhead(KeyValues(rs.client), KeyValues(rs.client))
        /\ NotAhead(rs.ffTag, None) /\ NotAhead(job.ffTag, None)
    BY <2>1, <2>6, FetchedCovers, ContentType DEF NotAhead
  <2> QED
    BY <2>1, <2>4, <2>5, <2>6, <2>7, BuiltTags DEF Refreshing
<1> QED
  BY <1>1, <1>2

\* Sentinels are not page tags.
LEMMA InitializeSentinelsTags == TypeInv /\ TagInv /\ InitializeSentinels => TagInv'
<1> SUFFICES ASSUME TypeInv, TagInv, InitializeSentinels PROVE TagInv'
  OBVIOUS
<1>1. CASE GetSettingsFails
  BY <1>1, FailuresTags
<1>2. CASE ~GetSettingsFails
  <2>1. job \in Job /\ job.should /\ rev \in Nat
    BY DEF TypeInv, StageOK, TypeOK, InitializeSentinels
  <2>2. /\ job' = [job EXCEPT !.senTag = Sentinel(rs.client)]
        /\ pc' \in {"flags", "ffRefresh"} /\ UNCHANGED <<rs, store, cm, rev>>
    BY <1>2 DEF InitializeSentinels, world, cluster
  <2>3. /\ job'.data = job.data /\ job'.cm = job.cm /\ job'.should = job.should
        /\ job'.kvTag = job.kvTag /\ job'.ffTag = job.ffTag
    BY <2>1, <2>2 DEF Job
  <2> QED
    BY <2>1, <2>2, <2>3, FrameTags
<1> QED
  BY <1>1, <1>2

\* Feature flags just fetched cover every tag.
LEMMA GetFeatureFlagSettingsTags == TypeInv /\ TagInv /\ GetFeatureFlagSettings => TagInv'
<1> SUFFICES ASSUME TypeInv, TagInv, GetFeatureFlagSettings PROVE TagInv'
  OBVIOUS
<1>1. CASE GetSettingsFails
  BY <1>1, FailuresTags
<1>2. CASE ~GetSettingsFails
  <2> DEFINE data == [job.data EXCEPT !.flag = Flags(rs.client)]
  <2>1. /\ rs.client \in Endpoints /\ job \in Job /\ TypeOK /\ job.should
        /\ job.data \in ConfigMapData /\ job.data # None /\ rs.ffTag \in Content \cup {None}
    BY DEF TypeInv, StageOK, TypeOK, Fetching, State, Job, GetFeatureFlagSettings
  <2>2. /\ job' = [job EXCEPT !.data = data, !.ffTag = Flags(rs.client)]
        /\ pc' = "ffRefresh" /\ UNCHANGED <<rs, store, cm, rev>>
    BY <1>2 DEF GetFeatureFlagSettings, world, cluster
  <2>3. /\ data \in ConfigMapData /\ data.keyValue = job.data.keyValue
        /\ data.flag = Flags(rs.client)
    BY <2>1, ContentType DEF ConfigMapData
  <2> HIDE DEF data
  <2>4. /\ job'.data = data /\ job'.cm = job.cm /\ job'.should = job.should
        /\ job'.kvTag = job.kvTag /\ job'.ffTag = Flags(rs.client)
    BY <2>1, <2>2 DEF Job
  <2>5. data # None
    BY <2>3, NoDataAssumption
  <2>6. /\ NotAhead(rs.ffTag, Flags(rs.client)) /\ Issued(Flags(rs.client), "flag")
        /\ Issued(job.kvTag, "keyValue")
    BY <2>1, FetchedCovers DEF TagInv, TagsIssued
  <2>7. NotAhead(Flags(rs.client), Flags(rs.client))
    BY <2>1, <2>6, FetchedCovers, ContentType DEF NotAhead
  <2>8. /\ NotAhead(rs.kvTag, job.data.keyValue) /\ NotAhead(job.kvTag, job.data.keyValue)
    BY <2>1 DEF TagInv, Built, Covers
  <2> QED
    BY <2>1, <2>2, <2>3, <2>4, <2>5, <2>6, <2>7, <2>8, BuiltTags DEF Refreshing
<1> QED
  BY <1>1, <1>2

\* A feature flag refresh keeps key-values that cover the tags of the state.
LEMMA ProcessFeatureFlagRefreshTags ==
  TypeInv /\ TagInv /\ ProcessFeatureFlagRefresh => TagInv'
<1> SUFFICES ASSUME TypeInv, TagInv, ProcessFeatureFlagRefresh PROVE TagInv'
  OBVIOUS
<1>0. /\ TypeOK /\ rs.client \in Endpoints /\ job \in Job /\ "flag" \in Timers
      /\ rev \in Nat /\ rs.ffTag \in Content \cup {None} /\ pc = "ffRefresh"
  BY DEF TypeInv, TypeOK, StageOK, Fetching, State, ProcessFeatureFlagRefresh, Timers
<1>1. CASE RefreshNotNeeded("flag", FlagRefreshEnabled)
  <2>1. rs'.cmrv = rs.cmrv /\ rs'.kvTag = rs.kvTag /\ rs'.ffTag = rs.ffTag
    BY <1>0, <1>1, RefreshNotNeededType
  <2>2. pc' = "kvRefresh" /\ UNCHANGED <<job, store, cm, rev>>
    BY <1>1 DEF ProcessFeatureFlagRefresh, RefreshNotNeeded, RefreshNeeded, world, cluster
  <2> QED
    BY <1>0, <2>1, <2>2, FrameTags DEF Refreshing
<1>2. CASE GetSettingsFails
  BY <1>2, FailuresTags
<1>3. CASE ~GetSettingsFails /\ ~RefreshNotNeeded("flag", FlagRefreshEnabled)
  <2> DEFINE data == [keyValue |-> job.cm.data.keyValue, flag |-> Flags(rs.client)]
             j == [job EXCEPT !.data = data, !.ffTag = Flags(rs.client)]
  <2>1. /\ rs' = Arm("flag") /\ pc' = "kvRefresh" /\ UNCHANGED <<store, cm, rev>>
        /\ job' = IF rs.ffTag = Flags(rs.client) THEN job ELSE j
    BY <1>3 DEF ProcessFeatureFlagRefresh, world, cluster
  <2>2. rs'.cmrv = rs.cmrv /\ rs'.kvTag = rs.kvTag /\ rs'.ffTag = rs.ffTag
    BY <1>0, <2>1, ArmType
  <2>3. CASE rs.ffTag = Flags(rs.client)
    BY <1>0, <2>1, <2>2, <2>3, FrameTags DEF Refreshing
  <2>4. CASE rs.ffTag # Flags(rs.client)
    <3>1. ~job.should /\ job.cm \in Object(ConfigMapData) /\ job.data = None
      BY <1>0, <1>3 DEF TypeInv, StageOK, Refreshing, Job, ProcessFeatureFlagRefresh,
        RefreshNeeded
    <3>2. job.kvTag = None
      BY <3>1 DEF TagInv, Built
    <3>3. data \in ConfigMapData /\ Flags(rs.client) \in Content
      BY <1>0, <3>1, ContentType DEF Object, ConfigMapData
    <3>4. /\ data # None
          /\ data.keyValue = job.cm.data.keyValue /\ data.flag = Flags(rs.client)
      BY <3>3, NoDataAssumption
    <3>5. job' = j
      BY <2>1, <2>4
    <3> HIDE DEF data
    <3>6. /\ job'.data = data /\ job'.cm = job.cm /\ job'.should = job.should
          /\ job'.kvTag = None /\ job'.ffTag = Flags(rs.client)
      BY <1>0, <3>2, <3>5 DEF Job
    <3>7. /\ NotAhead(rs.ffTag, Flags(rs.client)) /\ Issued(Flags(rs.client), "flag")
          /\ NotAhead(Flags(rs.client), Flags(rs.client)) /\ Issued(None, "keyValue")
      BY <1>0, <3>3, FetchedCovers DEF TagInv, TagsIssued, Issued
    <3>8. NotAhead(rs.kvTag, job.cm.data.keyValue) /\ NotAhead(None, job.cm.data.keyValue)
      BY <1>0, <3>1 DEF TagInv, Built, Refreshing, NotAhead
    <3> QED
      BY <1>0, <2>1, <2>2, <3>4, <3>6, <3>7, <3>8, BuiltTags DEF Refreshing
  <2> QED
    BY <2>3, <2>4
<1> QED
  BY <1>1, <1>2, <1>3

\* Checking for changes touches no tag.
LEMMA ProcessKeyValueRefreshTags ==
  TypeInv /\ TagInv /\ ProcessKeyValueRefresh => TagInv'
<1> SUFFICES ASSUME TypeInv, TagInv, ProcessKeyValueRefresh PROVE TagInv'
  OBVIOUS
<1>0. TypeOK /\ job \in Job /\ "keyValue" \in Timers /\ rev \in Nat /\ pc = "kvRefresh"
  BY DEF TypeInv, TypeOK, ProcessKeyValueRefresh, Timers
<1>1. CASE GetSettingsFails
  BY <1>1, FailuresTags
<1>2. CASE ~GetSettingsFails
  <2>1. pc' \in {"secretRefresh", "kvFetch"} /\ UNCHANGED <<store, cm, rev>>
    BY <1>2 DEF ProcessKeyValueRefresh, RefreshNotNeeded, world, cluster
  <2>2. rs'.cmrv = rs.cmrv /\ rs'.kvTag = rs.kvTag /\ rs'.ffTag = rs.ffTag
    BY <1>0, <1>2, RefreshNotNeededType, ArmType DEF ProcessKeyValueRefresh
  <2>3. job' \in {job, [job EXCEPT !.changed = TRUE, !.senTag = Sentinel(rs.client)]}
    BY <1>2 DEF ProcessKeyValueRefresh, RefreshNotNeeded
  <2>4. /\ job'.data = job.data /\ job'.cm = job.cm /\ job'.should = job.should
        /\ job'.kvTag = job.kvTag /\ job'.ffTag = job.ffTag
    BY <1>0, <2>3 DEF Job
  <2> QED
    BY <1>0, <2>1, <2>2, <2>4, FrameTags DEF Refreshing
<1> QED
  BY <1>1, <1>2

\* A key-value refresh keeps feature flags that cover the tags of the state and of
\* a feature flag refresh before it.
LEMMA RefreshKeyValueSettingsTags ==
  TypeInv /\ TagInv /\ RefreshKeyValueSettings => TagInv'
<1> SUFFICES ASSUME TypeInv, TagInv, RefreshKeyValueSettings PROVE TagInv'
  OBVIOUS
<1>1. CASE GetSettingsFails \/ UnexpectedReferenceFails
  BY <1>1, FailuresTags
<1>2. CASE ~(GetSettingsFails \/ UnexpectedReferenceFails)
  <2> DEFINE j == WithKeyValues(job, KeptFlags)
  <2>1. /\ rs.client \in Endpoints /\ job \in Job /\ TypeOK /\ "keyValue" \in Timers
        /\ ~job.should /\ job.cm \in Object(ConfigMapData) /\ pc = "kvFetch"
        /\ rs.kvTag \in Content \cup {None} /\ job.kvTag \in Content \cup {None}
    BY DEF TypeInv, StageOK, TypeOK, Fetching, Refreshing, State, Job,
      RefreshKeyValueSettings, Timers
  <2>2. KeptFlags \in Content \cup {None}
    BY <2>1 DEF KeptFlags, Job, Object, ConfigMapData
  <2>3. /\ j \in Job /\ j.data # None /\ j.cm = job.cm /\ j.should = job.should
        /\ j.data = [keyValue |-> KeyValues(rs.client), flag |-> KeptFlags]
        /\ j.kvTag = job.kvTag /\ j.ffTag = job.ffTag
    BY <2>1, <2>2, WithKeyValuesType
  <2>4. /\ job' = [j EXCEPT !.kvTag = IF job.prov.spec.keyValue = "page"
                                      THEN KeyValues(rs.client) ELSE @]
        /\ pc' = "secretRefresh" /\ rs' = Arm("keyValue") /\ UNCHANGED <<store, cm, rev>>
    BY <1>2 DEF RefreshKeyValueSettings, world, cluster
  <2> HIDE DEF j
  <2>5. /\ job'.data # None /\ job'.cm = job.cm /\ job'.should = job.should
        /\ job'.kvTag \in {job.kvTag, KeyValues(rs.client)} /\ job'.ffTag = job.ffTag
        /\ job'.data.keyValue = KeyValues(rs.client) /\ job'.data.flag = KeptFlags
    BY <2>3, <2>4 DEF Job
  <2>6. rs'.cmrv = rs.cmrv /\ rs'.kvTag = rs.kvTag /\ rs'.ffTag = rs.ffTag
    BY <2>1, <2>4, ArmType
  <2>7. /\ NotAhead(rs.kvTag, KeyValues(rs.client)) /\ NotAhead(job.kvTag, KeyValues(rs.client))
        /\ NotAhead(KeyValues(rs.client), KeyValues(rs.client))
        /\ Issued(KeyValues(rs.client), "keyValue") /\ Issued(job.kvTag, "keyValue")
        /\ Issued(job.ffTag, "flag")
    BY <2>1, ContentType, FetchedCovers DEF TagInv, TagsIssued
  <2>8. NotAhead(rs.ffTag, KeptFlags) /\ NotAhead(job.ffTag, KeptFlags)
    BY <2>1 DEF KeptFlags, NotAhead, TagInv, Built, Covers, Refreshing
  <2> QED
    BY <2>1, <2>4, <2>5, <2>6, <2>7, <2>8, BuiltTags DEF Refreshing
<1> QED
  BY <1>1, <1>2

\* A secret refresh touches no tag.
LEMMA ProcessSecretReferenceRefreshTags ==
  TypeInv /\ TagInv /\ ProcessSecretReferenceRefresh => TagInv'
<1> SUFFICES ASSUME TypeInv, TagInv, ProcessSecretReferenceRefresh PROVE TagInv'
  OBVIOUS
<1>0. TypeOK /\ job \in Job /\ "secret" \in Timers /\ rev \in Nat
  BY DEF TypeInv, TypeOK, Timers
<1>1. CASE GetSettingsFails
  BY <1>1, FailuresTags
<1>2. CASE ~GetSettingsFails
  <2>1. /\ rs' \in {rs, Arm("secret"), Disarm("secret")} /\ UNCHANGED <<store, cm, rev>>
        /\ pc' = AfterSettings(job')
    BY <1>2 DEF ProcessSecretReferenceRefresh, world, cluster
  <2>2. rs'.cmrv = rs.cmrv /\ rs'.kvTag = rs.kvTag /\ rs'.ffTag = rs.ffTag
    BY <1>0, <2>1, ArmType
  <2>3. \/ job' = job
        \/ \E secs : job' = [job EXCEPT !.secs = secs, !.k8s = rs.k8s, !.alias = TRUE,
                                        !.secPop = TRUE]
    BY <1>2 DEF ProcessSecretReferenceRefresh
  <2>4. /\ job'.data = job.data /\ job'.cm = job.cm /\ job'.should = job.should
        /\ job'.kvTag = job.kvTag /\ job'.ffTag = job.ffTag
    BY <1>0, <2>3 DEF Job
  <2>5. pc' \notin Refreshing /\ (pc' \in {"verify", "secrets"} => job.data = None)
    BY <2>1, <2>4 DEF AfterSettings, Refreshing
  <2> QED
    BY <1>0, <2>1, <2>2, <2>4, <2>5, FrameTags
<1> QED
  BY <1>1, <1>2

\* The write of the ConfigMap makes its data the one the tags were built with.
LEMMA CreateOrUpdateConfigMapTags ==
  TypeInv /\ TagInv /\ CreateOrUpdateConfigMap => TagInv'
<1> SUFFICES ASSUME TypeInv, TagInv, CreateOrUpdateConfigMap PROVE TagInv'
  OBVIOUS
<1>0. /\ TypeOK /\ job \in Job /\ rs \in State /\ rev \in Nat /\ job.data # None
      /\ job.cm # None => job.cm.rv \in Nat
  BY DEF TypeInv, TypeOK, StageOK, Job, Object, CreateOrUpdateConfigMap
<1>1. CASE WriteFails
  BY <1>1, FailuresTags
<1>2. CASE ~WriteFails /\ ~ShouldWriteConfigMap
  <2>1. /\ rs' = [rs EXCEPT !.cmrv = job.cm.rv] /\ UNCHANGED <<store, cm, rev, job>>
        /\ pc' \in {"verify", "secrets"}
    BY <1>2 DEF CreateOrUpdateConfigMap, AfterConfigMap, world, cluster
  <2>2. rs'.cmrv = job.cm.rv /\ rs'.kvTag = rs.kvTag /\ rs'.ffTag = rs.ffTag
    BY <1>0, <2>1 DEF State
  <2>3. job.cm # None /\ job.cm.data = job.data
    BY <1>2 DEF ShouldWriteConfigMap
  <2>4. cm # None /\ cm.rv = job.cm.rv => cm.data = job.data
    BY <2>3 DEF TagInv, Versions
  <2>5. TagsIssued'
    BY <2>1, <2>2 DEF TagInv, TagsIssued, Issued
  <2>6. Versions'
    BY <2>1, <2>2, <2>3 DEF TagInv, Versions
  <2>7. Built'
    BY <1>0, <2>1, <2>2, <2>4 DEF TagInv, Built, Covers, NotAhead, Refreshing
  <2>8. TagsSound'
    BY <1>0, <2>1, <2>2, <2>4 DEF TagInv, Built, Covers, TagsSound, NotAhead
  <2> QED
    BY <2>5, <2>6, <2>7, <2>8 DEF TagInv
<1>3. CASE ~WriteFails /\ ShouldWriteConfigMap
  <2>1. /\ cm' = Written(cm, job.data) /\ rev' = rev + 1 /\ UNCHANGED <<store, job>>
        /\ rs' = [rs EXCEPT !.cmrv = cm'.rv] /\ pc' \in {"verify", "secrets"}
    BY <1>3 DEF CreateOrUpdateConfigMap, AfterConfigMap, world
  <2>2. cm'.rv = rev + 1 /\ cm'.data = job.data
    BY <2>1 DEF Written
  <2>3. rs'.cmrv = rev + 1 /\ rs'.kvTag = rs.kvTag /\ rs'.ffTag = rs.ffTag
    BY <1>0, <2>1, <2>2 DEF State
  <2>4. TagsIssued'
    BY <2>1, <2>3 DEF TagInv, TagsIssued, Issued
  <2>5. Versions'
    BY <1>0, <2>1, <2>2, <2>3 DEF TagInv, Versions
  <2>6. Built'
    BY <1>0, <2>1, <2>2, <2>3 DEF TagInv, Built, Covers, NotAhead, Refreshing
  <2>7. TagsSound'
    BY <1>0, <2>1, <2>2, <2>3 DEF TagInv, Built, Covers, TagsSound, NotAhead
  <2> QED
    BY <2>4, <2>5, <2>6, <2>7 DEF TagInv
<1> QED
  BY <1>1, <1>2, <1>3

\* Verifying the Secrets touches no tag.
LEMMA VerifySecretsTags == TypeInv /\ TagInv /\ VerifySecrets => TagInv'
<1> SUFFICES ASSUME TypeInv, TagInv, VerifySecrets PROVE TagInv'
  OBVIOUS
<1>0. job \in Job /\ rev \in Nat /\ pc = "verify" /\ UNCHANGED <<store, cm, rev, rs>>
  BY DEF TypeInv, TypeOK, VerifySecrets, world, cluster
<1>1. CASE Return(job.prov, FailPhase(rs, job.prov, FALSE), TRUE)
  BY <1>0, <1>1, ReturnTags
<1>2. CASE ~Return(job.prov, FailPhase(rs, job.prov, FALSE), TRUE)
  <2>1. /\ \E ex, todo : job' = [job EXCEPT !.ex = ex, !.todo = todo]
        /\ pc' = "secrets"
    BY <1>2 DEF VerifySecrets
  <2>2. /\ job'.data = job.data /\ job'.cm = job.cm /\ job'.should = job.should
        /\ job'.kvTag = job.kvTag /\ job'.ffTag = job.ffTag
    BY <1>0, <2>1 DEF Job
  <2> QED
    BY <1>0, <2>1, <2>2, FrameTags DEF Refreshing
<1> QED
  BY <1>1, <1>2

\* A nil metadata entry ends the reconcile, otherwise only versions of Secrets
\* are recorded.
LEMMA SetSecretVersionTags ==
  ASSUME TypeInv, TagInv, pc = "secrets", NEW n \in Names, NEW rv,
         SetSecretVersion(n, rv), UNCHANGED <<store, cm>>, rev' \in Nat, rev' >= rev
  PROVE  TagInv'
<1>0. /\ job \in Job /\ rs \in State /\ rev \in Nat /\ rs.cmrv \in Nat
      /\ cm # None => cm.rv \in Nat
  BY DEF TypeInv, TypeOK, State, Object
<1>1. CASE job.k8s[n] = None
  <2>1. /\ job'.cm = None /\ job'.data = None /\ job'.kvTag = None /\ job'.ffTag = None
        /\ pc' = "patch" /\ rs' = rs
    BY <1>1 DEF SetSecretVersion, Return, NewJob
  <2> QED
    BY <1>0, <2>1 DEF TagInv, TagsIssued, Issued, Versions, Built, TagsSound, NotAhead,
      Refreshing
<1>2. CASE job.k8s[n] # None
  <2>1. /\ \E k, todo : job' = [job EXCEPT !.k8s = k, !.todo = todo]
        /\ pc' = pc
        /\ rs' = rs \/ \E k : rs' = [rs EXCEPT !.k8s = k]
    BY <1>2 DEF SetSecretVersion
  <2>2. /\ job'.data = job.data /\ job'.cm = job.cm /\ job'.should = job.should
        /\ job'.kvTag = job.kvTag /\ job'.ffTag = job.ffTag
    BY <1>0, <2>1 DEF Job
  <2>3. rs'.cmrv = rs.cmrv /\ rs'.kvTag = rs.kvTag /\ rs'.ffTag = rs.ffTag
    BY <1>0, <2>1 DEF State
  <2> QED
    BY <1>0, <2>1, <2>2, <2>3, FrameTags DEF Refreshing
<1> QED
  BY <1>1, <1>2

\* Writing and expelling Secrets touches no tag.
LEMMA SecretWritesTags ==
  ASSUME TypeInv, TagInv, NEW n \in Names, CreateOrUpdateSecret(n) \/ ExpelSecret(n)
  PROVE  TagInv'
<1>0. job \in Job /\ rev \in Nat /\ pc = "secrets"
  BY DEF TypeInv, TypeOK, CreateOrUpdateSecret, ExpelSecret
<1>1. CASE WriteFails
  BY <1>1, FailuresTags
<1>2. CASE ~WriteFails /\ CreateOrUpdateSecret(n)
  <2>1. /\ \E rv : SetSecretVersion(n, rv)
        /\ UNCHANGED <<store, cm>> /\ rev' \in Nat /\ rev' >= rev
    BY <1>0, <1>2 DEF CreateOrUpdateSecret, world, cluster
  <2> QED
    BY <1>0, <2>1, SetSecretVersionTags
<1>3. CASE ~WriteFails /\ ExpelSecret(n) /\ sec[n] = None
  BY <1>3, ReturnTags DEF ExpelSecret, world, cluster
<1>4. CASE ~WriteFails /\ ExpelSecret(n) /\ sec[n] # None
  <2>1. job' = [job EXCEPT !.ex[n] = None] /\ UNCHANGED <<store, cm, rev, rs, pc>>
    BY <1>4 DEF ExpelSecret, world
  <2>2. /\ job'.data = job.data /\ job'.cm = job.cm /\ job'.should = job.should
        /\ job'.kvTag = job.kvTag /\ job'.ffTag = job.ffTag
    BY <1>0, <2>1 DEF Job
  <2> QED
    BY <1>0, <2>1, <2>2, FrameTags
<1> QED
  BY <1>1, <1>2, <1>3, <1>4

\* Finish adopts the tags of what this reconcile wrote.
LEMMA FinishTags == TypeInv /\ TagInv /\ Finish => TagInv'
<1> SUFFICES ASSUME TypeInv, TagInv, Finish PROVE TagInv'
  OBVIOUS
<1>1. /\ rs'.cmrv = rs.cmrv
      /\ rs'.kvTag = IF job.kvTag # None THEN job.kvTag ELSE rs.kvTag
      /\ rs'.ffTag = IF job.ffTag # None THEN job.ffTag ELSE rs.ffTag
  BY FinishedState
<1>2. /\ job'.cm = None /\ job'.data = None /\ job'.kvTag = None /\ job'.ffTag = None
      /\ pc' = "patch" /\ pc = "secrets" /\ UNCHANGED <<store, cm, rev>>
  BY DEF Finish, Return, NewJob, world, cluster
<1>3. TagsIssued'
  BY <1>1, <1>2 DEF TagInv, TagsIssued, Issued
<1>4. Versions'
  BY <1>1, <1>2 DEF TagInv, Versions
<1>5. Built'
  BY <1>2 DEF Built, Refreshing
<1>6. TagsSound'
  <2>1. CASE job.data = None
    BY <1>1, <1>2, <2>1 DEF TagInv, Built, TagsSound, NotAhead
  <2>2. CASE job.data # None
    BY <1>1, <1>2, <2>2 DEF TagInv, Built, Covers, TagsSound, NotAhead
  <2> QED
    BY <2>1, <2>2
<1> QED
  BY <1>3, <1>4, <1>5, <1>6 DEF TagInv

\* The ConfigMap is changed by others: it gets a version nobody has seen.
LEMMA ConfigMapTags ==
  ASSUME TypeInv, TagInv, UNCHANGED <<store, rs, job, pc>>,
         \/ cm' = None /\ rev' = rev
         \/ cm'.rv = rev + 1 /\ rev' = rev + 1
  PROVE  TagInv'
<1>1. /\ rev \in Nat /\ rs.cmrv \in Nat
      /\ job.cm # None => job.cm.rv \in Nat
  BY DEF TypeInv, TypeOK, State, Job, Object
<1>2. TagsIssued'
  BY DEF TagInv, TagsIssued, Issued
<1>3. Versions'
  BY <1>1 DEF TagInv, Versions
<1>4. cm' # None => cm'.rv # rs.cmrv
  BY <1>1 DEF TagInv, Versions
<1>5. Built' /\ TagsSound'
  BY <1>4 DEF TagInv, Built, Covers, NotAhead, TagsSound
<1> QED
  BY <1>2, <1>3, <1>5 DEF TagInv

\* Stores only issue newer tags.
LEMMA StoreTags ==
  ASSUME TypeInv, TagInv, NEW e \in Endpoints, NEW refs \in RefSets,
         ChangeKeyValues(e, refs) \/ ChangeFlags(e) \/ ChangeSentinel(e)
  PROVE  TagInv'
<1>1. UNCHANGED <<cm, rev, rs, job, pc>>
  BY DEF ChangeKeyValues, ChangeFlags, ChangeSentinel, cluster
<1>2. \A tag \in Content \cup {None} : \A field \in {"keyValue", "flag"} :
        Issued(tag, field) => Issued(tag, field)'
  <2>1. \A d \in Endpoints : /\ store[d].keyValue <= store'[d].keyValue
                             /\ store[d].flag <= store'[d].flag
                             /\ store[d].keyValue \in Nat /\ store'[d].keyValue \in Nat
                             /\ store[d].flag \in Nat /\ store'[d].flag \in Nat
    BY DEF TypeInv, TypeOK, ChangeKeyValues, ChangeFlags, ChangeSentinel
  <2> QED
    BY <2>1 DEF Issued, Content
<1>3. /\ rs.kvTag \in Content \cup {None} /\ job.kvTag \in Content \cup {None}
      /\ rs.ffTag \in Content \cup {None} /\ job.ffTag \in Content \cup {None}
  BY DEF TypeInv, TypeOK, State, Job
<1>4. TagsIssued'
  BY <1>1, <1>2, <1>3 DEF TagInv, TagsIssued, Issued
<1>5. Versions' /\ Built' /\ TagsSound'
  BY <1>1 DEF TagInv, Versions, Built, Covers, NotAhead, TagsSound
<1> QED
  BY <1>4, <1>5 DEF TagInv

\* Every step of a reconcile keeps the tags sound.
LEMMA ReconcileTags == TypeInv /\ TagInv /\ Reconcile => TagInv'
<1> SUFFICES ASSUME TypeInv, TagInv, Reconcile PROVE TagInv'
  OBVIOUS
<1>1. CASE SettingsPanic
  BY <1>1, ReturnTags DEF SettingsPanic, world, cluster
<1>2. CASE PatchStatus
  <2>1. /\ job'.cm = None /\ job'.data = None /\ job'.kvTag = None /\ job'.ffTag = None
        /\ pc' = "idle" /\ UNCHANGED <<store, cm, rev, rs>>
    BY <1>2 DEF PatchStatus, NewJob, world, cluster
  <2> QED
    BY <2>1, DroppedTags
<1> QED
  BY <1>1, <1>2, RefusalsTags, StartTags, CreateKeyValueSettingsTags,
    InitializeSentinelsTags, GetFeatureFlagSettingsTags, ProcessFeatureFlagRefreshTags,
    ProcessKeyValueRefreshTags, RefreshKeyValueSettingsTags,
    ProcessSecretReferenceRefreshTags, CreateOrUpdateConfigMapTags, VerifySecretsTags,
    SecretWritesTags, FinishTags DEF Reconcile

\* Time and the garbage collector keep the tags sound.
LEMMA BackgroundTags == TypeInv /\ TagInv /\ Background => TagInv'
<1> SUFFICES ASSUME TypeInv, TagInv, Background PROVE TagInv'
  OBVIOUS
<1>0. rev \in Nat
  BY DEF TypeInv, TypeOK
<1>1. CASE RequeueFires
  BY <1>0, <1>1, FrameTags DEF RequeueFires, world, cluster
<1>2. ASSUME NEW timer \in Timers, Tick(timer) PROVE TagInv'
  <2>1. /\ rs'.cmrv = rs.cmrv /\ rs'.kvTag = rs.kvTag /\ rs'.ffTag = rs.ffTag
    BY <1>2, ArmType DEF TypeInv, Tick
  <2> QED
    BY <1>0, <1>2, <2>1, FrameTags DEF Tick, world, cluster
<1>3. CASE CollectConfigMap
  BY <1>3, ConfigMapTags DEF CollectConfigMap, world
<1>4. ASSUME NEW n \in Names, CollectSecret(n) PROVE TagInv'
  BY <1>0, <1>4, FrameTags DEF CollectSecret, world
<1> QED
  BY <1>1, <1>2, <1>3, <1>4 DEF Background

\* The outside keeps the tags sound.
LEMMA OutsideTags == TypeInv /\ TagInv /\ Outside => TagInv'
<1> SUFFICES ASSUME TypeInv, TagInv, Outside PROVE TagInv'
  OBVIOUS
<1>0. rev \in Nat
  BY DEF TypeInv, TypeOK
<1>1. CASE \E e \in Endpoints, refs \in RefSets :
             ChangeKeyValues(e, refs) \/ ChangeFlags(e) \/ ChangeSentinel(e)
  BY <1>1, StoreTags
<1>2. CASE EditConfigMap \/ DeleteConfigMap \/ CreateForeignConfigMap
  <2>1. UNCHANGED <<store, rs, job, pc>>
    BY <1>2 DEF EditConfigMap, DeleteConfigMap, CreateForeignConfigMap, world
  <2>2. \/ cm' = None /\ rev' = rev
        \/ cm'.rv = rev + 1 /\ rev' = rev + 1
    <3>1. CASE EditConfigMap
      <4>1. cm \in Object(ConfigMapData)
        BY <3>1 DEF TypeInv, TypeOK, EditConfigMap
      <4>2. \E data : cm' = [cm EXCEPT !.rv = rev + 1, !.data = data]
        BY <3>1 DEF EditConfigMap
      <4>3. cm'.rv = rev + 1
        BY <4>1, <4>2 DEF Object
      <4> QED
        BY <3>1, <4>3 DEF EditConfigMap
    <3>2. CASE DeleteConfigMap \/ CreateForeignConfigMap
      BY <3>2 DEF DeleteConfigMap, CreateForeignConfigMap
    <3> QED
      BY <1>2, <3>1, <3>2
  <2> QED
    BY <2>1, <2>2, ConfigMapTags
<1>3. CASE Crash
  <2>1. /\ job'.cm = None /\ job'.data = None /\ job'.kvTag = None /\ job'.ffTag = None
        /\ pc' = "idle" /\ UNCHANGED <<store, cm, rev>>
        /\ rs'.kvTag = None /\ rs'.ffTag = None /\ rs'.cmrv = 0
    BY <1>3 DEF Crash, NewJob, NewState, world, cluster
  <2> QED
    BY <2>1, DroppedTags
<1>4. CASE /\ UNCHANGED <<store, cm, rs, job, pc>>
           /\ rev' \in {rev, rev + 1}
  BY <1>0, <1>4, FrameTags
<1>5. \/ UNCHANGED <<store, cm, rs, job, pc>> /\ rev' \in {rev, rev + 1}
      \/ \E e \in Endpoints, refs \in RefSets :
             ChangeKeyValues(e, refs) \/ ChangeFlags(e) \/ ChangeSentinel(e)
      \/ EditConfigMap \/ DeleteConfigMap \/ CreateForeignConfigMap \/ Crash
  BY RefSetsAssumption DEF Outside, RotateVault, EditSecret, DeleteSecret,
    CreateForeignSecret, UpdateSpec, UpdateAnnotations, DeleteProvider, CreateProvider,
    world, cluster
<1> QED
  BY <1>1, <1>2, <1>3, <1>4, <1>5

\* The inductive invariant behind TagsSound is inductive.
LEMMA StepTags == TypeInv /\ TagInv /\ [Next]_vars => TagInv'
<1> SUFFICES ASSUME TypeInv, TagInv, [Next]_vars PROVE TagInv'
  OBVIOUS
<1>1. CASE Next
  BY <1>1, ReconcileTags, BackgroundTags, OutsideTags DEF Next
<1>2. CASE UNCHANGED vars
  BY <1>2 DEF TagInv, TagsIssued, Issued, Versions, Built, Covers, TagsSound, NotAhead, vars
<1> QED
  BY <1>1, <1>2

\* The ETags the controller remembers are never ahead of the ConfigMap it wrote
\* last (Finish, createOrUpdateConfigMap), whatever fails, crashes or is edited
\* in between, for all stores, specs and budgets.
THEOREM TagsAreSound == Spec => []TagsSound
<1>1. TagInv => TagsSound
  BY DEF TagInv
<1> QED
  BY <1>1, InitTags, StepTags, AlwaysTypeInv, PTL DEF Spec

=============================================================================
