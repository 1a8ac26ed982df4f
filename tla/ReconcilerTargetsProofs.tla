---------------------- MODULE ReconcilerTargetsProofs ----------------------
(***************************************************************************)
(* More proofs about Reconciler: whose objects a reconcile writes, which   *)
(* store it reads, and what it knows of its Secrets.  They share a         *)
(* description of what a step does to the fields they are about.           *)
(***************************************************************************)
EXTENDS ReconcilerProofs

-----------------------------------------------------------------------------
(* The inductive invariants *)

\* A reconcile between its start and its return.
Running == Stages \ {"idle", "patch"}

\* What a reconcile has read and has not written yet.
BeforeWrites == Running \ {"secrets"}

\* The objects a reconcile has looked at are the provider's.
ReadsOwned == Owned(job.cm, job.prov) /\ \A n \in Names : Owned(job.ex[n], job.prov)

\* UID 0 stands for somebody else.
UidsPositive ==
  /\ prov # None => prov.uid > 0
  /\ pc \in Running => job.prov.uid > 0

\* A Secret that the state tracks and that was not there when the reconcile looked
\* is not there or somebody else's, until the reconcile writes what it selects.
UntrackedGone ==
  pc \in Running => \A n \in Names :
    rs.k8s[n] # None /\ job.ex[n] = None /\ (pc \in BeforeWrites \/ job.k8s[n] = None)
      => sec[n] = None \/ sec[n].own # job.prov.uid

OwnerInv == ReadsOwned /\ UidsPositive /\ UntrackedGone

\* The provider is not created again, and its generation tells its spec.
GenerationsTell ==
  /\ left["create"] = 0
  /\ prov # None =>
       /\ prov.gen > 0
       /\ rs.gen <= prov.gen
       /\ pc \in Running => /\ job.prov.gen <= prov.gen
                            /\ job.prov.gen = prov.gen => job.prov.spec = prov.spec

\* The ClientManager belongs to the spec of the recorded generation, and to the
\* spec of the running reconcile.
ClientCurrent ==
  /\ prov # None /\ rs.client # None /\ rs.gen = prov.gen
       => rs.client = prov.spec.endpoint
  /\ pc \in Running => rs.client = job.prov.spec.endpoint

\* The target Secret of the recorded generation is tracked.
TargetTracked ==
  prov # None /\ rs.gen = prov.gen /\ prov.spec.secret # None
    => rs.k8s[prov.spec.secret] # None

\* The target Secret and the metadata in the running reconcile.
JobTracked ==
  pc \in Running =>
    /\ job.prov.spec.secret # None =>
         /\ job.secPop => job.k8s[job.prov.spec.secret] # None
         /\ ~ job.should => rs.k8s[job.prov.spec.secret] # None
         /\ job.should /\ pc # "keyValues" => job.secPop
    /\ \A n \in Names : job.secPop /\ job.secs[n] # None => job.k8s[n] # None
    /\ pc \in BeforeWrites => \A n \in Names :
         job.ex[n] # None => n = job.prov.spec.secret \/ rs.k8s[n] # None
    /\ pc = "verify" \/ job.todo # {} => job.secPop

SpecInv == GenerationsTell /\ ClientCurrent /\ TargetTracked /\ JobTracked

\* Resource versions were handed out by the API server, and one version of a
\* Secret has one content.
SecretVersions ==
  \A n \in Names :
    /\ sec[n] # None => sec[n].rv > 0 /\ sec[n].rv <= rev /\ sec[n].stamp <= rev
    /\ job.ex[n] # None => job.ex[n].rv <= rev
    /\ rs.k8s[n] # None => rs.k8s[n].rv <= rev
    /\ job.k8s[n] # None => job.k8s[n].rv <= rev
    /\ sec[n] # None /\ job.ex[n] # None /\ sec[n].rv = job.ex[n].rv
         => sec[n].data = job.ex[n].data

\* m knows the references of the Secrets whose version it has.
KnowsReferences(m) ==
  \A n \in Names : m[n] # None /\ sec[n] # None /\ sec[n].rv = m[n].rv
                     => sec[n].data.keyValue = m[n].ref

\* The Secrets a reconcile has built or read, and their references.
JobReferences ==
  pc \in Running =>
    /\ \A n \in Names : job.secPop /\ job.secs[n] # None
         => job.secs[n].keyValue # None /\ job.secs[n].keyValue = job.k8s[n].ref
    /\ pc \in BeforeWrites /\ ~ job.should => \A n \in Names :
         rs.k8s[n] # None /\ job.ex[n] # None => job.ex[n].data.keyValue = rs.k8s[n].ref

MixInv == /\ SecretVersions /\ KnowsReferences(rs.k8s) /\ KnowsReferences(job.k8s)
          /\ JobReferences /\ NoMixedSecret

-----------------------------------------------------------------------------
(* What a step does *)

ReadsKept == /\ job'.prov = job.prov /\ job'.cm = job.cm /\ job'.ex = job.ex
             /\ job'.should = job.should

SettingsKept == /\ job'.secPop = job.secPop /\ job'.secs = job.secs
                /\ job'.k8s = job.k8s /\ job'.todo = job.todo

StateKept == rs'.k8s = rs.k8s /\ rs'.client = rs.client /\ rs'.gen = rs.gen

JobDropped == job'.cm = None /\ \A n \in Names : job'.ex[n] = None /\ job'.k8s[n] = None

\* The provider is deleted or keeps what the proofs look at.
ProvKept ==
  prov' # None => /\ prov # None /\ prov'.uid = prov.uid
                  /\ prov'.gen = prov.gen /\ prov'.spec = prov.spec

RevGrows == rev' \in Nat /\ rev' >= rev

\* A reconcile that returns without having changed a Secret, or none at all.
Ends ==
  /\ pc' \notin Running
  /\ UNCHANGED <<sec, rev>>
  /\ ProvKept
  /\ job' = job \/ JobDropped
  /\ StateKept \/ rs' = NewState

\* The settings of the Secrets are fetched or resolved again.
Fetches ==
  /\ ~UnexpectedReference
  /\ job'.secPop <=> job.prov.spec.secret # None
  /\ job'.secs = FetchedSecrets
  /\ job'.k8s = FetchedMetadata
  /\ job'.todo = job.todo
  /\ rs.client \in Endpoints

Resolves ==
  /\ pc = "secretRefresh"
  /\ job.prov.spec.secret # None
  /\ ~job.secPop
  /\ job'.secPop
  /\ job'.secs = [n \in Names |->
                    IF job.ex[n] = None THEN None
                    ELSE IF rs.k8s[n] = None THEN job.ex[n].data
                    ELSE Resolved(job.ex[n], rs.k8s[n])]
  /\ job'.k8s = rs.k8s
  /\ job'.todo = job.todo

\* A stage before the Secrets are written.
Advances ==
  /\ pc \in BeforeWrites
  /\ pc' \in Running \ {"keyValues"}
  /\ ReadsKept
  /\ StateKept
  /\ RevGrows
  /\ UNCHANGED <<sec, prov>>
  /\ pc' = "verify" => job'.secPop
  /\ (pc # "keyValues" /\ SettingsKept) \/ Fetches \/ Resolves

\* The Secrets about to be written were looked at.
Verifies ==
  /\ pc = "verify" /\ pc' = "secrets"
  /\ \A n \in Unverified : Owned(sec[n], job.prov)
  /\ job'.prov = job.prov /\ job'.cm = job.cm /\ job'.should = job.should
  /\ job'.ex = [n \in Names |-> IF n \in Unverified THEN sec[n] ELSE job.ex[n]]
  /\ job'.secPop = job.secPop /\ job'.secs = job.secs /\ job'.k8s = job.k8s
  /\ StateKept
  /\ UNCHANGED <<sec, rev, prov>>

\* A Secret is written, or found to be up to date.
Writes(n) ==
  /\ pc = "secrets" /\ n \in job.todo
  /\ UNCHANGED prov
  /\ \E v \in Nat :
       /\ \/ /\ ~ShouldWriteSecret(n)
             /\ v = job.ex[n].rv
             /\ UNCHANGED <<sec, rev>>
          \/ /\ ShouldWriteSecret(n)
             /\ v = rev + 1 /\ rev' = rev + 1
             /\ sec' = [sec EXCEPT ![n] = Written(sec[n], job.secs[n])]
       /\ \/ job.k8s[n] = None /\ pc' = "patch" /\ JobDropped /\ StateKept
          \/ /\ job.k8s[n] # None /\ pc' = pc
             /\ ReadsKept
             /\ job'.secPop = job.secPop /\ job'.secs = job.secs
             /\ job'.k8s = [job.k8s EXCEPT ![n].rv = v]
             /\ job'.todo \subseteq job.todo
             /\ rs'.client = rs.client /\ rs'.gen = rs.gen
             /\ rs'.k8s = IF job.alias THEN job'.k8s ELSE rs.k8s

\* A Secret that is no longer selected is deleted.
Expels(n) ==
  /\ pc = "secrets" /\ pc' = pc
  /\ job'.prov = job.prov /\ job'.cm = job.cm /\ job'.should = job.should
  /\ job'.ex = [job.ex EXCEPT ![n] = None]
  /\ SettingsKept /\ StateKept
  /\ sec' = [sec EXCEPT ![n] = None]
  /\ UNCHANGED <<rev, prov>>

\* Others act.
Elsewhere ==
  /\ UNCHANGED <<pc, job>>
  /\ StateKept
  /\ RevGrows
  /\ \/ /\ ProvKept
        /\ UNCHANGED sec
     \/ /\ UNCHANGED prov
        /\ \E n \in Names : \/ EditSecret(n) \/ DeleteSecret(n) \/ CreateForeignSecret(n)
                            \/ CollectSecret(n)
     \/ /\ UNCHANGED sec
        /\ \E spec \in Specs : UpdateSpec(spec) \/ CreateProvider(spec)

Described ==
  \/ Ends \/ ClientManagerFails \/ ReconcileStart \/ Advances \/ Verifies \/ Finish \/ Elsewhere
  \/ \E n \in Names : Writes(n) \/ Expels(n)

\* A reconcile that returns keeps nothing but the provider for the patch.
LEMMA ReturnDrops ==
  ASSUME NEW p, NEW phase, NEW again, Return(p, phase, again)
  PROVE  pc' = "patch" /\ pc' \notin Running /\ JobDropped /\ job'.prov = p
BY DEF Return, NewJob, JobDropped, Running

\* The provider is kept when it is unchanged.
LEMMA SameProv == UNCHANGED prov => ProvKept
BY DEF ProvKept

\* The failures of a running reconcile.
LEMMA FailuresEnd ==
  ASSUME GetSettingsFails \/ UnexpectedReferenceFails \/ WriteFails \/ SettingsPanic
  PROVE  Ends
BY ReturnDrops, SameProv DEF GetSettingsFails, UnexpectedReferenceFails, WriteFails, SettingsPanic,
   Ends, StateKept, cluster

\* The reconciles that end where they start.
LEMMA RefusalsEnd ==
  ASSUME \/ ReconcileNotFound \/ GetProviderFails \/ ReconcileRunning
         \/ ReconcileInvalid \/ ReconcileConflict
  PROVE  Ends
<1>1. CASE ReconcileNotFound \/ GetProviderFails \/ ReconcileRunning
  BY <1>1, SameProv DEF ReconcileNotFound, GetProviderFails, ReconcileRunning, Dequeue, Ends,
     StateKept, cluster, Running
<1>2. CASE ReconcileInvalid \/ ReconcileConflict
  BY <1>2, ReturnDrops, SameProv DEF ReconcileInvalid, ReconcileConflict, Ends, StateKept, cluster
<1> QED BY <1>1, <1>2

\* The patch of the status touches the phase only.
LEMMA PatchEnds == TypeInv /\ PatchStatus => Ends
<1> SUFFICES ASSUME TypeInv, PatchStatus PROVE Ends
  OBVIOUS
<1>1. ProvKept
  <2>1. prov' = prov \/ (prov # None /\ prov' = [prov EXCEPT !.phase = job.phase])
    BY DEF PatchStatus
  <2>2. prov # None => prov \in Provider
    BY DEF TypeInv, TypeOK
  <2> QED BY <2>1, <2>2 DEF ProvKept, Provider
<1>2. pc' \notin Running /\ JobDropped
  BY DEF PatchStatus, NewJob, JobDropped, Running
<1> QED BY <1>1, <1>2 DEF PatchStatus, Ends, StateKept, cluster

\* A crash ends the reconcile and forgets the state.
LEMMA CrashEnds == Crash => Ends
<1> SUFFICES ASSUME Crash PROVE Ends
  OBVIOUS
<1>1. pc' \notin Running /\ JobDropped
  BY DEF Crash, NewJob, JobDropped, Running
<1> QED BY <1>1, SameProv DEF Crash, Ends, StateKept, cluster

\* What the stages have in common.
LEMMA StageFacts ==
  ASSUME TypeInv
  PROVE  /\ TypeOK /\ job \in Job /\ rs \in State /\ rev \in Nat /\ rev >= rev
         /\ Timers = {"keyValue", "flag", "secret"}
         /\ pc \in Fetching => rs.client \in Endpoints
BY DEF TypeInv, TypeOK, StageOK, Timers

\* Stages that build no settings of Secrets.
LEMMA BuildsNoSecrets ==
  ASSUME TypeInv, UNCHANGED <<sec, rev, prov>>, StateKept, ReadsKept, SettingsKept,
         pc \in BeforeWrites \ {"keyValues"}, pc' \in Running \ {"keyValues"},
         pc' = "verify" => job'.secPop
  PROVE  Advances
BY StageFacts DEF Advances, RevGrows

\* The settings of a full reconcile are fetched.
LEMMA CreateKeyValueSettingsAdvances ==
  TypeInv /\ CreateKeyValueSettings => Ends \/ Advances
<1> SUFFICES ASSUME TypeInv, CreateKeyValueSettings,
                    ~ (GetSettingsFails \/ UnexpectedReferenceFails)
             PROVE  Advances
  BY FailuresEnd
<1> DEFINE j == WithKeyValues(job, None)
<1>1. pc = "keyValues" /\ rs.client \in Endpoints /\ job \in Job /\ TypeOK
  BY StageFacts DEF CreateKeyValueSettings, Fetching
<1>2. /\ job' = [j EXCEPT !.kvTag = KeyValues(rs.client)]
      /\ pc' \in {"sentinel", "flags", "ffRefresh"} /\ ~UnexpectedReference
      /\ UNCHANGED <<rs, sec, rev, prov>>
  BY DEF CreateKeyValueSettings, cluster
<1>3. /\ j \in Job /\ j.prov = job.prov /\ j.cm = job.cm /\ j.ex = job.ex
      /\ j.should = job.should /\ j.todo = job.todo
      /\ j.secPop <=> job.prov.spec.secret # None
      /\ j.secs = FetchedSecrets /\ j.k8s = FetchedMetadata
  BY <1>1, WithKeyValuesType
<1> HIDE DEF j
<1>4. /\ job'.prov = job.prov /\ job'.cm = job.cm /\ job'.ex = job.ex
      /\ job'.should = job.should /\ job'.todo = job.todo /\ job'.secPop = j.secPop
      /\ job'.secs = FetchedSecrets /\ job'.k8s = FetchedMetadata
  BY <1>2, <1>3 DEF Job
<1>5. Fetches
  BY <1>1, <1>2, <1>3, <1>4 DEF Fetches
<1> QED BY <1>1, <1>2, <1>4, <1>5, StageFacts
        DEF Advances, ReadsKept, StateKept, RevGrows, Running, BeforeWrites, Stages

\* Reading sentinels builds no Secret.
LEMMA InitializeSentinelsAdvances == TypeInv /\ InitializeSentinels => Ends \/ Advances
<1> SUFFICES ASSUME TypeInv, InitializeSentinels, ~ GetSettingsFails PROVE Advances
  BY FailuresEnd
<1>1. /\ pc = "sentinel" /\ pc' \in {"flags", "ffRefresh"}
      /\ job' = [job EXCEPT !.senTag = Sentinel(rs.client)]
      /\ UNCHANGED <<rs, sec, rev, prov>>
  BY DEF InitializeSentinels, cluster
<1>2. ReadsKept /\ SettingsKept /\ StateKept
  BY <1>1, StageFacts DEF Job, ReadsKept, SettingsKept, StateKept
<1> QED BY <1>1, <1>2, BuildsNoSecrets DEF Running, BeforeWrites, Stages

\* Reading feature flags builds no Secret.
LEMMA GetFeatureFlagSettingsAdvances == TypeInv /\ GetFeatureFlagSettings => Ends \/ Advances
<1> SUFFICES ASSUME TypeInv, GetFeatureFlagSettings, ~ GetSettingsFails PROVE Advances
  BY FailuresEnd
<1> DEFINE data == [job.data EXCEPT !.flag = Flags(rs.client)]
<1>1. /\ pc = "flags" /\ pc' = "ffRefresh"
      /\ job' = [job EXCEPT !.data = data, !.ffTag = Flags(rs.client)]
      /\ UNCHANGED <<rs, sec, rev, prov>>
  BY DEF GetFeatureFlagSettings, cluster
<1> HIDE DEF data
<1>2. ReadsKept /\ SettingsKept /\ StateKept
  BY <1>1, StageFacts DEF Job, ReadsKept, SettingsKept, StateKept
<1> QED BY <1>1, <1>2, BuildsNoSecrets DEF Running, BeforeWrites, Stages

\* Refreshing feature flags builds no Secret.
LEMMA ProcessFeatureFlagRefreshAdvances ==
  TypeInv /\ ProcessFeatureFlagRefresh => Ends \/ Advances
<1> SUFFICES ASSUME TypeInv, ProcessFeatureFlagRefresh, ~ GetSettingsFails PROVE Advances
  BY FailuresEnd
<1> DEFINE data == [keyValue |-> job.cm.data.keyValue, flag |-> Flags(rs.client)]
<1>1. /\ pc = "ffRefresh" /\ pc' = "kvRefresh"
      /\ job' \in {job, [job EXCEPT !.data = data, !.ffTag = Flags(rs.client)]}
      /\ RefreshNotNeeded("flag", FlagRefreshEnabled) \/ rs' = Arm("flag")
      /\ UNCHANGED <<sec, rev, prov>>
  BY DEF ProcessFeatureFlagRefresh, RefreshNotNeeded, cluster
<1> HIDE DEF data
<1>2. ReadsKept /\ SettingsKept
  BY <1>1, StageFacts DEF Job, ReadsKept, SettingsKept
<1>3. StateKept
  BY <1>1, StageFacts, ArmType, RefreshNotNeededType DEF StateKept
<1> QED BY <1>1, <1>2, <1>3, BuildsNoSecrets DEF Running, BeforeWrites, Stages

\* Checking key-values builds no Secret.
LEMMA ProcessKeyValueRefreshAdvances ==
  TypeInv /\ ProcessKeyValueRefresh => Ends \/ Advances
<1> SUFFICES ASSUME TypeInv, ProcessKeyValueRefresh, ~ GetSettingsFails PROVE Advances
  BY FailuresEnd
<1>1. /\ pc = "kvRefresh" /\ pc' \in {"secretRefresh", "kvFetch"}
      /\ job' \in {job, [job EXCEPT !.changed = TRUE, !.senTag = Sentinel(rs.client)]}
      /\ \/ RefreshNotNeeded("keyValue", KeyValueRefreshEnabled)
         \/ rs' = Arm("keyValue") \/ rs' = rs
      /\ UNCHANGED <<sec, rev, prov>>
  BY DEF ProcessKeyValueRefresh, RefreshNotNeeded, cluster
<1>2. ReadsKept /\ SettingsKept
  BY <1>1, StageFacts DEF Job, ReadsKept, SettingsKept
<1>3. StateKept
  BY <1>1, StageFacts, ArmType, RefreshNotNeededType DEF StateKept
<1> QED BY <1>1, <1>2, <1>3, BuildsNoSecrets DEF Running, BeforeWrites, Stages

\* A refresh of the key-values fetches the Secrets with them.
LEMMA RefreshKeyValueSettingsAdvances ==
  TypeInv /\ RefreshKeyValueSettings => Ends \/ Advances
<1> SUFFICES ASSUME TypeInv, RefreshKeyValueSettings,
                    ~ (GetSettingsFails \/ UnexpectedReferenceFails)
             PROVE  Advances
  BY FailuresEnd
<1> DEFINE j == WithKeyValues(job, KeptFlags)
           tag == IF job.prov.spec.keyValue = "page" THEN KeyValues(rs.client) ELSE j.kvTag
<1>1. pc = "kvFetch" /\ rs.client \in Endpoints /\ job \in Job /\ TypeOK
  BY StageFacts DEF RefreshKeyValueSettings, Fetching
<1>2. KeptFlags \in Content \cup {None}
  BY <1>1 DEF TypeInv, StageOK, Refreshing, KeptFlags, Job, Object, ConfigMapData
<1>3. /\ job' = [j EXCEPT !.kvTag = tag]
      /\ pc' = "secretRefresh" /\ ~UnexpectedReference
      /\ rs' = Arm("keyValue") /\ UNCHANGED <<sec, rev, prov>>
  BY DEF RefreshKeyValueSettings, cluster
<1>4. /\ j \in Job /\ j.prov = job.prov /\ j.cm = job.cm /\ j.ex = job.ex
      /\ j.should = job.should /\ j.todo = job.todo
      /\ j.secPop <=> job.prov.spec.secret # None
      /\ j.secs = FetchedSecrets /\ j.k8s = FetchedMetadata
  BY <1>1, <1>2, WithKeyValuesType
<1> HIDE DEF j, tag
<1>5. /\ job'.prov = job.prov /\ job'.cm = job.cm /\ job'.ex = job.ex
      /\ job'.should = job.should /\ job'.todo = job.todo /\ job'.secPop = j.secPop
      /\ job'.secs = FetchedSecrets /\ job'.k8s = FetchedMetadata
  BY <1>3, <1>4 DEF Job
<1>6. Fetches
  BY <1>1, <1>3, <1>4, <1>5 DEF Fetches
<1>7. StateKept
  BY <1>1, <1>3, StageFacts, ArmType DEF StateKept
<1> QED BY <1>1, <1>3, <1>5, <1>6, <1>7, StageFacts
        DEF Advances, ReadsKept, RevGrows, Running, BeforeWrites, Stages

\* A refresh of the secrets resolves the references of what is there.
LEMMA ProcessSecretReferenceRefreshAdvances ==
  TypeInv /\ ProcessSecretReferenceRefresh => Ends \/ Advances
<1> SUFFICES ASSUME TypeInv, ProcessSecretReferenceRefresh, ~ GetSettingsFails PROVE Advances
  BY FailuresEnd
<1>1. /\ pc = "secretRefresh" /\ UNCHANGED <<sec, rev, prov>>
      /\ rs' \in {rs, Arm("secret"), Disarm("secret")}
      /\ pc' = AfterSettings(job) \/ pc' = AfterSettings(job')
  BY DEF ProcessSecretReferenceRefresh, cluster
<1>2. StateKept
  BY <1>1, StageFacts, ArmType DEF StateKept
<1>3. pc \in BeforeWrites \ {"keyValues"} /\ pc' \in Running \ {"keyValues"}
  BY <1>1 DEF AfterSettings, Running, BeforeWrites, Stages
<1>4. CASE job' = job
  BY <1>1, <1>2, <1>3, <1>4, BuildsNoSecrets DEF ReadsKept, SettingsKept, AfterSettings
<1>5. CASE job' # job
  <2> DEFINE secs == [n \in Names |->
                        IF job.ex[n] = None THEN None
                        ELSE IF rs.k8s[n] = None THEN job.ex[n].data
                        ELSE Resolved(job.ex[n], rs.k8s[n])]
  <2>1. /\ job' = [job EXCEPT !.secs = secs, !.k8s = rs.k8s, !.alias = TRUE, !.secPop = TRUE]
        /\ SecretRefreshEnabled /\ ~job.secPop
    BY <1>5 DEF ProcessSecretReferenceRefresh
  <2> HIDE DEF secs
  <2>2. /\ ReadsKept /\ job'.secs = secs /\ job'.k8s = rs.k8s /\ job'.secPop
        /\ job'.todo = job.todo
    BY <2>1, StageFacts DEF Job, ReadsKept
  <2>3. Resolves
    BY <1>1, <2>1, <2>2 DEF Resolves, SecretRefreshEnabled, secs
  <2> QED BY <1>1, <1>2, <1>3, <2>2, <2>3, StageFacts DEF Advances, RevGrows
<1> QED BY <1>4, <1>5

\* Writing the ConfigMap leaves the Secrets alone.
LEMMA CreateOrUpdateConfigMapAdvances ==
  TypeInv /\ CreateOrUpdateConfigMap => Ends \/ Advances
<1> SUFFICES ASSUME TypeInv, CreateOrUpdateConfigMap, ~ WriteFails PROVE Advances
  BY FailuresEnd
<1>1. /\ pc = "configMap" /\ pc' = AfterConfigMap
      /\ rs' = [rs EXCEPT !.cmrv = job.cm.rv] \/ rs' = [rs EXCEPT !.cmrv = cm'.rv]
      /\ rev' = rev \/ rev' = rev + 1
      /\ UNCHANGED <<job, sec, prov>>
  BY DEF CreateOrUpdateConfigMap, cluster
<1>2. StateKept /\ ReadsKept /\ SettingsKept
  BY <1>1, StageFacts DEF State, StateKept, ReadsKept, SettingsKept
<1>3. RevGrows
  BY <1>1, StageFacts DEF RevGrows
<1>4. pc' = "verify" => job'.secPop
  BY <1>1 DEF AfterConfigMap
<1> QED BY <1>1, <1>2, <1>3, <1>4 DEF Advances, AfterConfigMap, Running, BeforeWrites, Stages

\* Secrets not seen before are looked at, or the reconcile fails.
LEMMA VerifySecretsVerifies == TypeInv /\ VerifySecrets => Ends \/ Verifies
<1> SUFFICES ASSUME TypeInv, VerifySecrets PROVE Ends \/ Verifies
  OBVIOUS
<1>1. pc = "verify" /\ UNCHANGED <<sec, rev, prov, rs>>
  BY DEF VerifySecrets, cluster
<1>2. CASE Return(job.prov, FailPhase(rs, job.prov, FALSE), TRUE)
  BY <1>1, <1>2, ReturnDrops, SameProv DEF Ends, StateKept
<1>3. CASE ~ Return(job.prov, FailPhase(rs, job.prov, FALSE), TRUE)
  <2> DEFINE ex == [n \in Names |-> IF n \in Unverified THEN sec[n] ELSE job.ex[n]]
             todo == Present(job.secs)
  <2>1. /\ job' = [job EXCEPT !.ex = ex, !.todo = todo] /\ pc' = "secrets"
        /\ \A n \in Unverified : Owned(sec[n], job.prov)
    BY <1>3 DEF VerifySecrets
  <2> HIDE DEF ex, todo
  <2>2. /\ job'.prov = job.prov /\ job'.cm = job.cm /\ job'.should = job.should
        /\ job'.secPop = job.secPop /\ job'.secs = job.secs /\ job'.k8s = job.k8s
        /\ job'.ex = ex
    BY <2>1, StageFacts DEF Job
  <2> QED BY <1>1, <2>1, <2>2 DEF Verifies, StateKept, ex
<1> QED BY <1>2, <1>3

\* The version of a Secret is recorded, unless there is no metadata for it.
LEMMA SetSecretVersionRecords ==
  ASSUME TypeInv, pc = "secrets", NEW n \in Names, NEW v \in Nat, SetSecretVersion(n, v)
  PROVE  \/ job.k8s[n] = None /\ pc' = "patch" /\ JobDropped /\ StateKept
         \/ /\ job.k8s[n] # None /\ pc' = pc
            /\ ReadsKept
            /\ job'.secPop = job.secPop /\ job'.secs = job.secs
            /\ job'.k8s = [job.k8s EXCEPT ![n].rv = v]
            /\ job'.todo \subseteq job.todo
            /\ rs'.client = rs.client /\ rs'.gen = rs.gen
            /\ rs'.k8s = IF job.alias THEN job'.k8s ELSE rs.k8s
<1>1. CASE job.k8s[n] = None
  BY <1>1, ReturnDrops DEF SetSecretVersion, StateKept
<1>2. CASE job.k8s[n] # None
  <2> DEFINE m == [job.k8s EXCEPT ![n].rv = v]
             todo == job.todo \ {n}
  <2>1. /\ job' = [job EXCEPT !.k8s = m, !.todo = todo] /\ pc' = pc
        /\ rs' = IF job.alias THEN [rs EXCEPT !.k8s[n].rv = v] ELSE rs
    BY <1>2 DEF SetSecretVersion
  <2>2. job.alias => rs' = [rs EXCEPT !.k8s = m]
    BY <2>1 DEF TypeInv, StageOK
  <2>3. todo \subseteq job.todo
    OBVIOUS
  <2> HIDE DEF m, todo
  <2>4. /\ ReadsKept /\ job'.secPop = job.secPop /\ job'.secs = job.secs
        /\ job'.k8s = m /\ job'.todo = todo
    BY <2>1, StageFacts DEF Job, ReadsKept
  <2>5. /\ rs'.client = rs.client /\ rs'.gen = rs.gen
        /\ rs'.k8s = IF job.alias THEN job'.k8s ELSE rs.k8s
    BY <2>1, <2>2, <2>4, StageFacts DEF State
  <2> QED BY <1>2, <2>1, <2>3, <2>4, <2>5 DEF m
<1> QED BY <1>1, <1>2

\* A Secret is written, skipped, or the reconcile fails.
LEMMA CreateOrUpdateSecretWrites ==
  ASSUME TypeInv, NEW n \in Names, CreateOrUpdateSecret(n)
  PROVE  Ends \/ Writes(n)
<1> SUFFICES ASSUME ~ WriteFails PROVE Writes(n)
  BY FailuresEnd
<1>1. pc = "secrets" /\ n \in job.todo /\ UNCHANGED prov
  BY DEF CreateOrUpdateSecret
<1>2. CASE ~ ShouldWriteSecret(n)
  <2>1. SetSecretVersion(n, job.ex[n].rv) /\ UNCHANGED <<sec, rev>>
    BY <1>2 DEF CreateOrUpdateSecret, cluster
  <2>2. job.ex[n].rv \in Nat
    BY <1>2, StageFacts DEF ShouldWriteSecret, Job, Object
  <2> QED BY <1>1, <1>2, <2>1, <2>2, SetSecretVersionRecords DEF Writes
<1>3. CASE ShouldWriteSecret(n)
  <2>1. /\ SetSecretVersion(n, rev + 1) /\ rev' = rev + 1
        /\ sec' = [sec EXCEPT ![n] = Written(sec[n], job.secs[n])]
    BY <1>3 DEF CreateOrUpdateSecret
  <2>2. rev + 1 \in Nat
    BY StageFacts
  <2> QED BY <1>1, <1>3, <2>1, <2>2, SetSecretVersionRecords DEF Writes
<1> QED BY <1>2, <1>3

\* A Secret is deleted, or the reconcile fails.
LEMMA ExpelSecretExpels ==
  ASSUME TypeInv, NEW n \in Names, ExpelSecret(n)
  PROVE  Ends \/ Expels(n)
<1> SUFFICES ASSUME ~ WriteFails PROVE Ends \/ Expels(n)
  BY FailuresEnd
<1>1. CASE sec[n] = None
  BY <1>1, ReturnDrops, SameProv DEF ExpelSecret, Ends, StateKept, cluster
<1>2. CASE sec[n] # None
  <2>1. /\ job' = [job EXCEPT !.ex[n] = None] /\ pc = "secrets"
        /\ UNCHANGED <<rev, prov, rs, pc>> /\ sec' = [sec EXCEPT ![n] = None]
    BY <1>2 DEF ExpelSecret
  <2>2. /\ job'.prov = job.prov /\ job'.cm = job.cm /\ job'.should = job.should
        /\ job'.ex = [job.ex EXCEPT ![n] = None] /\ SettingsKept
    BY <2>1, StageFacts DEF Job, SettingsKept
  <2> QED BY <2>1, <2>2 DEF Expels, StateKept
<1> QED BY <1>1, <1>2

\* Time and the garbage collector are others.
LEMMA BackgroundElsewhere == TypeInv /\ Background => Elsewhere
<1> SUFFICES ASSUME TypeInv, Background PROVE Elsewhere
  OBVIOUS
<1>1. CASE RequeueFires \/ CollectConfigMap
  BY <1>1, StageFacts, SameProv
     DEF RequeueFires, CollectConfigMap, Elsewhere, StateKept, RevGrows, cluster
<1>2. ASSUME NEW timer \in Timers, Tick(timer) PROVE Elsewhere
  <2>1. StateKept
    BY <1>2, StageFacts, ArmType DEF Tick, StateKept
  <2> QED BY <1>2, <2>1, StageFacts, SameProv DEF Tick, Elsewhere, RevGrows, cluster
<1>3. ASSUME NEW n \in Names, CollectSecret(n) PROVE Elsewhere
  BY <1>3, StageFacts DEF CollectSecret, Elsewhere, StateKept, RevGrows
<1> QED BY <1>1, <1>2, <1>3 DEF Background

\* Users, stores and the vault are others; a crash ends the reconcile.
LEMMA OutsideElsewhere == TypeInv /\ Outside => Ends \/ Elsewhere
<1> SUFFICES ASSUME TypeInv, Outside, ~ Crash PROVE Elsewhere
  BY CrashEnds
<1>0. rev + 1 \in Nat /\ rev + 1 >= rev /\ rev \in Nat /\ rev >= rev
  BY StageFacts
<1>1. CASE RotateVault \/ \E e \in Endpoints : ChangeFlags(e) \/ ChangeSentinel(e)
                            \/ \E refs \in RefSets : ChangeKeyValues(e, refs)
  BY <1>0, <1>1, SameProv DEF RotateVault, ChangeFlags, ChangeSentinel, ChangeKeyValues, Elsewhere,
     StateKept, RevGrows, cluster
<1>2. CASE EditConfigMap \/ DeleteConfigMap \/ CreateForeignConfigMap
  BY <1>0, <1>2, SameProv DEF EditConfigMap, DeleteConfigMap, CreateForeignConfigMap, Elsewhere,
     StateKept, RevGrows
<1>3. ASSUME NEW n \in Names, EditSecret(n) \/ DeleteSecret(n) \/ CreateForeignSecret(n)
      PROVE  Elsewhere
  <2>1. UNCHANGED <<pc, job, rs, prov>> /\ (rev' = rev \/ rev' = rev + 1)
    BY <1>3 DEF EditSecret, DeleteSecret, CreateForeignSecret
  <2> QED BY <1>0, <1>3, <2>1 DEF Elsewhere, StateKept, RevGrows
<1>4. ASSUME NEW spec \in Specs, UpdateSpec(spec) \/ CreateProvider(spec) PROVE Elsewhere
  <2>1. UNCHANGED <<pc, job, rs, sec>> /\ (rev' = rev \/ rev' = rev + 1)
    BY <1>4 DEF UpdateSpec, CreateProvider, cluster
  <2> QED BY <1>0, <1>4, <2>1 DEF Elsewhere, StateKept, RevGrows
<1>5. CASE UpdateAnnotations \/ DeleteProvider
  <2>1. prov # None => prov \in Provider
    BY DEF TypeInv, TypeOK
  <2>2. ProvKept
    BY <1>5, <2>1 DEF UpdateAnnotations, DeleteProvider, ProvKept, Provider
  <2> QED BY <1>0, <1>5, <2>2 DEF UpdateAnnotations, DeleteProvider, Elsewhere, StateKept,
             RevGrows, cluster
<1> QED BY <1>1, <1>2, <1>3, <1>4, <1>5 DEF Outside

\* Every step is one of those described.
LEMMA StepDescribed == TypeInv /\ [Next]_vars => Described
<1> SUFFICES ASSUME TypeInv, [Next]_vars PROVE Described
  OBVIOUS
<1>1. CASE Reconcile
  <2>1. CASE \/ ReconcileNotFound \/ GetProviderFails \/ ReconcileRunning
             \/ ReconcileInvalid \/ ReconcileConflict \/ SettingsPanic \/ PatchStatus
    BY <2>1, RefusalsEnd, FailuresEnd, PatchEnds DEF Described
  <2>2. CASE ClientManagerFails \/ ReconcileStart \/ Finish
    BY <2>2 DEF Described
  <2>3. CASE \/ CreateKeyValueSettings \/ InitializeSentinels \/ GetFeatureFlagSettings
             \/ ProcessFeatureFlagRefresh \/ ProcessKeyValueRefresh
             \/ RefreshKeyValueSettings \/ ProcessSecretReferenceRefresh
             \/ CreateOrUpdateConfigMap
    BY <2>3, CreateKeyValueSettingsAdvances, InitializeSentinelsAdvances,
       GetFeatureFlagSettingsAdvances, ProcessFeatureFlagRefreshAdvances,
       ProcessKeyValueRefreshAdvances, RefreshKeyValueSettingsAdvances,
       ProcessSecretReferenceRefreshAdvances, CreateOrUpdateConfigMapAdvances
       DEF Described
  <2>4. CASE VerifySecrets
    BY <2>4, VerifySecretsVerifies DEF Described
  <2>5. CASE \E n \in Names : CreateOrUpdateSecret(n) \/ ExpelSecret(n)
    BY <2>5, CreateOrUpdateSecretWrites, ExpelSecretExpels DEF Described
  <2> QED BY <1>1, <2>1, <2>2, <2>3, <2>4, <2>5 DEF Reconcile
<1>2. CASE Background \/ Outside
  BY <1>2, BackgroundElsewhere, OutsideElsewhere DEF Described
<1>3. CASE UNCHANGED vars
  BY <1>3, StageFacts, SameProv DEF vars, Described, Elsewhere, StateKept, RevGrows
<1> QED BY <1>1, <1>2, <1>3 DEF Next

\* What a reconcile starts with.
LEMMA Started ==
  ASSUME TypeInv, ReconcileStart
  PROVE  LET ex == Collect(CollectedNames(prov))
             r  == ResetVersions(prov, ex)
         IN  /\ pc = "idle" /\ pc' \in Running /\ prov \in Provider /\ prov # None
             /\ job'.prov = prov /\ job'.cm = cm /\ job'.ex = ex
             /\ job'.should <=> ShouldReconcile(r, prov, cm, ex)
             /\ pc' = "keyValues" <=> job'.should
             /\ pc' \in {"keyValues", "ffRefresh"}
             /\ ~job'.secPop /\ job'.todo = {}
             /\ \A n \in Names : job'.k8s[n] = None
             /\ rs'.k8s = r.k8s /\ rs'.gen = rs.gen
             /\ rs'.client = IF NeedsClient(r, prov) THEN prov.spec.endpoint ELSE rs.client
             /\ UNCHANGED <<sec, rev, prov>>
<1> DEFINE ex == Collect(CollectedNames(prov))
           r  == ResetVersions(prov, ex)
           should == ShouldReconcile(r, prov, cm, ex)
           client == IF NeedsClient(r, prov) THEN prov.spec.endpoint ELSE rs.client
           due == Timers \ rs.armed
<1>1. pc = "idle" /\ prov # None /\ prov \in Provider /\ UNCHANGED <<sec, rev, prov>>
  BY DEF ReconcileStart, Dequeue, Admitted, cluster, TypeInv, TypeOK
<1>2. r \in State /\ r.gen = rs.gen /\ r.client = rs.client
  BY ResetVersionsType DEF TypeInv
<1>3. /\ rs' = WithClient(r, prov) /\ pc' = IF should THEN "keyValues" ELSE "ffRefresh"
      /\ job' = [NewJob EXCEPT !.prov = prov, !.cm = cm, !.ex = ex,
                               !.should = should, !.due = due]
  BY DEF ReconcileStart
<1>4. /\ job'.prov = prov /\ job'.cm = cm /\ job'.ex = ex /\ (job'.should <=> should)
      /\ ~job'.secPop /\ job'.todo = {} /\ job'.k8s = [n \in Names |-> None]
  <2> HIDE DEF ex, should, due
  <2> QED BY <1>3, Zenon DEF NewJob
<1>5. WithClient(r, prov) = [r EXCEPT !.client = client]
  BY <1>2 DEF WithClient
<1>6. rs'.k8s = r.k8s /\ rs'.gen = rs.gen /\ rs'.client = client
  <2> HIDE DEF r, client
  <2> QED BY <1>2, <1>3, <1>5 DEF State
<1>7. /\ pc' \in Running /\ pc' \in {"keyValues", "ffRefresh"}
      /\ pc' = "keyValues" <=> job'.should
  <2> HIDE DEF ex, should, r
  <2> QED BY <1>3, <1>4 DEF Running, Stages
<1>8. \A n \in Names : job'.k8s[n] = None
  BY <1>4
<1> QED BY <1>1, <1>4, <1>6, <1>7, <1>8

-----------------------------------------------------------------------------
(* Ownership *)

\* A job without reads.
LEMMA DroppedOwned == JobDropped => ReadsOwned'
BY DEF JobDropped, ReadsOwned, Owned

\* Nothing is owned or tracked in the beginning.
LEMMA InitOwner == Init => OwnerInv
BY DEF Init, OwnerInv, ReadsOwned, UidsPositive, UntrackedGone, Owned, NewJob, NewProvider,
   Running

\* A reconcile that ends has no reads.
LEMMA EndsOwner == OwnerInv /\ Ends => OwnerInv'
<1> SUFFICES ASSUME OwnerInv, Ends PROVE OwnerInv'
  OBVIOUS
<1>1. ReadsOwned'
  BY DroppedOwned DEF OwnerInv, Ends, ReadsOwned, Owned
<1> QED BY <1>1 DEF OwnerInv, Ends, UidsPositive, UntrackedGone, ProvKept

\* So has one that fails to make its clients.
LEMMA ClientManagerFailsOwner == OwnerInv /\ ClientManagerFails => OwnerInv'
<1> SUFFICES ASSUME OwnerInv, ClientManagerFails PROVE OwnerInv'
  OBVIOUS
<1>1. ReadsOwned' /\ pc' \notin Running /\ UNCHANGED prov
  BY ReturnDrops, DroppedOwned DEF ClientManagerFails
<1> QED BY <1>1 DEF OwnerInv, UidsPositive, UntrackedGone

\* A reconcile starts only with targets it owns, and has looked at what is tracked.
LEMMA StartOwner == TypeInv /\ OwnerInv /\ ReconcileStart => OwnerInv'
<1> SUFFICES ASSUME TypeInv, OwnerInv, ReconcileStart PROVE OwnerInv'
  OBVIOUS
<1> DEFINE ex == Collect(CollectedNames(prov))
           r  == ResetVersions(prov, ex)
<1>1. /\ prov \in Provider /\ prov # None /\ pc' \in Running
      /\ job'.prov = prov /\ job'.cm = cm /\ job'.ex = ex
      /\ rs'.k8s = r.k8s /\ UNCHANGED <<sec, rev, prov>>
  BY Started
<1>2. TypeOK /\ TargetsOwned
  BY DEF TypeInv, ReconcileStart
<1>3. ReadsOwned'
  BY <1>1, <1>2 DEF TargetsOwned, Collect, ReadsOwned, Owned
<1>4. UidsPositive'
  BY <1>1 DEF OwnerInv, UidsPositive
<1>5. UntrackedGone'
  <2> SUFFICES ASSUME NEW n \in Names, r.k8s[n] # None, ex[n] = None PROVE sec[n] = None
    BY <1>1 DEF UntrackedGone
  <2>1. prov.spec.secret # None /\ rs.k8s[n] # None
    BY <1>2, ResetMetadata
  <2>2. n \in CollectedNames(prov)
    BY <2>1 DEF CollectedNames, Present
  <2> QED BY <2>2 DEF Collect
<1> QED BY <1>3, <1>4, <1>5 DEF OwnerInv

\* Building settings keeps the reads.
LEMMA AdvancesOwner == OwnerInv /\ Advances => OwnerInv'
<1> SUFFICES ASSUME OwnerInv, Advances PROVE OwnerInv'
  OBVIOUS
<1>1. ReadsOwned'
  BY DEF OwnerInv, Advances, ReadsKept, ReadsOwned, Owned
<1>2. UidsPositive'
  BY DEF OwnerInv, Advances, ReadsKept, UidsPositive, BeforeWrites
<1>3. UntrackedGone'
  BY DEF OwnerInv, Advances, StateKept, ReadsKept, UntrackedGone, BeforeWrites
<1> QED BY <1>1, <1>2, <1>3 DEF OwnerInv

\* Secrets looked at later are owned too.
LEMMA VerifiesOwner == OwnerInv /\ Verifies => OwnerInv'
<1> SUFFICES ASSUME OwnerInv, Verifies PROVE OwnerInv'
  OBVIOUS
<1>0. pc \in Running /\ pc \in BeforeWrites
  BY DEF Verifies, Running, BeforeWrites, Stages
<1>1. \A n \in Names : job'.ex[n] = IF n \in Unverified THEN sec[n] ELSE job.ex[n]
  BY DEF Verifies
<1>2. ReadsOwned'
  BY <1>1 DEF OwnerInv, Verifies, ReadsOwned, Owned
<1>3. UidsPositive'
  BY <1>0 DEF OwnerInv, Verifies, UidsPositive
<1>4. UntrackedGone'
  <2> SUFFICES ASSUME NEW n \in Names, rs.k8s[n] # None, job'.ex[n] = None
               PROVE  sec[n] = None \/ sec[n].own # job.prov.uid
    BY DEF Verifies, StateKept, UntrackedGone
  <2> QED BY <1>0, <1>1 DEF OwnerInv, UntrackedGone
<1> QED BY <1>2, <1>3, <1>4 DEF OwnerInv

\* Writing concerns a Secret with metadata.
LEMMA WritesOwner ==
  ASSUME TypeInv, OwnerInv, NEW n \in Names, Writes(n)
  PROVE  OwnerInv'
<1>0. /\ pc = "secrets" /\ pc \in Running /\ pc \notin BeforeWrites /\ UNCHANGED prov
      /\ sec \in [Names -> Object(SecretData) \cup {None}]
      /\ job.k8s \in [Names -> Metadata \cup {None}]
  BY StageFacts DEF Writes, Running, BeforeWrites, Stages, TypeOK, Job
<1>1. CASE job.k8s[n] = None
  <2>1. pc' = "patch" /\ JobDropped
    BY <1>1 DEF Writes
  <2>2. pc' \notin Running
    BY <2>1 DEF Running
  <2> QED BY <1>0, <2>1, <2>2, DroppedOwned DEF OwnerInv, UidsPositive, UntrackedGone
<1>2. CASE job.k8s[n] # None
  <2>1. PICK v \in Nat :
          /\ sec' = sec \/ sec' = [sec EXCEPT ![n] = Written(sec[n], job.secs[n])]
          /\ pc' = pc /\ ReadsKept
          /\ job'.k8s = [job.k8s EXCEPT ![n].rv = v]
          /\ rs'.k8s = IF job.alias THEN job'.k8s ELSE rs.k8s
    BY <1>2 DEF Writes
  <2>2. \A m \in Names \ {n} : sec'[m] = sec[m] /\ job'.k8s[m] = job.k8s[m]
    BY <1>0, <2>1
  <2>3. job'.k8s[n] # None
    <3>1. job.k8s[n] \in Metadata
      BY <1>0, <1>2
    <3>2. job'.k8s[n] \in Metadata
      BY <1>0, <2>1, <3>1 DEF Metadata
    <3> QED BY <3>2, NoDataAssumption
  <2>4. \A m \in Names \ {n} : rs'.k8s[m] = rs.k8s[m]
    BY <2>1, <2>2 DEF TypeInv, StageOK
  <2>5. ReadsOwned'
    BY <2>1 DEF OwnerInv, ReadsKept, ReadsOwned, Owned
  <2>6. UidsPositive'
    BY <1>0, <2>1 DEF OwnerInv, ReadsKept, UidsPositive
  <2>7. UntrackedGone'
    BY <1>0, <2>1, <2>2, <2>3, <2>4 DEF OwnerInv, ReadsKept, UntrackedGone
  <2> QED BY <2>5, <2>6, <2>7 DEF OwnerInv
<1> QED BY <1>1, <1>2

\* A Secret that was deleted is gone.
LEMMA ExpelsOwner ==
  ASSUME TypeInv, OwnerInv, NEW n \in Names, Expels(n)
  PROVE  OwnerInv'
<1>0. /\ job.ex \in [Names -> Object(SecretData) \cup {None}]
      /\ sec \in [Names -> Object(SecretData) \cup {None}]
  BY StageFacts DEF TypeOK, Job
<1>1. /\ pc' = pc /\ job'.prov = job.prov /\ job'.cm = job.cm /\ UNCHANGED prov
      /\ job'.k8s = job.k8s /\ rs'.k8s = rs.k8s
      /\ job'.ex[n] = None /\ sec'[n] = None
      /\ \A m \in Names \ {n} : job'.ex[m] = job.ex[m] /\ sec'[m] = sec[m]
  BY <1>0 DEF Expels, SettingsKept, StateKept
<1>2. ReadsOwned'
  BY <1>1 DEF OwnerInv, ReadsOwned, Owned
<1>3. UidsPositive'
  BY <1>1 DEF OwnerInv, UidsPositive
<1>4. UntrackedGone'
  BY <1>1 DEF OwnerInv, UntrackedGone
<1> QED BY <1>2, <1>3, <1>4 DEF OwnerInv

\* A finished reconcile has no reads.
LEMMA FinishOwner == OwnerInv /\ Finish => OwnerInv'
<1> SUFFICES ASSUME OwnerInv, Finish PROVE OwnerInv'
  OBVIOUS
<1>1. ReadsOwned' /\ pc' \notin Running /\ UNCHANGED prov
  BY ReturnDrops, DroppedOwned DEF Finish
<1> QED BY <1>1 DEF OwnerInv, UidsPositive, UntrackedGone

\* What others do to a Secret.
LEMMA OthersSecrets ==
  ASSUME TypeInv, NEW n \in Names,
         EditSecret(n) \/ DeleteSecret(n) \/ CreateForeignSecret(n) \/ CollectSecret(n)
  PROVE  /\ \A m \in Names \ {n} : sec'[m] = sec[m]
         /\ sec'[n] # None =>
              /\ sec'[n].rv = rev + 1 /\ rev' = rev + 1
              /\ \/ sec'[n].own = 0 /\ sec'[n].stamp = 0
                 \/ /\ sec[n] # None
                    /\ sec'[n].own = sec[n].own /\ sec'[n].stamp = sec[n].stamp
<1>0. sec \in [Names -> Object(SecretData) \cup {None}]
  BY DEF TypeInv, TypeOK
<1>1. CASE DeleteSecret(n) \/ CollectSecret(n)
  BY <1>0, <1>1 DEF DeleteSecret, CollectSecret
<1>2. CASE CreateForeignSecret(n)
  BY <1>0, <1>2 DEF CreateForeignSecret
<1>3. CASE EditSecret(n)
  <2>1. sec[n] \in Object(SecretData) /\ rev' = rev + 1
    BY <1>0, <1>3 DEF EditSecret
  <2>2. /\ \A m \in Names \ {n} : sec'[m] = sec[m]
        /\ \E data : sec'[n] = [sec[n] EXCEPT !.rv = rev + 1, !.data = data]
    BY <1>0, <1>3 DEF EditSecret
  <2>3. /\ sec'[n].rv = rev + 1 /\ sec'[n].own = sec[n].own /\ sec'[n].stamp = sec[n].stamp
    BY <2>1, <2>2 DEF Object
  <2> QED BY <1>3, <2>1, <2>2, <2>3 DEF EditSecret
<1> QED BY <1>1, <1>2, <1>3

\* Others create no object that the provider owns.
LEMMA ElsewhereOwner == TypeInv /\ OwnerInv /\ Elsewhere => OwnerInv'
<1> SUFFICES ASSUME TypeInv, OwnerInv, Elsewhere PROVE OwnerInv'
  OBVIOUS
<1>1. UNCHANGED <<pc, job>> /\ rs'.k8s = rs.k8s
  BY DEF Elsewhere, StateKept
<1>2. ReadsOwned'
  BY <1>1 DEF OwnerInv, ReadsOwned, Owned
<1>3. UidsPositive'
  <2>1. CASE ProvKept
    BY <1>1, <2>1 DEF OwnerInv, UidsPositive, ProvKept
  <2>2. CASE ~ ProvKept
    <3>1. PICK spec \in Specs : UpdateSpec(spec) \/ CreateProvider(spec)
      BY <2>2, SameProv DEF Elsewhere
    <3>2. CASE UpdateSpec(spec)
      <4>1. prov \in Provider /\ prov' = [prov EXCEPT !.spec = spec, !.gen = prov.gen + 1]
        BY <3>2 DEF UpdateSpec, TypeInv, TypeOK
      <4>2. prov'.uid = prov.uid
        BY <4>1 DEF Provider
      <4> QED BY <1>1, <3>2, <4>2 DEF OwnerInv, UidsPositive, UpdateSpec
    <3>3. CASE CreateProvider(spec)
      <4>1. prov'.uid = rev + 1 /\ rev + 1 > 0
        BY <3>3, StageFacts DEF CreateProvider, NewProvider
      <4> QED BY <1>1, <4>1 DEF OwnerInv, UidsPositive
    <3> QED BY <3>1, <3>2, <3>3
  <2> QED BY <2>1, <2>2
<1>4. UntrackedGone'
  <2>1. CASE UNCHANGED sec
    BY <1>1, <2>1 DEF OwnerInv, UntrackedGone
  <2>2. CASE ~ UNCHANGED sec
    <3>1. PICK n \in Names : EditSecret(n) \/ DeleteSecret(n) \/ CreateForeignSecret(n)
                             \/ CollectSecret(n)
      BY <2>2 DEF Elsewhere
    <3>2. pc \in Running => job.prov.uid > 0
      BY DEF OwnerInv, UidsPositive
    <3>3. pc \in Running => job.prov.uid # 0
      BY <3>2
    <3> QED BY <1>1, <3>1, <3>3, OthersSecrets DEF OwnerInv, UntrackedGone
  <2> QED BY <2>1, <2>2
<1> QED BY <1>2, <1>3, <1>4 DEF OwnerInv

\* Every step keeps the invariant of ownership.
LEMMA StepOwner == TypeInv /\ OwnerInv /\ [Next]_vars => OwnerInv'
BY StepDescribed, EndsOwner, ClientManagerFailsOwner, StartOwner, AdvancesOwner,
   VerifiesOwner, WritesOwner, ExpelsOwner, FinishOwner, ElsewhereOwner DEF Described

\* The invariant of ownership always holds.
LEMMA AlwaysOwner == Spec => []OwnerInv
BY AlwaysTypeInv, InitOwner, StepOwner, PTL DEF Spec

\* For every number of Secrets, faults, crashes and re-creations: an object that a
\* reconcile overwrites or deletes was the provider's, or absent, when it looked.
THEOREM OwnershipIsRespected == Spec => OwnershipRespected
<1>1. OwnerInv /\ [Next]_vars =>
        [/\ /\ cm # None /\ cm' # None /\ cm'.stamp # cm.stamp
            /\ ~Owned(cm, job.prov)
            => Owned(job.cm, job.prov)
         /\ \A n \in Names :
              /\ sec[n] # None
              /\ \/ sec'[n] # None /\ sec'[n].stamp # sec[n].stamp
                 \/ sec'[n] = None /\ ExpelSecret(n)
              /\ ~Owned(sec[n], job.prov)
              => Owned(job.ex[n], job.prov)]_vars
  BY DEF OwnerInv, ReadsOwned
<1> QED BY <1>1, AlwaysOwner, PTL DEF Spec, OwnershipRespected

-----------------------------------------------------------------------------
(* The generation tells the spec *)

\* Only CreateProvider spends the budget of re-creations.
LEMMA SpendsKinds ==
  ASSUME TypeOK, left["create"] = 0, NEW kind \in Kinds, Spend(kind)
  PROVE  left'["create"] = 0
<1>1. left \in [Kinds -> Nat] /\ "create" \in Kinds
  BY DEF TypeOK, Kinds
<1>2. kind # "create"
  BY DEF Spend
<1> QED BY <1>1, <1>2 DEF Spend

\* Without a budget no step creates the provider again.
LEMMA CreateSpent ==
  ASSUME TypeInv, left["create"] = 0, [Next]_vars
  PROVE  left'["create"] = 0
<1>0. /\ TypeOK
      /\ {"keyValue", "flag", "sentinel", "vault", "edit", "foreign", "spec", "annotation",
          "delete", "create", "fault", "panic", "crash"} \subseteq Kinds
  BY DEF TypeInv, Kinds
<1>1. CASE Reconcile
  <2>1. left' = left \/ \E kind \in {"fault", "panic"} : Spend(kind)
    <3>1. GetSettingsFails \/ WriteFails => Spend("fault")
      BY DEF GetSettingsFails, WriteFails
    <3>2. CASE \/ ReconcileNotFound \/ GetProviderFails \/ ReconcileRunning
               \/ ReconcileInvalid \/ ReconcileConflict \/ ClientManagerFails
               \/ ReconcileStart \/ SettingsPanic \/ PatchStatus \/ Finish
      BY <3>2 DEF ReconcileNotFound, GetProviderFails, ReconcileRunning, ReconcileInvalid,
         ReconcileConflict, ClientManagerFails, ReconcileStart, SettingsPanic, PatchStatus,
         Finish
    <3>3. CASE \/ CreateKeyValueSettings \/ InitializeSentinels \/ GetFeatureFlagSettings
               \/ ProcessFeatureFlagRefresh \/ ProcessKeyValueRefresh
               \/ RefreshKeyValueSettings \/ ProcessSecretReferenceRefresh
      BY <3>1, <3>3 DEF CreateKeyValueSettings, InitializeSentinels, GetFeatureFlagSettings,
         ProcessFeatureFlagRefresh, ProcessKeyValueRefresh, RefreshKeyValueSettings,
         ProcessSecretReferenceRefresh, UnexpectedReferenceFails, RefreshNotNeeded
    <3>4. CASE CreateOrUpdateConfigMap \/ VerifySecrets
      BY <3>1, <3>4 DEF CreateOrUpdateConfigMap, VerifySecrets
    <3>5. CASE \E n \in Names : CreateOrUpdateSecret(n) \/ ExpelSecret(n)
      BY <3>1, <3>5 DEF CreateOrUpdateSecret, ExpelSecret
    <3> QED BY <1>1, <3>2, <3>3, <3>4, <3>5 DEF Reconcile
  <2> QED BY <1>0, <2>1, SpendsKinds
<1>2. CASE Background
  BY <1>2 DEF Background, RequeueFires, Tick, CollectConfigMap, CollectSecret
<1>3. CASE Outside
  <2>1. \E kind \in {"keyValue", "flag", "sentinel", "vault", "edit", "foreign", "spec",
                     "annotation", "delete", "create", "crash"} : Spend(kind)
    BY <1>3 DEF Outside, ChangeKeyValues, ChangeFlags, ChangeSentinel, RotateVault,
       EditConfigMap, DeleteConfigMap, EditSecret, DeleteSecret, CreateForeignConfigMap,
       CreateForeignSecret, UpdateSpec, UpdateAnnotations, DeleteProvider, CreateProvider,
       Crash
  <2> QED BY <1>0, <2>1, SpendsKinds
<1>4. CASE UNCHANGED vars
  BY <1>4 DEF vars
<1> QED BY <1>1, <1>2, <1>3, <1>4 DEF Next

\* What stays of a provider that is not created again.
LEMMA ProviderSteps ==
  ASSUME TypeInv, left["create"] = 0, Elsewhere, prov' # None
  PROVE  /\ prov # None /\ prov \in Provider
         /\ \/ prov'.gen = prov.gen /\ prov'.spec = prov.spec
            \/ prov'.gen = prov.gen + 1
<1>0. prov # None => prov \in Provider
  BY DEF TypeInv, TypeOK
<1>1. CASE ProvKept
  BY <1>0, <1>1 DEF ProvKept
<1>2. CASE ~ ProvKept
  <2>1. PICK spec \in Specs : UpdateSpec(spec) \/ CreateProvider(spec)
    BY <1>2, SameProv DEF Elsewhere
  <2>2. ~ CreateProvider(spec)
    BY DEF CreateProvider, Spend
  <2>3. prov # None /\ prov' = [prov EXCEPT !.spec = spec, !.gen = prov.gen + 1]
    BY <2>1, <2>2 DEF UpdateSpec
  <2> QED BY <1>0, <2>3 DEF Provider
<1> QED BY <1>1, <1>2

\* A reconcile that goes on works on the object it has read.
GoesOn == /\ pc' \in Running /\ pc \in Running
          /\ job'.prov = job.prov /\ rs'.client = rs.client /\ rs'.gen = rs.gen
          /\ UNCHANGED prov

\* These steps go on with the reconcile.
LEMMA Continues ==
  ASSUME Advances \/ Verifies \/ \E n \in Names : Expels(n) \/ (Writes(n) /\ pc' # "patch")
  PROVE  GoesOn
<1>1. {"verify", "secrets"} \subseteq Running /\ BeforeWrites \subseteq Running
  BY DEF Running, BeforeWrites, Stages
<1>2. CASE Advances
  BY <1>1, <1>2 DEF Advances, ReadsKept, StateKept, GoesOn
<1>3. CASE Verifies
  BY <1>1, <1>3 DEF Verifies, StateKept, GoesOn
<1>4. CASE \E n \in Names : Expels(n)
  BY <1>1, <1>4 DEF Expels, StateKept, GoesOn
<1>5. CASE \E n \in Names : Writes(n) /\ pc' # "patch"
  BY <1>1, <1>5 DEF Writes, ReadsKept, GoesOn
<1> QED BY <1>2, <1>3, <1>4, <1>5

\* A write without metadata ends the reconcile.
LEMMA WritePanics ==
  ASSUME NEW n \in Names, Writes(n), pc' = "patch"
  PROVE  pc' \notin Running /\ StateKept /\ UNCHANGED prov
BY DEF Writes, Running

\* ClientManagerFails drops the job and keeps the generation and the client.
LEMMA ClientManagerFailed ==
  ASSUME TypeInv, ClientManagerFails
  PROVE  /\ pc' \notin Running /\ JobDropped /\ UNCHANGED <<sec, rev, prov>>
         /\ rs' = ResetVersions(prov, Collect(CollectedNames(prov)))
         /\ rs'.gen = rs.gen /\ rs'.client = rs.client
BY ResetVersionsType, ReturnDrops DEF ClientManagerFails, TypeInv, cluster

\* What Finish leaves behind.
LEMMA Finished ==
  ASSUME TypeInv, Finish
  PROVE  /\ pc = "secrets" /\ pc \in Running /\ pc' \notin Running /\ JobDropped
         /\ UNCHANGED <<sec, rev, prov>>
         /\ job.prov \in Provider
BY ReturnDrops DEF Finish, Running, Stages, cluster, TypeInv, StageOK

\* The generation goes up with every change of the spec.
LEMMA GenerationsStep ==
  ASSUME TypeInv, GenerationsTell, [Next]_vars
  PROVE  GenerationsTell'
<1>0. /\ left["create"] = 0 /\ left'["create"] = 0 /\ rs \in State
      /\ prov # None => prov \in Provider
      /\ pc \in Running => job.prov \in Provider
  BY CreateSpent, StageFacts DEF GenerationsTell, TypeInv, TypeOK, StageOK, Running
<1>1. CASE Ends
  <2>1. pc' \notin Running /\ ProvKept /\ (rs'.gen = rs.gen \/ rs'.gen = 0)
    BY <1>1 DEF Ends, StateKept, NewState
  <2> QED BY <1>0, <2>1 DEF GenerationsTell, ProvKept, Provider
<1>2. CASE ClientManagerFails
  BY <1>0, <1>2, ClientManagerFailed DEF GenerationsTell
<1>3. CASE ReconcileStart
  <2>1. /\ prov # None /\ prov \in Provider /\ job'.prov = prov /\ rs'.gen = rs.gen
        /\ UNCHANGED prov
    BY <1>3, Started
  <2> QED BY <1>0, <2>1 DEF GenerationsTell, Provider
<1>4. CASE GoesOn
  BY <1>0, <1>4 DEF GoesOn, GenerationsTell
<1>5. CASE \E n \in Names : Writes(n) /\ pc' = "patch"
  BY <1>0, <1>5, WritePanics DEF GenerationsTell, StateKept
<1>6. CASE Finish
  <2>1. rs'.gen = job.prov.gen /\ UNCHANGED prov /\ pc \in Running /\ pc' \notin Running
    BY <1>6, Finished, FinishedState
  <2> QED BY <1>0, <2>1 DEF GenerationsTell
<1>7. CASE Elsewhere
  <2>1. UNCHANGED <<pc, job>> /\ rs'.gen = rs.gen
    BY <1>7 DEF Elsewhere, StateKept
  <2> SUFFICES ASSUME prov' # None
               PROVE  /\ prov'.gen > 0 /\ rs.gen <= prov'.gen
                      /\ pc \in Running => /\ job.prov.gen <= prov'.gen
                                           /\ job.prov.gen = prov'.gen => job.prov.spec = prov'.spec
    BY <1>0, <2>1 DEF GenerationsTell
  <2>2. /\ prov # None /\ prov \in Provider
        /\ \/ prov'.gen = prov.gen /\ prov'.spec = prov.spec
           \/ prov'.gen = prov.gen + 1
    BY <1>0, <1>7, ProviderSteps
  <2>3. prov.gen \in Nat /\ rs.gen \in Nat /\ (pc \in Running => job.prov.gen \in Nat)
    BY <1>0, <2>2 DEF Provider, State
  <2> QED BY <2>2, <2>3 DEF GenerationsTell
<1> QED BY <1>1, <1>2, <1>3, <1>4, <1>5, <1>6, <1>7, StepDescribed, Continues DEF Described

\* A new ClientManager is made whenever the generation has changed.
LEMMA ClientStep ==
  ASSUME TypeInv, GenerationsTell, ClientCurrent, [Next]_vars
  PROVE  ClientCurrent'
<1>0. /\ left["create"] = 0 /\ rs \in State
      /\ prov # None => prov \in Provider
  BY StageFacts DEF GenerationsTell, TypeInv, TypeOK
<1>1. CASE Ends
  BY <1>1 DEF Ends, StateKept, NewState, ClientCurrent, ProvKept
<1>2. CASE ClientManagerFails
  BY <1>2, ClientManagerFailed DEF ClientCurrent
<1>3. CASE ReconcileStart
  <2> DEFINE r == ResetVersions(prov, Collect(CollectedNames(prov)))
  <2>1. /\ prov # None /\ job'.prov = prov /\ rs'.gen = rs.gen /\ UNCHANGED prov
        /\ rs'.client = IF NeedsClient(r, prov) THEN prov.spec.endpoint ELSE rs.client
    BY <1>3, Started
  <2>2. r.gen = rs.gen /\ r.client = rs.client
    BY ResetVersionsType DEF TypeInv
  <2> HIDE DEF r
  <2>3. rs'.client = prov.spec.endpoint
    BY <2>1, <2>2 DEF ClientCurrent, NeedsClient
  <2> QED BY <2>1, <2>3 DEF ClientCurrent
<1>4. CASE GoesOn
  BY <1>4 DEF GoesOn, ClientCurrent
<1>5. CASE \E n \in Names : Writes(n) /\ pc' = "patch"
  BY <1>5, WritePanics DEF ClientCurrent, StateKept
<1>6. CASE Finish
  <2>1. /\ rs'.gen = job.prov.gen /\ rs'.client = rs.client /\ UNCHANGED prov
        /\ pc \in Running /\ pc' \notin Running
    BY <1>6, Finished, FinishedState
  <2> QED BY <2>1 DEF ClientCurrent, GenerationsTell
<1>7. CASE Elsewhere
  <2>1. UNCHANGED <<pc, job>> /\ rs'.gen = rs.gen /\ rs'.client = rs.client
    BY <1>7 DEF Elsewhere, StateKept
  <2>2. ASSUME prov' # None, rs.client # None, rs.gen = prov'.gen
        PROVE  rs.client = prov'.spec.endpoint
    <3>1. /\ prov # None /\ prov \in Provider
          /\ \/ prov'.gen = prov.gen /\ prov'.spec = prov.spec
             \/ prov'.gen = prov.gen + 1
      BY <1>0, <1>7, <2>2, ProviderSteps
    <3>2. prov.gen \in Nat /\ rs.gen \in Nat /\ rs.gen <= prov.gen
      BY <1>0, <3>1 DEF Provider, State, GenerationsTell
    <3> QED BY <2>2, <3>1, <3>2 DEF ClientCurrent
  <2> QED BY <2>1, <2>2 DEF ClientCurrent
<1> QED BY <1>1, <1>2, <1>3, <1>4, <1>5, <1>6, <1>7, StepDescribed, Continues DEF Described

\* Resetting a version keeps the entry.
LEMMA ResetKeeps ==
  ASSUME TypeOK, NEW p, NEW ex, NEW n \in Names, p.spec.secret # None
  PROVE  ResetVersions(p, ex).k8s[n] # None <=> rs.k8s[n] # None
<1>1. rs.k8s[n] # None => rs.k8s[n] \in Metadata
  BY DEF TypeOK, State
<1>2. rs.k8s[n] # None => [rs.k8s[n] EXCEPT !.rv = 0] \in Metadata
  BY <1>1 DEF Metadata
<1>3. ResetVersions(p, ex).k8s[n] = IF rs.k8s[n] = None THEN None
                                    ELSE IF ex[n] = None THEN [rs.k8s[n] EXCEPT !.rv = 0]
                                    ELSE rs.k8s[n]
  BY ResetMetadata
<1>4. None \notin Metadata
  BY NoDataAssumption
<1> QED BY <1>1, <1>2, <1>3, <1>4

\* Recording a version keeps the entries.
LEMMA RecordingKeeps ==
  ASSUME TypeInv, NEW n \in Names, Writes(n), pc' # "patch"
  PROVE  \A m \in Names : /\ job'.k8s[m] # None <=> job.k8s[m] # None
                          /\ rs'.k8s[m] # None <=> rs.k8s[m] # None
<1>0. job.k8s \in [Names -> Metadata \cup {None}] /\ rs.k8s \in [Names -> Metadata \cup {None}]
  BY StageFacts DEF Job, State
<1>1. PICK v \in Nat : /\ job.k8s[n] # None
                       /\ job'.k8s = [job.k8s EXCEPT ![n].rv = v]
                       /\ rs'.k8s = IF job.alias THEN job'.k8s ELSE rs.k8s
  BY DEF Writes
<1>2. job.k8s[n] \in Metadata
  BY <1>0, <1>1
<1>3. job'.k8s[n] \in Metadata
  BY <1>0, <1>1, <1>2 DEF Metadata
<1>4. \A m \in Names : job'.k8s[m] # None <=> job.k8s[m] # None
  BY <1>0, <1>1, <1>3, NoDataAssumption
<1> QED BY <1>1, <1>4 DEF TypeInv, StageOK

\* The steps of a reconcile between its start and the writes of the Secrets, and those
\* that refuse or give up, leave the record alone.
LEMMA RecordKept ==
  ASSUME TypeInv,
         \/ GetProviderFails \/ ReconcileRunning \/ ReconcileInvalid \/ ReconcileConflict
         \/ CreateKeyValueSettings \/ InitializeSentinels \/ GetFeatureFlagSettings
         \/ ProcessFeatureFlagRefresh \/ ProcessKeyValueRefresh \/ RefreshKeyValueSettings
         \/ ProcessSecretReferenceRefresh \/ SettingsPanic \/ CreateOrUpdateConfigMap
         \/ VerifySecrets \/ PatchStatus \/ WriteFails
         \/ \E n \in Names : ExpelSecret(n)
  PROVE  rs'.k8s = rs.k8s
<1>1. CASE \/ GetProviderFails \/ ReconcileRunning \/ ReconcileInvalid \/ ReconcileConflict
           \/ CreateKeyValueSettings \/ InitializeSentinels \/ GetFeatureFlagSettings
           \/ SettingsPanic \/ VerifySecrets \/ PatchStatus \/ WriteFails
           \/ \E n \in Names : ExpelSecret(n)
  BY <1>1 DEF GetProviderFails, ReconcileRunning, ReconcileInvalid, ReconcileConflict,
     CreateKeyValueSettings, InitializeSentinels, GetFeatureFlagSettings, SettingsPanic,
     VerifySecrets, PatchStatus, WriteFails, ExpelSecret, GetSettingsFails,
     UnexpectedReferenceFails
<1>2. CASE \/ ProcessFeatureFlagRefresh \/ ProcessKeyValueRefresh \/ RefreshKeyValueSettings
           \/ ProcessSecretReferenceRefresh
  <2>1. \/ UNCHANGED rs
        \/ \E timer \in Timers : rs' = Arm(timer) \/ rs' = Disarm(timer)
    BY <1>2 DEF ProcessFeatureFlagRefresh, ProcessKeyValueRefresh, RefreshKeyValueSettings,
       ProcessSecretReferenceRefresh, RefreshNotNeeded, GetSettingsFails,
       UnexpectedReferenceFails, Timers
  <2> QED BY <2>1, ArmType DEF TypeInv
<1>3. CASE CreateOrUpdateConfigMap
  <2>1. \/ UNCHANGED rs
        \/ \E v : rs' = [rs EXCEPT !.cmrv = v]
    BY <1>3 DEF CreateOrUpdateConfigMap, WriteFails
  <2> QED BY <2>1, StageFacts DEF State
<1> QED BY <1>1, <1>2, <1>3

\* No Secret of the provider is forgotten before it is gone, for every spec that has a
\* secret section, every number of Secrets and every order of edits, deletions,
\* faults and crashes.
THEOREM ForgottenSecretsAreGone == Spec => ForgottenIsGone
<1>1. ASSUME TypeInv, OwnerInv, NEW n \in Names, rs.k8s[n] # None, rs'.k8s[n] = None,
             Reconcile, Reconciled # None, Reconciled.spec.secret # None
      PROVE  sec[n] = None \/ sec[n].own # Reconciled.uid
  <2>1. CASE Finish
    <3>1. rs'.k8s = IF job.secPop THEN job.k8s ELSE rs.k8s
      BY <2>1, <1>1, FinishedState
    <3>2. job.secPop /\ job.k8s[n] = None
      BY <1>1, <3>1
    <3>3. job.ex[n] = None
      BY <1>1, <2>1, <3>2 DEF Finish, Removed, Present
    <3>4. pc \in Running /\ Reconciled = job.prov
      BY <2>1 DEF Finish, Running, Stages, Reconciled
    <3> QED BY <1>1, <3>2, <3>3, <3>4 DEF OwnerInv, UntrackedGone
  <2>2. ~ (ReconcileStart \/ ClientManagerFails)
    <3> SUFFICES ASSUME ReconcileStart \/ ClientManagerFails PROVE FALSE
      OBVIOUS
    <3>1. rs'.k8s = ResetVersions(prov, Collect(CollectedNames(prov))).k8s
      BY <1>1, Started DEF ClientManagerFails
    <3>2. prov.spec.secret # None
      BY <1>1 DEF ReconcileStart, ClientManagerFails, Dequeue, Reconciled
    <3> QED BY <1>1, <3>1, <3>2, ResetKeeps DEF TypeInv
  <2>3. ~ ReconcileNotFound
    BY <1>1 DEF ReconcileNotFound, Dequeue, Reconciled
  <2>4. ASSUME NEW m \in Names, CreateOrUpdateSecret(m) PROVE FALSE
    <3>1. CASE WriteFails
      BY <1>1, <3>1, RecordKept
    <3>2. CASE ~ WriteFails
      <4>1. PICK v \in Nat : SetSecretVersion(m, v)
        <5>1. ~ ShouldWriteSecret(m) => job.ex[m].rv \in Nat
          BY <1>1, StageFacts DEF ShouldWriteSecret, Job, Object
        <5>2. rev + 1 \in Nat
          BY <1>1, StageFacts
        <5> QED BY <2>4, <3>2, <5>1, <5>2 DEF CreateOrUpdateSecret
      <4>2. CASE job.k8s[m] = None
        BY <1>1, <4>1, <4>2 DEF SetSecretVersion
      <4>3. CASE job.k8s[m] # None
        <5>1. pc = "secrets" /\ pc' = pc
          BY <2>4, <4>1, <4>3 DEF CreateOrUpdateSecret, SetSecretVersion
        <5>2. Writes(m)
          BY <1>1, <2>4, <5>1, CreateOrUpdateSecretWrites DEF Ends, Running, Stages
        <5> QED BY <1>1, <5>1, <5>2, RecordingKeeps
      <4> QED BY <4>2, <4>3
    <3> QED BY <3>1, <3>2
  <2> QED BY <1>1, <2>1, <2>2, <2>3, <2>4, RecordKept DEF Reconcile
<1>2. TypeInv /\ OwnerInv /\ [Next]_vars =>
        [\A n \in Names :
           /\ rs.k8s[n] # None
           /\ rs'.k8s[n] = None
           /\ Reconcile
           /\ Reconciled # None
           /\ Reconciled.spec.secret # None
           => sec[n] = None \/ sec[n].own # Reconciled.uid]_vars
  BY <1>1
<1> QED BY <1>2, AlwaysTypeInv, AlwaysOwner, PTL DEF Spec, ForgottenIsGone

\* A spec's target is a name.
LEMMA TargetsAreNames ==
  ASSUME TypeInv
  PROVE  /\ prov # None /\ prov.spec.secret # None => prov.spec.secret \in Names
         /\ pc \in Running /\ job.prov.spec.secret # None => job.prov.spec.secret \in Names
BY SpecsAssumption DEF TypeInv, TypeOK, StageOK, Provider, ProviderSpec, Running

\* A generation is recorded only after its target Secret was tracked.
LEMMA TargetStep ==
  ASSUME TypeInv, SpecInv, [Next]_vars
  PROVE  TargetTracked'
<1>0. /\ left["create"] = 0 /\ rs \in State /\ TypeOK
      /\ prov # None => prov \in Provider /\ prov.gen > 0
      /\ prov # None /\ prov.spec.secret # None => prov.spec.secret \in Names
  BY StageFacts, TargetsAreNames DEF SpecInv, GenerationsTell, TypeInv, TypeOK
<1>1. CASE Ends
  <2>1. CASE StateKept
    BY <1>1, <2>1 DEF Ends, StateKept, SpecInv, TargetTracked, ProvKept
  <2>2. CASE rs' = NewState
    <3>1. rs'.gen = 0 /\ ProvKept
      BY <1>1, <2>2 DEF NewState, Ends
    <3> QED BY <1>0, <3>1 DEF TargetTracked, ProvKept
  <2> QED BY <1>1, <2>1, <2>2 DEF Ends
<1>2. ASSUME rs'.gen = rs.gen, UNCHANGED prov,
             rs'.k8s = ResetVersions(prov, Collect(CollectedNames(prov))).k8s
      PROVE  TargetTracked'
  BY <1>0, <1>2, ResetKeeps DEF TargetTracked, SpecInv
<1>3. CASE ClientManagerFails
  BY <1>2, <1>3, ClientManagerFailed
<1>4. CASE ReconcileStart
  BY <1>2, <1>4, Started
<1>5. CASE Advances \/ Verifies \/ \E n \in Names : Expels(n)
  BY <1>5 DEF Advances, Verifies, Expels, StateKept, SpecInv, TargetTracked
<1>6. CASE \E n \in Names : Writes(n) /\ pc' = "patch"
  BY <1>6, WritePanics DEF StateKept, SpecInv, TargetTracked
<1>7. CASE \E n \in Names : Writes(n) /\ pc' # "patch"
  <2>1. GoesOn
    BY <1>7, Continues
  <2> QED BY <1>0, <1>7, <2>1, RecordingKeeps DEF GoesOn, SpecInv, TargetTracked
<1>8. CASE Finish
  <2>1. /\ rs'.gen = job.prov.gen /\ UNCHANGED prov /\ pc = "secrets" /\ pc \in Running
        /\ rs'.k8s = IF job.secPop THEN job.k8s ELSE rs.k8s
    BY <1>8, Finished, FinishedState
  <2> SUFFICES ASSUME prov # None, job.prov.gen = prov.gen, prov.spec.secret # None
               PROVE  rs'.k8s[prov.spec.secret] # None
    BY <2>1 DEF TargetTracked
  <2>2. job.prov.spec = prov.spec
    BY <2>1 DEF SpecInv, GenerationsTell
  <2>3. /\ job.secPop => job.k8s[prov.spec.secret] # None
        /\ ~job.secPop => rs.k8s[prov.spec.secret] # None
    BY <2>1, <2>2 DEF SpecInv, JobTracked
  <2> QED BY <2>1, <2>3
<1>9. CASE Elsewhere
  <2>1. rs'.gen = rs.gen /\ rs'.k8s = rs.k8s
    BY <1>9 DEF Elsewhere, StateKept
  <2> SUFFICES ASSUME prov' # None, rs.gen = prov'.gen, prov'.spec.secret # None
               PROVE  rs.k8s[prov'.spec.secret] # None
    BY <2>1 DEF TargetTracked
  <2>2. /\ prov # None /\ prov \in Provider
        /\ \/ prov'.gen = prov.gen /\ prov'.spec = prov.spec
           \/ prov'.gen = prov.gen + 1
    BY <1>0, <1>9, ProviderSteps
  <2>3. prov.gen \in Nat /\ rs.gen \in Nat /\ rs.gen <= prov.gen
    BY <1>0, <2>2 DEF Provider, State, SpecInv, GenerationsTell
  <2> QED BY <2>2, <2>3 DEF SpecInv, TargetTracked
<1> QED BY <1>1, <1>3, <1>4, <1>5, <1>6, <1>7, <1>8, <1>9, StepDescribed DEF Described

\* The Secrets a reconcile starts with are the target and the tracked ones.
LEMMA StartTracked == TypeInv /\ SpecInv /\ ReconcileStart => JobTracked'
<1> SUFFICES ASSUME TypeInv, SpecInv, ReconcileStart PROVE JobTracked'
  OBVIOUS
<1> DEFINE ex == Collect(CollectedNames(prov))
           r  == ResetVersions(prov, ex)
<1>1. /\ prov \in Provider /\ prov # None /\ pc' \in {"keyValues", "ffRefresh"}
      /\ job'.prov = prov /\ job'.ex = ex /\ UNCHANGED prov
      /\ job'.should <=> ShouldReconcile(r, prov, cm, ex)
      /\ pc' = "keyValues" <=> job'.should
      /\ ~job'.secPop /\ job'.todo = {} /\ rs'.k8s = r.k8s
  BY Started
<1>2. TypeOK /\ r.gen = rs.gen
  BY ResetVersionsType DEF TypeInv
<1>3. ~job'.should => prov.gen = rs.gen
  BY <1>1, <1>2 DEF ShouldReconcile
<1>4. prov.spec.secret # None => prov.spec.secret \in Names
  BY <1>1, TargetsAreNames
<1>5. ASSUME prov.spec.secret # None, ~job'.should PROVE rs'.k8s[prov.spec.secret] # None
  <2>1. rs.k8s[prov.spec.secret] # None
    BY <1>1, <1>3, <1>5 DEF SpecInv, TargetTracked
  <2> QED BY <1>1, <1>2, <1>4, <1>5, <2>1, ResetKeeps
<1>6. ASSUME NEW n \in Names, ex[n] # None, n # prov.spec.secret PROVE rs'.k8s[n] # None
  <2>1. n \in CollectedNames(prov)
    BY <1>6 DEF Collect
  <2>2. prov.spec.secret # None /\ rs.k8s[n] # None
    BY <1>6, <2>1 DEF CollectedNames, Present
  <2> QED BY <1>1, <1>2, <2>2, ResetKeeps
<1> HIDE DEF ex, r
<1> QED BY <1>1, <1>5, <1>6 DEF JobTracked

\* The content of a store has its type.
LEMMA FetchedFacts ==
  ASSUME TypeInv, rs.client \in Endpoints, NEW n \in Names
  PROVE  /\ KeyValues(rs.client) \in Content /\ KeyValues(rs.client) # None
         /\ FetchedSecrets[n] # None <=> n \in FetchedNames
         /\ FetchedMetadata[n] # None <=> n \in FetchedNames
         /\ n \in FetchedNames =>
              /\ FetchedSecrets[n].keyValue = KeyValues(rs.client)
              /\ FetchedMetadata[n].ref = KeyValues(rs.client)
              /\ FetchedMetadata[n].rv = 0
<1>1. KeyValues(rs.client) \in Content /\ vault \in Nat
  BY DEF KeyValues, Content, TypeInv, TypeOK
<1>2. /\ [keyValue |-> KeyValues(rs.client), vault |-> vault] \in SecretData
      /\ [ref |-> KeyValues(rs.client), rv |-> 0] \in Metadata
  BY <1>1 DEF SecretData, Metadata
<1>3. None \notin Content \cup SecretData \cup Metadata
  BY NoDataAssumption
<1> QED BY <1>1, <1>2, <1>3 DEF FetchedSecrets, FetchedMetadata

\* Fetched and resolved Secrets come with metadata.
LEMMA AdvancesTracked == TypeInv /\ SpecInv /\ Advances => JobTracked'
<1> SUFFICES ASSUME TypeInv, SpecInv, Advances PROVE JobTracked'
  OBVIOUS
<1>0. /\ pc \in Running /\ pc \in BeforeWrites /\ pc # "secrets" /\ job.todo = {}
      /\ job'.prov = job.prov /\ job'.ex = job.ex /\ job'.should = job.should
      /\ rs'.k8s = rs.k8s /\ pc' # "keyValues" /\ pc' \in Running
      /\ pc' = "verify" => job'.secPop
      /\ job.prov.spec.secret # None => job.prov.spec.secret \in Names
  BY TargetsAreNames DEF Advances, ReadsKept, StateKept, BeforeWrites, TypeInv, StageOK
<1>1. CASE pc # "keyValues" /\ SettingsKept
  BY <1>0, <1>1 DEF SettingsKept, SpecInv, JobTracked
<1>2. CASE Fetches
  <2>1. /\ job'.secPop <=> job.prov.spec.secret # None
        /\ job'.secs = FetchedSecrets /\ job'.k8s = FetchedMetadata /\ job'.todo = {}
        /\ \A n \in Names : FetchedSecrets[n] # None <=> FetchedMetadata[n] # None
        /\ job.prov.spec.secret # None => FetchedMetadata[job.prov.spec.secret] # None
    BY <1>0, <1>2, FetchedFacts DEF Fetches, FetchedNames
  <2> QED BY <1>0, <2>1 DEF SpecInv, JobTracked
<1>3. CASE Resolves
  <2>1. /\ pc = "secretRefresh" /\ job.prov.spec.secret # None /\ ~job.secPop /\ job'.secPop
        /\ job'.k8s = rs.k8s /\ job'.todo = {}
        /\ \A n \in Names : job'.secs[n] # None => job.ex[n] # None
    BY <1>0, <1>3 DEF Resolves
  <2>2. ~job.should /\ rs.k8s[job.prov.spec.secret] # None
    BY <1>0, <2>1 DEF SpecInv, JobTracked
  <2> QED BY <1>0, <2>1, <2>2 DEF SpecInv, JobTracked
<1> QED BY <1>1, <1>2, <1>3 DEF Advances

\* Writing and deleting keep the entries of the metadata.
LEMMA WritingTracked ==
  ASSUME TypeInv, SpecInv, GoesOn, Verifies \/ \E n \in Names : Expels(n) \/ Writes(n)
  PROVE  JobTracked'
<1>0. /\ pc \in Running /\ pc' = "secrets" /\ pc' \notin BeforeWrites
      /\ job'.prov = job.prov /\ pc' # "patch" /\ pc # "keyValues"
      /\ job.prov.spec.secret # None => job.prov.spec.secret \in Names
      /\ job'.secs = job.secs /\ job'.secPop = job.secPop /\ job'.should = job.should
  <2>1. /\ pc \in Running /\ pc' # "patch" /\ job'.prov = job.prov
        /\ job.prov.spec.secret # None => job.prov.spec.secret \in Names
    BY TargetsAreNames DEF GoesOn, Running
  <2>2. "secrets" \notin BeforeWrites
    BY DEF BeforeWrites
  <2>3. CASE Verifies
    BY <2>1, <2>2, <2>3 DEF Verifies
  <2>4. CASE \E n \in Names : Expels(n)
    BY <2>1, <2>2, <2>4 DEF Expels, SettingsKept
  <2>5. CASE \E n \in Names : Writes(n)
    BY <2>1, <2>2, <2>5 DEF Writes, ReadsKept
  <2> QED BY <2>3, <2>4, <2>5
<1>1. /\ pc = "verify" \/ job'.todo \subseteq job.todo
      /\ \A m \in Names : /\ job'.k8s[m] # None <=> job.k8s[m] # None
                          /\ rs'.k8s[m] # None <=> rs.k8s[m] # None
  <2>1. CASE Verifies
    BY <2>1 DEF Verifies, StateKept
  <2>2. CASE \E n \in Names : Expels(n)
    BY <2>2 DEF Expels, SettingsKept, StateKept
  <2>3. CASE \E n \in Names : Writes(n)
    <3>1. PICK n \in Names : Writes(n)
      BY <2>3
    <3>2. job'.todo \subseteq job.todo
      BY <1>0, <3>1 DEF Writes
    <3> QED BY <1>0, <3>1, <3>2, RecordingKeeps
  <2> QED BY <2>1, <2>2, <2>3
<1> QED BY <1>0, <1>1 DEF SpecInv, JobTracked

\* Every step keeps the metadata of the running reconcile.
LEMMA JobStep ==
  ASSUME TypeInv, SpecInv, [Next]_vars
  PROVE  JobTracked'
<1>1. CASE pc' \notin Running
  BY <1>1 DEF JobTracked
<1>2. CASE Elsewhere
  BY <1>2 DEF Elsewhere, StateKept, SpecInv, JobTracked
<1>3. CASE Verifies \/ \E n \in Names : Expels(n) \/ (Writes(n) /\ pc' # "patch")
  BY <1>3, Continues, WritingTracked
<1>4. ASSUME Ends \/ ClientManagerFails \/ Finish \/ \E n \in Names : Writes(n) /\ pc' = "patch"
      PROVE  pc' \notin Running
  BY <1>4, ClientManagerFailed, Finished, WritePanics DEF Ends
<1> QED BY <1>1, <1>2, <1>3, <1>4, StartTracked, AdvancesTracked, StepDescribed DEF Described

\* The zero state has generation 0 and no client.
LEMMA InitSpecInv == Budget["create"] = 0 /\ Init => SpecInv
<1> SUFFICES ASSUME Budget["create"] = 0, Init PROVE SpecInv
  OBVIOUS
<1>1. /\ pc \notin Running /\ rs.gen = 0 /\ rs.client = None /\ left["create"] = 0
      /\ prov.gen = 1
  BY DEF Init, Running, NewState, NewProvider
<1> QED BY <1>1 DEF SpecInv, GenerationsTell, ClientCurrent, TargetTracked, JobTracked

\* The state always fits the spec of its generation.
LEMMA AlwaysSpecInv ==
  ASSUME Budget["create"] = 0
  PROVE  Spec => []SpecInv
<1>1. Init => SpecInv
  BY InitSpecInv
<1>2. TypeInv /\ SpecInv /\ [Next]_vars => SpecInv'
  BY GenerationsStep, ClientStep, TargetStep, JobStep DEF SpecInv
<1> QED BY <1>1, <1>2, AlwaysTypeInv, PTL DEF Spec

\* As long as the provider is not deleted and created again, every reconcile reads
\* the store its spec names, for every number of spec changes, faults and crashes.
THEOREM SpecEndpointIsRead ==
  ASSUME Budget["create"] = 0
  PROVE  Spec => []FetchesFromSpecEndpoint
<1>1. SpecInv => FetchesFromSpecEndpoint
  BY DEF SpecInv, ClientCurrent, FetchesFromSpecEndpoint, Running, Stages
<1> QED BY <1>1, AlwaysSpecInv, PTL

\* A Secret that is still to be written has its settings and its metadata.
LEMMA WritesHaveMetadata ==
  ASSUME TypeInv, SpecInv, pc = "secrets", NEW n \in job.todo
  PROVE  pc \in Running /\ n \in Names /\ job.secPop /\ job.secs[n] # None /\ job.k8s[n] # None
<1>1. pc \in Running /\ n \in Names /\ job.secs[n] # None
  BY StageFacts DEF Running, Stages, Job, TypeInv, StageOK
<1> QED BY <1>1 DEF SpecInv, JobTracked

\* createOrUpdateSecrets dereferences no nil metadata, for every number of Secrets,
\* as long as the provider is not deleted and created again.
THEOREM MetadataIsTracked ==
  ASSUME Budget["create"] = 0
  PROVE  Spec => []MetadataTracked
<1>1. TypeInv /\ SpecInv => MetadataTracked
  BY WritesHaveMetadata DEF MetadataTracked
<1> QED BY <1>1, AlwaysTypeInv, AlwaysSpecInv, PTL

-----------------------------------------------------------------------------
(* The references of a Secret *)

\* Versions are numbers.
LEMMA VersionTypes ==
  ASSUME TypeInv, NEW n \in Names
  PROVE  /\ rev \in Nat
         /\ sec[n] # None => sec[n].rv \in Nat /\ sec[n].stamp \in Nat
         /\ job.ex[n] # None => job.ex[n].rv \in Nat
         /\ rs.k8s[n] # None => rs.k8s[n] \in Metadata /\ rs.k8s[n].rv \in Nat
         /\ job.k8s[n] # None => job.k8s[n] \in Metadata /\ job.k8s[n].rv \in Nat
<1>1. /\ sec[n] \in Object(SecretData) \cup {None} /\ job.ex[n] \in Object(SecretData) \cup {None}
      /\ rs.k8s[n] \in Metadata \cup {None} /\ job.k8s[n] \in Metadata \cup {None} /\ rev \in Nat
  BY StageFacts DEF TypeOK, Job, State
<1> QED BY <1>1 DEF Object, Metadata

\* Steps that touch no Secret and no metadata.
LEMMA NothingMixed ==
  ASSUME TypeInv, MixInv, UNCHANGED sec, RevGrows,
         \A n \in Names : /\ rs'.k8s[n] = rs.k8s[n] \/ rs'.k8s[n] = None
                          /\ job'.k8s[n] = job.k8s[n] \/ job'.k8s[n] = None
                          /\ job'.ex[n] = job.ex[n] \/ job'.ex[n] = None
  PROVE  SecretVersions' /\ KnowsReferences(rs.k8s)' /\ KnowsReferences(job.k8s)' /\ NoMixedSecret'
<1>1. SecretVersions'
  BY VersionTypes DEF MixInv, SecretVersions, RevGrows
<1>2. KnowsReferences(rs.k8s)' /\ KnowsReferences(job.k8s)'
  BY DEF MixInv, KnowsReferences
<1>3. NoMixedSecret'
  BY DEF MixInv, NoMixedSecret
<1> QED BY <1>1, <1>2, <1>3

\* There are no Secrets in the beginning.
LEMMA InitMix == Init => MixInv
<1> SUFFICES ASSUME Init PROVE MixInv
  OBVIOUS
<1>1. /\ pc \notin Running
      /\ \A n \in Names : /\ sec[n] = None /\ rs.k8s[n] = None /\ job.k8s[n] = None
                          /\ job.ex[n] = None
  BY DEF Init, Running, NewState, NewJob
<1> QED BY <1>1 DEF MixInv, SecretVersions, KnowsReferences, JobReferences, NoMixedSecret

\* A reconcile that ends forgets metadata, or all of it.
LEMMA EndsMix == TypeInv /\ MixInv /\ Ends => MixInv'
<1> SUFFICES ASSUME TypeInv, MixInv, Ends PROVE MixInv'
  OBVIOUS
<1>1. \A n \in Names : /\ rs'.k8s[n] = rs.k8s[n] \/ rs'.k8s[n] = None
                       /\ job'.k8s[n] = job.k8s[n] \/ job'.k8s[n] = None
                       /\ job'.ex[n] = job.ex[n] \/ job'.ex[n] = None
  <2>1. \A n \in Names : NewState.k8s[n] = None
    BY DEF NewState
  <2> QED BY <2>1 DEF Ends, StateKept, JobDropped
<1>2. UNCHANGED sec /\ RevGrows /\ JobReferences'
  BY StageFacts DEF Ends, RevGrows, JobReferences
<1> QED BY <1>1, <1>2, NothingMixed DEF MixInv

\* The metadata after the resets of a start.
LEMMA ResetMix ==
  ASSUME TypeInv, MixInv, NEW ex, UNCHANGED <<sec, rev>>, rs'.k8s = ResetVersions(prov, ex).k8s
  PROVE  /\ KnowsReferences(rs.k8s)'
         /\ \A n \in Names : rs'.k8s[n] # None => rs'.k8s[n].rv <= rev
<1> SUFFICES ASSUME NEW n \in Names, rs'.k8s[n] # None
             PROVE  /\ sec[n] # None /\ sec[n].rv = rs'.k8s[n].rv
                         => sec[n].data.keyValue = rs'.k8s[n].ref
                    /\ rs'.k8s[n].rv <= rev
  BY DEF KnowsReferences
<1>1. /\ rs.k8s[n] # None
      /\ rs'.k8s[n] = rs.k8s[n] \/ rs'.k8s[n] = [rs.k8s[n] EXCEPT !.rv = 0]
  <2>1. ResetVersions(prov, ex).k8s[n] =
          IF prov.spec.secret = None \/ rs.k8s[n] = None THEN None
          ELSE IF ex[n] = None THEN [rs.k8s[n] EXCEPT !.rv = 0] ELSE rs.k8s[n]
    BY ResetMetadata DEF TypeInv
  <2>2. rs'.k8s[n] = ResetVersions(prov, ex).k8s[n]
    OBVIOUS
  <2> QED BY <2>1, <2>2
<1>2. CASE rs'.k8s[n] = rs.k8s[n]
  BY <1>1, <1>2 DEF MixInv, SecretVersions, KnowsReferences
<1>3. CASE rs'.k8s[n] = [rs.k8s[n] EXCEPT !.rv = 0]
  <2>1. rs'.k8s[n].rv = 0 /\ 0 <= rev
    BY <1>1, <1>3, VersionTypes DEF Metadata
  <2> QED BY <2>1 DEF MixInv, SecretVersions
<1> QED BY <1>1, <1>2, <1>3

\* Resetting versions makes no Secret known.
LEMMA ClientManagerFailsMix == TypeInv /\ MixInv /\ ClientManagerFails => MixInv'
<1> SUFFICES ASSUME TypeInv, MixInv, ClientManagerFails PROVE MixInv'
  OBVIOUS
<1>1. /\ pc' \notin Running /\ JobDropped /\ UNCHANGED <<sec, rev>>
      /\ rs' = ResetVersions(prov, Collect(CollectedNames(prov)))
  BY ClientManagerFailed
<1>2. /\ KnowsReferences(rs.k8s)'
      /\ \A n \in Names : rs'.k8s[n] # None => rs'.k8s[n].rv <= rev
  BY <1>1, ResetMix
<1>3. SecretVersions'
  BY <1>1, <1>2 DEF MixInv, SecretVersions, JobDropped
<1> QED BY <1>1, <1>2, <1>3 DEF MixInv, KnowsReferences, JobDropped, JobReferences, NoMixedSecret

\* Without a full reconcile the versions of all tracked Secrets were found as recorded.
LEMMA StartMix == TypeInv /\ MixInv /\ ReconcileStart => MixInv'
<1> SUFFICES ASSUME TypeInv, MixInv, ReconcileStart PROVE MixInv'
  OBVIOUS
<1> DEFINE ex == Collect(CollectedNames(prov))
           r  == ResetVersions(prov, ex)
<1>1. /\ job'.ex = ex /\ UNCHANGED <<sec, rev>>
      /\ job'.should <=> ShouldReconcile(r, prov, cm, ex)
      /\ ~job'.secPop /\ rs'.k8s = r.k8s
      /\ \A n \in Names : job'.k8s[n] = None
  BY Started
<1>2. /\ KnowsReferences(rs.k8s)'
      /\ \A n \in Names : rs'.k8s[n] # None => rs'.k8s[n].rv <= rev
  BY <1>1, ResetMix
<1>3. \A n \in Names : ex[n] # None => ex[n] = sec[n]
  BY DEF Collect
<1>4. SecretVersions'
  <2> HIDE DEF ex, r
  <2> QED BY <1>1, <1>2, <1>3 DEF MixInv, SecretVersions
<1>5. JobReferences'
  <2> SUFFICES ASSUME NEW n \in Names, ~job'.should, rs'.k8s[n] # None, ex[n] # None
               PROVE  ex[n].data.keyValue = rs'.k8s[n].ref
    BY <1>1 DEF JobReferences
  <2>1. rs'.k8s[n] = rs.k8s[n] /\ prov.spec.secret # None
    <3>1. r.k8s[n] = IF prov.spec.secret = None \/ rs.k8s[n] = None THEN None
                     ELSE IF ex[n] = None THEN [rs.k8s[n] EXCEPT !.rv = 0] ELSE rs.k8s[n]
      BY ResetMetadata DEF TypeInv
    <3> HIDE DEF ex, r
    <3> QED BY <1>1, <3>1
  <2>2. r.k8s[n].rv = ex[n].rv
    BY <1>1, <2>1 DEF ShouldReconcile, Present
  <2> HIDE DEF ex, r
  <2> QED BY <1>1, <1>3, <2>1, <2>2 DEF MixInv, KnowsReferences
<1>6. KnowsReferences(job.k8s)' /\ NoMixedSecret'
  BY <1>1 DEF KnowsReferences, NoMixedSecret, MixInv
<1> QED BY <1>2, <1>4, <1>5, <1>6 DEF MixInv

\* Values are merged only into Secrets of the same references.
LEMMA AdvancesMix == TypeInv /\ SpecInv /\ MixInv /\ Advances => MixInv'
<1> SUFFICES ASSUME TypeInv, SpecInv, MixInv, Advances PROVE MixInv'
  OBVIOUS
<1>0. /\ pc \in Running /\ pc \in BeforeWrites /\ pc' \in Running
      /\ job'.prov = job.prov /\ job'.ex = job.ex /\ job'.should = job.should
      /\ rs'.k8s = rs.k8s /\ UNCHANGED sec /\ RevGrows
  BY DEF Advances, ReadsKept, StateKept, BeforeWrites
<1>1. CASE SettingsKept
  <2>1. JobReferences'
    BY <1>0, <1>1 DEF SettingsKept, MixInv, JobReferences
  <2> QED BY <1>0, <1>1, <2>1, NothingMixed DEF SettingsKept, MixInv
<1>2. CASE Fetches
  <2>1. /\ job'.secs = FetchedSecrets /\ job'.k8s = FetchedMetadata
        /\ rs.client \in Endpoints
    BY <1>2 DEF Fetches
  <2>2. \A n \in Names :
          /\ job'.k8s[n] # None => job'.k8s[n].rv = 0
          /\ job'.secs[n] # None =>
               job'.secs[n].keyValue # None /\ job'.secs[n].keyValue = job'.k8s[n].ref
    BY <2>1, FetchedFacts
  <2>3. SecretVersions'
    BY <1>0, <2>2, VersionTypes DEF MixInv, SecretVersions, RevGrows
  <2>4. KnowsReferences(job.k8s)'
    BY <1>0, <2>2 DEF MixInv, SecretVersions, KnowsReferences
  <2>5. JobReferences'
    BY <1>0, <2>2 DEF MixInv, JobReferences
  <2> QED BY <1>0, <2>3, <2>4, <2>5 DEF MixInv, KnowsReferences, NoMixedSecret
<1>3. CASE Resolves
  <2>1. /\ pc = "secretRefresh" /\ ~job.secPop /\ job.prov.spec.secret # None
        /\ job'.k8s = rs.k8s
        /\ \A n \in Names : job'.secs[n] # None =>
             /\ job.ex[n] # None
             /\ rs.k8s[n] # None => job'.secs[n] = Resolved(job.ex[n], rs.k8s[n])
    BY <1>3 DEF Resolves
  <2>2. ~job.should /\ rs.k8s[job.prov.spec.secret] # None
    BY <1>0, <2>1 DEF SpecInv, JobTracked
  <2>3. ASSUME NEW n \in Names, job'.secs[n] # None
        PROVE  job'.secs[n].keyValue # None /\ job'.secs[n].keyValue = job'.k8s[n].ref
    <3>1. job.ex[n] # None /\ rs.k8s[n] # None
      BY <1>0, <2>1, <2>2, <2>3 DEF SpecInv, JobTracked
    <3>2. job.ex[n].data.keyValue = rs.k8s[n].ref
      BY <1>0, <2>2, <3>1 DEF MixInv, JobReferences
    <3>3. rs.k8s[n].ref # None
      BY <3>1, VersionTypes, NoDataAssumption DEF Metadata
    <3>4. job'.secs[n] = Resolved(job.ex[n], rs.k8s[n])
      BY <2>1, <2>3, <3>1
    <3>5. Resolved(job.ex[n], rs.k8s[n]).keyValue = rs.k8s[n].ref
      BY <3>2 DEF Resolved
    <3> QED BY <2>1, <3>3, <3>4, <3>5
  <2>4. JobReferences'
    BY <1>0, <2>3 DEF MixInv, JobReferences
  <2>5. SecretVersions'
    BY <1>0, <2>1, VersionTypes DEF MixInv, SecretVersions, RevGrows
  <2> QED BY <1>0, <2>1, <2>4, <2>5 DEF MixInv, KnowsReferences, NoMixedSecret
<1> QED BY <1>1, <1>2, <1>3 DEF Advances

\* Secrets looked at later are as they are now.
LEMMA VerifiesMix == TypeInv /\ MixInv /\ Verifies => MixInv'
<1> SUFFICES ASSUME TypeInv, MixInv, Verifies PROVE MixInv'
  OBVIOUS
<1>1. /\ pc \in Running /\ pc' \notin BeforeWrites /\ UNCHANGED <<sec, rev>>
      /\ rs'.k8s = rs.k8s /\ job'.k8s = job.k8s
      /\ job'.secPop = job.secPop /\ job'.secs = job.secs
      /\ \A n \in Names : job'.ex[n] = job.ex[n] \/ job'.ex[n] = sec[n]
  BY DEF Verifies, StateKept, Running, BeforeWrites, Stages
<1>2. SecretVersions'
  BY <1>1 DEF MixInv, SecretVersions
<1>3. JobReferences'
  BY <1>1 DEF MixInv, JobReferences
<1> QED BY <1>1, <1>2, <1>3 DEF MixInv, KnowsReferences, NoMixedSecret

\* A deleted Secret has no content.
LEMMA ExpelsMix ==
  ASSUME TypeInv, MixInv, NEW n \in Names, Expels(n)
  PROVE  MixInv'
<1>0. /\ job.ex \in [Names -> Object(SecretData) \cup {None}]
      /\ sec \in [Names -> Object(SecretData) \cup {None}]
  BY StageFacts DEF TypeOK, Job
<1>1. /\ pc \in Running /\ pc' \notin BeforeWrites /\ UNCHANGED rev
      /\ job'.k8s = job.k8s /\ rs'.k8s = rs.k8s
      /\ job'.secPop = job.secPop /\ job'.secs = job.secs
      /\ \A m \in Names : /\ sec'[m] = sec[m] \/ sec'[m] = None
                          /\ job'.ex[m] = job.ex[m] \/ job'.ex[m] = None
  BY <1>0 DEF Expels, SettingsKept, StateKept, Running, BeforeWrites, Stages
<1>2. SecretVersions'
  BY <1>1 DEF MixInv, SecretVersions
<1>3. JobReferences'
  BY <1>1 DEF MixInv, JobReferences
<1>4. KnowsReferences(rs.k8s)' /\ KnowsReferences(job.k8s)' /\ NoMixedSecret'
  BY <1>1 DEF MixInv, KnowsReferences, NoMixedSecret
<1> QED BY <1>2, <1>3, <1>4 DEF MixInv

\* The state takes over what the reconcile knows.
LEMMA FinishMix == TypeInv /\ MixInv /\ Finish => MixInv'
<1> SUFFICES ASSUME TypeInv, MixInv, Finish PROVE MixInv'
  OBVIOUS
<1>1. /\ pc' \notin Running /\ JobDropped /\ UNCHANGED <<sec, rev>>
      /\ rs'.k8s = job.k8s \/ rs'.k8s = rs.k8s
  BY Finished, FinishedState
<1>2. SecretVersions'
  BY <1>1 DEF MixInv, SecretVersions, JobDropped
<1>3. KnowsReferences(rs.k8s)' /\ KnowsReferences(job.k8s)'
  BY <1>1 DEF MixInv, KnowsReferences, JobDropped
<1> QED BY <1>1, <1>2, <1>3 DEF MixInv, JobReferences, NoMixedSecret

\* A change by others gives a Secret a new version, which no metadata has.
LEMMA ElsewhereMix == TypeInv /\ MixInv /\ Elsewhere => MixInv'
<1> SUFFICES ASSUME TypeInv, MixInv, Elsewhere PROVE MixInv'
  OBVIOUS
<1>1. UNCHANGED <<pc, job>> /\ rs'.k8s = rs.k8s /\ RevGrows
  BY DEF Elsewhere, StateKept
<1>2. JobReferences'
  BY <1>1 DEF MixInv, JobReferences
<1>3. CASE UNCHANGED sec
  BY <1>1, <1>2, <1>3, NothingMixed DEF MixInv
<1>4. CASE ~ UNCHANGED sec
  <2>1. PICK n \in Names : EditSecret(n) \/ DeleteSecret(n) \/ CreateForeignSecret(n)
                           \/ CollectSecret(n)
    BY <1>4 DEF Elsewhere
  <2>2. /\ \A m \in Names \ {n} : sec'[m] = sec[m]
        /\ sec'[n] # None =>
             /\ sec'[n].rv = rev + 1 /\ rev' = rev + 1
             /\ sec'[n].stamp \in Nat /\ sec'[n].stamp <= rev
    <3>1. 0 <= rev /\ (sec[n] # None => sec[n].stamp \in Nat)
      BY VersionTypes
    <3> QED BY <2>1, <3>1, OthersSecrets DEF MixInv, SecretVersions
  <2>3. rev' \in Nat /\ rev' >= rev /\ rev \in Nat
    BY <1>1, StageFacts DEF RevGrows
  <2>4. SecretVersions'
    <3> SUFFICES ASSUME NEW m \in Names
                 PROVE  /\ sec'[m] # None => /\ sec'[m].rv > 0 /\ sec'[m].rv <= rev'
                                             /\ sec'[m].stamp <= rev'
                        /\ job.ex[m] # None => job.ex[m].rv <= rev'
                        /\ rs.k8s[m] # None => rs.k8s[m].rv <= rev'
                        /\ job.k8s[m] # None => job.k8s[m].rv <= rev'
                        /\ sec'[m] # None /\ job.ex[m] # None /\ sec'[m].rv = job.ex[m].rv
                             => sec'[m].data = job.ex[m].data
      BY <1>1 DEF SecretVersions
    <3>1. /\ job.ex[m] # None => job.ex[m].rv <= rev /\ job.ex[m].rv \in Nat
          /\ rs.k8s[m] # None => rs.k8s[m].rv <= rev /\ rs.k8s[m].rv \in Nat
          /\ job.k8s[m] # None => job.k8s[m].rv <= rev /\ job.k8s[m].rv \in Nat
      BY VersionTypes DEF MixInv, SecretVersions
    <3>2. CASE m # n
      BY <2>2, <2>3, <3>1, <3>2, VersionTypes DEF MixInv, SecretVersions
    <3>3. CASE m = n
      BY <2>2, <2>3, <3>1, <3>3
    <3> QED BY <3>2, <3>3
  <2>5. KnowsReferences(rs.k8s)' /\ KnowsReferences(job.k8s)'
    BY <1>1, <2>2, <2>3, VersionTypes DEF MixInv, SecretVersions, KnowsReferences
  <2>6. NoMixedSecret'
    <3>1. sec'[n] # None => sec'[n].rv # sec'[n].stamp
      BY <2>2, <2>3
    <3> QED BY <2>2, <3>1 DEF MixInv, NoMixedSecret
  <2> QED BY <1>2, <2>4, <2>5, <2>6 DEF MixInv
<1> QED BY <1>3, <1>4

\* A Secret is written with its references, under the version that is recorded for it.
LEMMA WritesMix ==
  ASSUME TypeInv, SpecInv, MixInv, NEW n \in Names, Writes(n)
  PROVE  MixInv'
<1>0. /\ pc = "secrets" /\ n \in job.todo /\ pc \notin BeforeWrites
      /\ sec \in [Names -> Object(SecretData) \cup {None}]
      /\ job.k8s \in [Names -> Metadata \cup {None}]
  BY StageFacts DEF Writes, BeforeWrites, TypeOK, Job
<1>1. pc \in Running /\ job.secPop /\ job.secs[n] # None /\ job.k8s[n] # None
  BY <1>0, WritesHaveMetadata
<1>2. job.secs[n].keyValue # None /\ job.secs[n].keyValue = job.k8s[n].ref
  BY <1>1 DEF MixInv, JobReferences
<1>3. PICK v \in Nat :
        /\ \/ ~ShouldWriteSecret(n) /\ v = job.ex[n].rv /\ UNCHANGED <<sec, rev>>
           \/ /\ v = rev + 1 /\ rev' = rev + 1
              /\ sec' = [sec EXCEPT ![n] = Written(sec[n], job.secs[n])]
        /\ pc' = pc /\ job'.ex = job.ex /\ job'.secPop = job.secPop /\ job'.secs = job.secs
        /\ job'.k8s = [job.k8s EXCEPT ![n].rv = v]
        /\ rs'.k8s = IF job.alias THEN job'.k8s ELSE rs.k8s
  BY <1>1 DEF Writes, ReadsKept
<1>4. /\ \A m \in Names \ {n} : job'.k8s[m] = job.k8s[m] /\ sec'[m] = sec[m]
      /\ job'.k8s[n].rv = v /\ job'.k8s[n].ref = job.k8s[n].ref
  <2>1. job.k8s[n] \in Metadata
    BY <1>0, <1>1
  <2>2. job'.k8s[n] = [job.k8s[n] EXCEPT !.rv = v]
    BY <1>0, <1>3
  <2> QED BY <1>0, <1>3, <2>1, <2>2 DEF Metadata
<1>5. rev \in Nat /\ rev' \in Nat /\ rev' >= rev
  BY <1>3, StageFacts
<1>6. \/ /\ sec'[n] = sec[n] /\ v <= rev /\ rev' = rev
         /\ sec[n] # None /\ sec[n].rv = v => sec[n].data.keyValue = job.k8s[n].ref
      \/ /\ v = rev + 1 /\ rev' = rev + 1
         /\ sec'[n].rv = v /\ sec'[n].stamp = v /\ sec'[n].data = job.secs[n]
  <2>1. CASE ~ShouldWriteSecret(n) /\ v = job.ex[n].rv /\ UNCHANGED <<sec, rev>>
    <3>1. job.ex[n] # None /\ job.ex[n].data = job.secs[n]
      BY <2>1 DEF ShouldWriteSecret
    <3> QED BY <1>2, <2>1, <3>1 DEF MixInv, SecretVersions
  <2>2. CASE /\ v = rev + 1 /\ rev' = rev + 1
             /\ sec' = [sec EXCEPT ![n] = Written(sec[n], job.secs[n])]
    BY <1>0, <2>2 DEF Written
  <2> QED BY <1>3, <2>1, <2>2
<1>7. SecretVersions'
  <2> SUFFICES ASSUME NEW m \in Names
               PROVE  /\ sec'[m] # None => /\ sec'[m].rv > 0 /\ sec'[m].rv <= rev'
                                           /\ sec'[m].stamp <= rev'
                      /\ job.ex[m] # None => job.ex[m].rv <= rev'
                      /\ rs'.k8s[m] # None => rs'.k8s[m].rv <= rev'
                      /\ job'.k8s[m] # None => job'.k8s[m].rv <= rev'
                      /\ sec'[m] # None /\ job.ex[m] # None /\ sec'[m].rv = job.ex[m].rv
                           => sec'[m].data = job.ex[m].data
    BY <1>3 DEF SecretVersions
  <2>1. /\ sec[m] # None => /\ sec[m].rv \in Nat /\ sec[m].stamp \in Nat
                            /\ sec[m].rv > 0 /\ sec[m].rv <= rev /\ sec[m].stamp <= rev
        /\ job.ex[m] # None => job.ex[m].rv <= rev /\ job.ex[m].rv \in Nat
        /\ rs.k8s[m] # None => rs.k8s[m].rv <= rev /\ rs.k8s[m].rv \in Nat
        /\ job.k8s[m] # None => job.k8s[m].rv <= rev /\ job.k8s[m].rv \in Nat
        /\ sec[m] # None /\ job.ex[m] # None /\ sec[m].rv = job.ex[m].rv
             => sec[m].data = job.ex[m].data
    BY VersionTypes DEF MixInv, SecretVersions
  <2>2. job'.k8s[m] # None => job'.k8s[m].rv <= rev'
    BY <1>4, <1>5, <1>6, <2>1
  <2>3. rs'.k8s[m] # None => rs'.k8s[m].rv <= rev'
    BY <1>3, <1>5, <2>1, <2>2
  <2>4. job.ex[m] # None => job.ex[m].rv <= rev'
    BY <1>5, <2>1
  <2>5. CASE m # n
    BY <1>4, <1>5, <2>1, <2>2, <2>3, <2>4, <2>5
  <2>6. CASE m = n
    BY <1>5, <1>6, <2>1, <2>2, <2>3, <2>4, <2>6
  <2> QED BY <2>5, <2>6
<1>8. KnowsReferences(job.k8s)'
  <2>1. sec'[n] # None /\ sec'[n].rv = v => sec'[n].data.keyValue = job.k8s[n].ref
    BY <1>2, <1>6
  <2> QED BY <1>4, <2>1 DEF MixInv, KnowsReferences
<1>9. KnowsReferences(rs.k8s)'
  <2>1. CASE job.alias
    BY <1>3, <1>8, <2>1 DEF KnowsReferences
  <2>2. CASE ~job.alias
    <3>1. ASSUME rs.k8s[n] # None, sec'[n] # None, sec'[n].rv = rs.k8s[n].rv
          PROVE  sec'[n] = sec[n]
      BY <1>5, <1>6, <3>1, VersionTypes DEF MixInv, SecretVersions
    <3> QED BY <1>3, <1>4, <2>2, <3>1 DEF MixInv, KnowsReferences
  <2> QED BY <2>1, <2>2
<1>10. JobReferences'
  BY <1>0, <1>1, <1>3, <1>4 DEF MixInv, JobReferences
<1>11. NoMixedSecret'
  BY <1>2, <1>4, <1>6 DEF MixInv, NoMixedSecret
<1> QED BY <1>7, <1>8, <1>9, <1>10, <1>11 DEF MixInv

\* Every step keeps the references of the Secrets.
LEMMA StepMix == TypeInv /\ SpecInv /\ MixInv /\ [Next]_vars => MixInv'
BY StepDescribed, EndsMix, ClientManagerFailsMix, StartMix, AdvancesMix, VerifiesMix, WritesMix,
   ExpelsMix, FinishMix, ElsewhereMix DEF Described

\* No Secret the controller writes mixes two versions of the key-values, for every
\* number of Secrets, stores, edits and faults, as long as the provider is not
\* deleted and created again.
THEOREM NoSecretIsMixed ==
  ASSUME Budget["create"] = 0
  PROVE  Spec => []NoMixedSecret
<1>1. MixInv => NoMixedSecret
  BY DEF MixInv
<1> QED BY <1>1, InitMix, StepMix, AlwaysTypeInv, AlwaysSpecInv, PTL DEF Spec
=============================================================================
