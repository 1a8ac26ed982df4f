----------------------------- MODULE Reconciler -----------------------------
(***************************************************************************)
(* The reconcile loop of the Azure App Configuration Kubernetes provider:  *)
(* one AzureAppConfigurationProvider object, its target ConfigMap and      *)
(* Secrets, the App Configuration stores and the Key Vault it reads, the   *)
(* in-memory ReconciliationState and the controller's work queue.          *)
(*                                                                         *)
(* A reconcile is a job that advances through the calls of Reconcile,      *)
(* PopulateSettings and Finish.  Between two of its steps the stores, the  *)
(* users of the cluster, the garbage collector and a crash may act.        *)
(*                                                                         *)
(* Contents are abstracted to versions: a page of key-values, of feature   *)
(* flags or a sentinel is the store it came from and a version number, and *)
(* an ETag is the content it was issued for.  The data of a target are     *)
(* those its comparison looks at: the document under the key of spec.target *)
(* for a JSON or YAML target, all keys otherwise.                          *)
(***************************************************************************)
EXTENDS Naturals, FiniteSets

CONSTANTS
  None,        \* absence: a nil pointer, a missing object, a missing map entry
  Endpoints,   \* App Configuration endpoints
  Names,       \* names of Kubernetes Secrets
  Specs,       \* the provider specs users write
  RefSets,     \* sets of TLS Secrets the key-values of a store may ask for
  Budget       \* how often each kind of outside event may happen

Kinds == {"keyValue", "flag", "sentinel", "vault", "edit", "foreign", "spec",
          "annotation", "delete", "create", "fault", "panic", "crash"}

ProviderSpec ==
  [valid    : BOOLEAN,                       \* verifyObject accepts it
   endpoint : Endpoints,
   secret   : Names \cup {None},             \* spec.secret.target.secretName
   keyValue : {"off", "page", "sentinel"},   \* spec.configuration.refresh
   flag     : {"none", "static", "refresh"}, \* spec.featureFlag
   rotate   : BOOLEAN]                       \* spec.secret.refresh.enabled

ASSUME SpecsAssumption == Specs # {} /\ Specs \subseteq ProviderSpec

ASSUME RefSetsAssumption ==
  /\ {} \in RefSets
  /\ RefSets \subseteq SUBSET Names
  /\ \A s \in Specs, refs \in RefSets : s.secret \notin refs

ASSUME NoneAssumption == None \notin Endpoints \cup Names

ASSUME BudgetAssumption == Budget \in [Kinds -> Nat]

VARIABLES
  store,    \* the App Configuration stores, by endpoint
  vault,    \* version of the Key Vault secrets
  prov,     \* the AzureAppConfigurationProvider object
  cm,       \* the target ConfigMap
  sec,      \* the Secrets of the namespace
  rev,      \* resource versions and UIDs handed out by the API server so far
  rs,       \* ReconciliationState of the provider
  pc,       \* where the running reconcile is
  job,      \* its local state
  queue,    \* the provider is in the work queue
  delayed,  \* a delayed add (RequeueAfter) is pending
  left      \* what is left of the budget of outside events

world == <<store, vault>>
cluster == <<cm, sec, rev>>
vars == <<store, vault, prov, cm, sec, rev, rs, pc, job, queue, delayed, left>>

-----------------------------------------------------------------------------
(* Data *)

Timers == {"keyValue", "flag", "secret"}

Content == [src : Endpoints, ver : Nat]

ConfigMapData == [keyValue : Content \cup {None}, flag : Content \cup {None}]

SecretData == [keyValue : Content \cup {None}, vault : Nat]

\* own is the UID in the provider's owner reference, 0 for somebody else's
\* object; stamp is the LastReconcileTime annotation.
Object(data) == [own : Nat, rv : Nat, stamp : Nat, data : data]

Phases == {"New", "Running", "Complete", "Failed", "UpdateFailed"}

Provider == [uid : Nat, gen : Nat, spec : Specs, annotation : Nat, phase : Phases]

\* TargetK8sSecretMetadata: the references of a Secret and its resource version
\* ("" is 0).
Metadata == [ref : Content, rv : Nat]

\* None is no record.
ASSUME NoDataAssumption ==
  None \notin Content \cup ConfigMapData \cup SecretData \cup Object(SecretData) \cup Metadata

State == [gen : Nat, annotation : Nat, cmrv : Nat,
          kvTag : Content \cup {None}, ffTag : Content \cup {None},
          senTag : Content \cup {None},
          k8s : [Names -> Metadata \cup {None}],
          armed : SUBSET Timers,            \* refresh times still ahead
          client : Endpoints \cup {None}]   \* endpoint of the ClientManager

\* The zero ReconciliationState.  A provider without a state is in this one:
\* Reconcile creates it before anything tells the two apart.
NewState == [gen |-> 0, annotation |-> 0, cmrv |-> 0,
             kvTag |-> None, ffTag |-> None, senTag |-> None,
             k8s |-> [n \in Names |-> None], armed |-> {}, client |-> None]

Stages == {"idle", "keyValues", "sentinel", "flags", "ffRefresh", "kvRefresh",
           "kvFetch", "secretRefresh", "configMap", "verify", "secrets",
           "patch"}

Job == [prov    : Provider \cup {None},     \* the object as read at the start
        cm      : Object(ConfigMapData) \cup {None},  \* existingConfigMap
        ex      : [Names -> Object(SecretData) \cup {None}], \* existingSecrets
        due     : SUBSET Timers,            \* refresh times before CurrentTime
        should  : BOOLEAN,                  \* ShouldReconcile
        data    : ConfigMapData \cup {None},        \* Settings.ConfigMapSettings
        secPop  : BOOLEAN,                  \* SecretSettingPopulated
        secs    : [Names -> SecretData \cup {None}],   \* Settings.SecretSettings
        k8s     : [Names -> Metadata \cup {None}],     \* Settings.K8sSecrets
        alias   : BOOLEAN,                  \* K8sSecrets is the state's own map
        kvTag   : Content \cup {None},      \* updatedKeyValueETags
        ffTag   : Content \cup {None},      \* updatedFeatureFlagETags
        senTag  : Content \cup {None},      \* updatedSentinelETags
        changed : BOOLEAN,                  \* sentinelChanged
        todo    : SUBSET Names,             \* Secrets the write loop has left
        phase   : Phases,                   \* the status the reconcile ends with
        again   : BOOLEAN]                  \* Result.RequeueAfter is set

NewJob == [prov |-> None, cm |-> None, ex |-> [n \in Names |-> None],
           due |-> {}, should |-> FALSE, data |-> None, secPop |-> FALSE,
           secs |-> [n \in Names |-> None], k8s |-> [n \in Names |-> None],
           alias |-> FALSE, kvTag |-> None, ffTag |-> None, senTag |-> None,
           changed |-> FALSE, todo |-> {}, phase |-> "New", again |-> FALSE]

\* The keys of a map whose missing entries are None.
Present(f) == {n \in Names : f[n] # None}

KeyValues(e) == [src |-> e, ver |-> store[e].keyValue]
Flags(e) == [src |-> e, ver |-> store[e].flag]

\* A sentinel at version 0 does not exist (the 404 of GetSetting).
Sentinel(e) == IF store[e].sentinel = 0 THEN None
               ELSE [src |-> e, ver |-> store[e].sentinel]

Spend(kind) == /\ left[kind] > 0
               /\ left' = [left EXCEPT ![kind] = @ - 1]

-----------------------------------------------------------------------------
(* Events of the watched objects (event_handler.go) *)

\* Create events are ignored; an update is queued when the object names a
\* provider as owner and was not written by the controller itself.
EnqueuesUpdate(old, new) == new.own # 0 /\ new.stamp = old.stamp
EnqueuesDelete(obj) == obj.own # 0

-----------------------------------------------------------------------------
(* Start of a reconcile: reads, ownership checks and resets *)

Owned(obj, p) == obj # None => obj.own = p.uid

CollectedTargetOnly(p) == IF p.spec.secret = None THEN {} ELSE {p.spec.secret}

\* The names whose Secrets Reconcile collects before anything else.
CollectedNames(p) ==
  IF p.spec.secret = None THEN {} ELSE {p.spec.secret} \cup Present(rs.k8s)

Collect(names) == [n \in Names |-> IF n \in names THEN sec[n] ELSE None]

\* Forget the resource versions of objects that are gone and, without
\* spec.secret, all recorded Secrets.
ResetVersions(p, ex) ==
  [rs EXCEPT
     !.cmrv = IF cm = None THEN 0 ELSE @,
     !.k8s  = [n \in Names |->
                 IF p.spec.secret = None \/ @[n] = None THEN None
                 ELSE IF ex[n] = None THEN [@[n] EXCEPT !.rv = 0] ELSE @[n]]]

NeedsClientOnce(r, p) == r.client = None
NeedsClient(r, p) == r.client = None \/ r.gen # p.gen

WithClient(r, p) ==
  [r EXCEPT !.client = IF NeedsClient(r, p) THEN p.spec.endpoint ELSE @]

ShouldReconcileDespiteEdits(r, p, configMap, ex) ==
  \/ p.gen # r.gen
  \/ p.annotation # r.annotation
  \/ r.cmrv = 0
  \/ /\ p.spec.secret # None
     /\ \/ Present(r.k8s) = {}
        \/ Cardinality(Present(r.k8s)) # Cardinality(Present(ex))

ShouldReconcileAnyGeneration(r, p, configMap, ex) ==
  \/ p.annotation # r.annotation
  \/ r.cmrv = 0
  \/ configMap # None /\ r.cmrv # configMap.rv
  \/ /\ p.spec.secret # None
     /\ \/ Present(r.k8s) = {}
        \/ Cardinality(Present(r.k8s)) # Cardinality(Present(ex))
        \/ \E n \in Present(ex) : r.k8s[n] # None /\ r.k8s[n].rv # ex[n].rv

ShouldReconcile(r, p, configMap, ex) ==
  \/ p.gen # r.gen
  \/ p.annotation # r.annotation
  \/ r.cmrv = 0
  \/ configMap # None /\ r.cmrv # configMap.rv
  \/ /\ p.spec.secret # None
     /\ \/ Present(r.k8s) = {}
        \/ Cardinality(Present(r.k8s)) # Cardinality(Present(ex))
        \/ \E n \in Present(ex) : r.k8s[n] # None /\ r.k8s[n].rv # ex[n].rv

\* logAndSetFailStatus
FailPhase(r, p, argumentError) ==
  IF /\ ~argumentError
     /\ r.cmrv # 0
     /\ p.spec.secret = None \/ Present(r.k8s) = {}
  THEN "UpdateFailed" ELSE "Failed"

\* Return from Reconcile: the deferred status patch is still to run.
Return(p, phase, again) ==
  /\ pc' = "patch"
  /\ job' = [NewJob EXCEPT !.prov = p, !.phase = phase, !.again = again]

Dequeue == /\ pc = "idle"
           /\ queue
           /\ queue' = FALSE

ReconcileNotFound ==
  /\ Dequeue
  /\ prov = None
  /\ rs' = NewState
  /\ UNCHANGED <<world, cluster, prov, pc, job, delayed, left>>

GetProviderFails ==
  /\ Dequeue
  /\ Spend("fault")
  /\ delayed' = TRUE
  /\ UNCHANGED <<world, cluster, prov, rs, pc, job>>

\* The status says Running: just exit.
ReconcileRunning ==
  /\ Dequeue
  /\ prov # None
  /\ prov.phase = "Running"
  /\ UNCHANGED <<world, cluster, prov, rs, pc, job, delayed, left>>

\* verifyObject refuses the spec; the reconcile is not retried.
ReconcileInvalid ==
  /\ Dequeue
  /\ prov # None
  /\ prov.phase # "Running"
  /\ ~prov.spec.valid
  /\ Return(prov, FailPhase(rs, prov, TRUE), FALSE)
  /\ UNCHANGED <<world, cluster, prov, rs, delayed, left>>

Admitted == prov # None /\ prov.phase # "Running" /\ prov.spec.valid

TargetsOwnedConfigMapOnly == Owned(cm, prov)
TargetsOwned ==
  /\ Owned(cm, prov)
  /\ \A n \in CollectedNames(prov) : Owned(sec[n], prov)

\* An existing target belongs to somebody else, or reading one fails.
ReconcileConflict ==
  /\ Dequeue
  /\ Admitted
  /\ \/ ~TargetsOwned /\ UNCHANGED left
     \/ Spend("fault")
  /\ Return(prov, FailPhase(rs, prov, FALSE), TRUE)
  /\ UNCHANGED <<world, cluster, prov, rs, delayed>>

\* NewConfigurationClientManager fails (credentials, connection string).
ClientManagerFails ==
  /\ Dequeue
  /\ Admitted
  /\ TargetsOwned
  /\ Spend("fault")
  /\ rs' = ResetVersions(prov, Collect(CollectedNames(prov)))
  /\ NeedsClient(rs', prov)
  /\ Return(prov, FailPhase(rs', prov, FALSE), TRUE)
  /\ UNCHANGED <<world, cluster, prov, delayed>>

ReconcileStart ==
  /\ Dequeue
  /\ Admitted
  /\ TargetsOwned
  /\ LET ex == Collect(CollectedNames(prov))
         should == ShouldReconcile(ResetVersions(prov, ex), prov, cm, ex)
     IN  /\ rs' = WithClient(ResetVersions(prov, ex), prov)
         /\ job' = [NewJob EXCEPT !.prov = prov, !.cm = cm, !.ex = ex,
                                  !.should = should,
                                  !.due = Timers \ rs.armed]
         /\ pc' = IF should THEN "keyValues" ELSE "ffRefresh"
  /\ UNCHANGED <<world, cluster, prov, delayed, left>>

-----------------------------------------------------------------------------
(* PopulateSettings: the settings of a full reconcile (CreateTargetSettings) *)

\* Any of the remote calls of a stage fails: requeueWhenGetSettingsFailed.
\* The failover policy wraps what the clients return, so that the special
\* cases for argument errors and for status 429 are never taken.
GetSettingsFails ==
  /\ Spend("fault")
  /\ Return(job.prov, FailPhase(rs, job.prov, FALSE), TRUE)
  /\ UNCHANGED <<world, cluster, prov, rs, queue, delayed>>

\* SecretSettings and K8sSecrets of the key-values the store holds now: the
\* target Secret always, one Secret for each TLS reference.
FetchedNames == {job.prov.spec.secret} \cup store[rs.client].refs

FetchedSecrets ==
  [n \in Names |-> IF n \in FetchedNames
                   THEN [keyValue |-> KeyValues(rs.client), vault |-> vault]
                   ELSE None]

FetchedMetadata ==
  [n \in Names |-> IF n \in FetchedNames
                   THEN [ref |-> KeyValues(rs.client), rv |-> 0] ELSE None]

\* A Key Vault reference was found but spec.secret is not configured.
UnexpectedReference ==
  job.prov.spec.secret = None /\ store[rs.client].refs # {}

UnexpectedReferenceFails ==
  /\ UnexpectedReference
  /\ Return(job.prov, FailPhase(rs, job.prov, FALSE), TRUE)
  /\ UNCHANGED <<world, cluster, prov, rs, queue, delayed, left>>

\* CreateKeyValueSettings with the settings it produces; keepFlags is the
\* feature flag section the ConfigMap data starts from.
WithKeyValues(j, flags) ==
  [j EXCEPT !.data   = [keyValue |-> KeyValues(rs.client), flag |-> flags],
            !.secPop = j.prov.spec.secret # None,
            !.secs   = FetchedSecrets,
            !.k8s    = FetchedMetadata]

CreateKeyValueSettings ==
  /\ pc = "keyValues"
  /\ \/ GetSettingsFails
     \/ UnexpectedReferenceFails
     \/ /\ ~UnexpectedReference
        /\ job' = [WithKeyValues(job, None) EXCEPT !.kvTag = KeyValues(rs.client)]
        /\ pc' = IF job.prov.spec.keyValue = "sentinel" THEN "sentinel"
                 ELSE IF job.prov.spec.flag # "none" THEN "flags"
                 ELSE "ffRefresh"
        /\ UNCHANGED <<world, cluster, prov, rs, queue, delayed, left>>

\* The initial sentinel ETags, read after the key-values.
InitializeSentinels ==
  /\ pc = "sentinel"
  /\ \/ GetSettingsFails
     \/ /\ job' = [job EXCEPT !.senTag = Sentinel(rs.client)]
        /\ pc' = IF job.prov.spec.flag # "none" THEN "flags" ELSE "ffRefresh"
        /\ UNCHANGED <<world, cluster, prov, rs, queue, delayed, left>>

GetFeatureFlagSettings ==
  /\ pc = "flags"
  /\ \/ GetSettingsFails
     \/ /\ job' = [job EXCEPT !.data.flag = Flags(rs.client),
                              !.ffTag = Flags(rs.client)]
        /\ pc' = "ffRefresh"
        /\ UNCHANGED <<world, cluster, prov, rs, queue, delayed, left>>

-----------------------------------------------------------------------------
(* PopulateSettings: the three refreshes *)

Arm(timer) == [rs EXCEPT !.armed = @ \cup {timer}]
Disarm(timer) == [rs EXCEPT !.armed = @ \ {timer}]

\* The part of a refresh handler that needs no remote call: the feature is
\* disabled, a full reconcile has just run, or the time has not come.
RefreshNotNeeded(timer, enabled) ==
  /\ ~enabled \/ job.should \/ timer \notin job.due
  /\ rs' = IF ~enabled THEN Disarm(timer)
           ELSE IF job.should THEN Arm(timer) ELSE rs
  /\ UNCHANGED <<world, cluster, prov, job, queue, delayed, left>>

RefreshNeeded(timer, enabled) == enabled /\ ~job.should /\ timer \in job.due

FlagRefreshEnabled == job.prov.spec.flag = "refresh"

\* CheckPageETags, then RefreshFeatureFlagSettings on top of the data of the
\* existing ConfigMap.
ProcessFeatureFlagRefresh ==
  /\ pc = "ffRefresh"
  /\ \/ /\ RefreshNotNeeded("flag", FlagRefreshEnabled)
        /\ pc' = "kvRefresh"
     \/ /\ RefreshNeeded("flag", FlagRefreshEnabled)
        /\ \/ GetSettingsFails
           \/ /\ rs' = Arm("flag")
              /\ job' = IF rs.ffTag = Flags(rs.client) THEN job
                        ELSE [job EXCEPT
                                !.data = [keyValue |-> job.cm.data.keyValue,
                                          flag |-> Flags(rs.client)],
                                !.ffTag = Flags(rs.client)]
              /\ pc' = "kvRefresh"
              /\ UNCHANGED <<world, cluster, prov, queue, delayed, left>>

KeyValueRefreshEnabled == job.prov.spec.keyValue # "off"

SentinelChangedFromKnown ==
  rs.senTag # None /\ Sentinel(rs.client) \notin {None, rs.senTag}
SentinelChanged == Sentinel(rs.client) \notin {None, rs.senTag}

KeyValuesChanged ==
  IF job.prov.spec.keyValue = "sentinel" THEN SentinelChanged
  ELSE rs.kvTag # KeyValues(rs.client)

\* CheckAndRefreshSentinels or CheckPageETags.
ProcessKeyValueRefresh ==
  /\ pc = "kvRefresh"
  /\ \/ /\ RefreshNotNeeded("keyValue", KeyValueRefreshEnabled)
        /\ pc' = "secretRefresh"
     \/ /\ RefreshNeeded("keyValue", KeyValueRefreshEnabled)
        /\ \/ GetSettingsFails
           \/ /\ ~KeyValuesChanged
              /\ rs' = Arm("keyValue")
              /\ pc' = "secretRefresh"
              /\ UNCHANGED <<world, cluster, prov, job, queue, delayed, left>>
           \/ /\ KeyValuesChanged
              /\ job' = IF job.prov.spec.keyValue = "sentinel"
                        THEN [job EXCEPT !.changed = TRUE,
                                         !.senTag = Sentinel(rs.client)]
                        ELSE job
              /\ pc' = "kvFetch"
              /\ UNCHANGED <<world, cluster, prov, rs, queue, delayed, left>>

\* The feature flags a key-value refresh keeps: those of a feature flag
\* refresh of the same reconcile, else those of the existing ConfigMap.
KeptFlags ==
  IF job.prov.spec.flag = "none" THEN None
  ELSE IF job.data # None THEN job.data.flag ELSE job.cm.data.flag

\* The rest of processKeyValueRefresh: RefreshKeyValueSettings.
RefreshKeyValueSettings ==
  /\ pc = "kvFetch"
  /\ \/ GetSettingsFails
     \/ UnexpectedReferenceFails
     \/ /\ ~UnexpectedReference
        /\ job' = [WithKeyValues(job, KeptFlags) EXCEPT
                     !.kvTag = IF job.prov.spec.keyValue = "page"
                               THEN KeyValues(rs.client) ELSE @]
        /\ rs' = Arm("keyValue")
        /\ pc' = "secretRefresh"
        /\ UNCHANGED <<world, cluster, prov, queue, delayed, left>>

SecretRefreshEnabled == job.prov.spec.secret # None /\ job.prov.spec.rotate

AfterSettings(j) == IF j.data # None THEN "configMap"
                    ELSE IF j.secPop THEN "verify" ELSE "secrets"

\* A Secret with its references resolved again: the new values are merged
\* into the existing data, which may hold the keys of other references.
Resolved(obj, metadata) ==
  [keyValue |-> IF metadata.ref = obj.data.keyValue THEN metadata.ref ELSE None,
   vault    |-> vault]

\* Resolve the references of the tracked Secrets again.
ProcessSecretReferenceRefresh ==
  /\ pc = "secretRefresh"
  /\ IF ~SecretRefreshEnabled
     THEN /\ rs' = Disarm("secret")
          /\ pc' = AfterSettings(job)
          /\ UNCHANGED <<world, cluster, prov, job, queue, delayed, left>>
     ELSE IF "secret" \notin job.due \/ job.secPop
     THEN /\ rs' = IF "secret" \in job.due THEN Arm("secret") ELSE rs
          /\ pc' = AfterSettings(job)
          /\ UNCHANGED <<world, cluster, prov, job, queue, delayed, left>>
     ELSE \/ GetSettingsFails
          \/ /\ job' = [job EXCEPT
                          !.secs = [n \in Names |->
                             IF job.ex[n] = None THEN None
                             ELSE IF rs.k8s[n] = None THEN job.ex[n].data
                             ELSE Resolved(job.ex[n], rs.k8s[n])],
                          !.k8s = rs.k8s,
                          !.alias = TRUE,
                          !.secPop = TRUE]
             /\ rs' = Arm("secret")
             /\ pc' = AfterSettings(job')
             /\ UNCHANGED <<world, cluster, prov, queue, delayed, left>>

\* Building the target settings panics; the deferred patch stores the status
\* the provider has at that point and the controller retries.
SettingsPanic ==
  /\ pc \in {"keyValues", "flags", "kvFetch"}
  /\ Spend("panic")
  /\ Return(job.prov, "Running", TRUE)
  /\ UNCHANGED <<world, cluster, prov, rs, queue, delayed>>

-----------------------------------------------------------------------------
(* Writing the targets *)

\* CreateOrUpdate reads the object again: it creates it with the provider as
\* owner or replaces the data of whatever object has the name now.
Written(obj, data) ==
  [own   |-> IF obj = None THEN job.prov.uid ELSE obj.own,
   rv    |-> rev + 1,
   stamp |-> rev + 1,
   data  |-> data]

\* A write or a delete fails: status and requeue, the state stays as it is.
WriteFails ==
  /\ Spend("fault")
  /\ Return(job.prov, FailPhase(rs, job.prov, FALSE), TRUE)
  /\ UNCHANGED <<world, cluster, prov, rs, queue, delayed>>

ShouldWriteConfigMapOnce == job.cm = None

\* shouldCreateOrUpdateConfigMap: in an object whose data are equal, other keys
\* than the document's are compared only where there is no document.
ShouldWriteConfigMap == job.cm # None => job.cm.data # job.data

AfterConfigMap == IF job.secPop THEN "verify" ELSE "secrets"

CreateOrUpdateConfigMap ==
  /\ pc = "configMap"
  /\ \/ /\ ~ShouldWriteConfigMap
        /\ rs' = [rs EXCEPT !.cmrv = job.cm.rv]
        /\ pc' = AfterConfigMap
        /\ UNCHANGED <<world, cluster, prov, job, queue, delayed, left>>
     \/ /\ ShouldWriteConfigMap
        /\ \/ WriteFails
           \/ /\ cm' = Written(cm, job.data)
              /\ rev' = rev + 1
              /\ queue' = (queue \/ (cm # None /\ EnqueuesUpdate(cm, cm')))
              /\ rs' = [rs EXCEPT !.cmrv = cm'.rv]
              /\ pc' = AfterConfigMap
              /\ UNCHANGED <<world, prov, sec, job, delayed, left>>

\* Look at the Secrets about to be written that were not collected before.
Unverified == {n \in Present(job.secs) : job.ex[n] = None}

VerifySecrets ==
  /\ pc = "verify"
  /\ \/ /\ \/ /\ \E n \in Unverified : ~Owned(sec[n], job.prov)
              /\ UNCHANGED left
           \/ Unverified # {} /\ Spend("fault")
        /\ Return(job.prov, FailPhase(rs, job.prov, FALSE), TRUE)
     \/ /\ \A n \in Unverified : Owned(sec[n], job.prov)
        /\ job' = [job EXCEPT
                     !.ex = [n \in Names |-> IF n \in Unverified THEN sec[n]
                                             ELSE @[n]],
                     !.todo = Present(job.secs)]
        /\ pc' = "secrets"
        /\ UNCHANGED left
  /\ UNCHANGED <<world, cluster, prov, rs, queue, delayed>>

ShouldWriteSecretForNewReference(n) ==
  job.ex[n] # None => job.ex[n].data.keyValue # job.secs[n].keyValue

\* shouldCreateOrUpdateSecret, likewise.
ShouldWriteSecret(n) == job.ex[n] # None => job.ex[n].data # job.secs[n]

\* K8sSecrets[n].SecretResourceVersion = rv, in the map of the job and, where
\* the two are the same map, in the state; without an entry, a nil dereference.
SetSecretVersion(n, rv) ==
  IF job.k8s[n] = None
  THEN Return(job.prov, "Running", TRUE) /\ UNCHANGED rs
  ELSE /\ job' = [job EXCEPT !.k8s[n].rv = rv, !.todo = @ \ {n}]
       /\ rs' = IF job.alias THEN [rs EXCEPT !.k8s[n].rv = rv] ELSE rs
       /\ UNCHANGED pc

CreateOrUpdateSecret(n) ==
  /\ pc = "secrets"
  /\ n \in job.todo
  /\ \/ /\ ~ShouldWriteSecret(n)
        /\ SetSecretVersion(n, job.ex[n].rv)
        /\ UNCHANGED <<world, cluster, prov, queue, delayed, left>>
     \/ /\ ShouldWriteSecret(n)
        /\ \/ WriteFails
           \/ /\ sec' = [sec EXCEPT ![n] = Written(@, job.secs[n])]
              /\ rev' = rev + 1
              /\ queue' = (queue \/ (sec[n] # None /\ EnqueuesUpdate(sec[n], sec'[n])))
              /\ SetSecretVersion(n, rev + 1)
              /\ UNCHANGED <<world, prov, cm, delayed, left>>

\* Collected Secrets that are no longer selected.  Without spec.secret the loop
\* runs too, but none is collected and it has nothing to do.
Removed == IF job.secPop THEN {n \in Present(job.ex) : job.k8s[n] = None} ELSE {}

\* Deleting a Secret that is gone is an error too.
ExpelSecret(n) ==
  /\ pc = "secrets"
  /\ job.todo = {}
  /\ n \in Removed
  /\ \/ WriteFails
     \/ /\ sec[n] = None
        /\ Return(job.prov, FailPhase(rs, job.prov, FALSE), TRUE)
        /\ UNCHANGED <<world, cluster, prov, rs, queue, delayed, left>>
     \/ /\ sec[n] # None
        /\ sec' = [sec EXCEPT ![n] = None]
        /\ queue' = (queue \/ EnqueuesDelete(sec[n]))
        /\ job' = [job EXCEPT !.ex[n] = None]
        /\ UNCHANGED <<world, prov, cm, rev, rs, pc, delayed, left>>

-----------------------------------------------------------------------------
(* End of a reconcile *)

RefreshEnabled ==
  KeyValueRefreshEnabled \/ FlagRefreshEnabled \/ SecretRefreshEnabled

\* The generation Finish records is the one the reconcile has worked on.
ObservedGenerationAtTheEnd == IF prov = None THEN job.prov.gen ELSE prov.gen
ObservedGeneration == job.prov.gen

Finish ==
  /\ pc = "secrets"
  /\ job.todo = {}
  /\ Removed = {}
  /\ rs' = [rs EXCEPT
              !.gen = ObservedGeneration,
              !.annotation = job.prov.annotation,
              !.k8s = IF job.secPop THEN job.k8s ELSE @,
              !.kvTag = IF job.kvTag # None THEN job.kvTag ELSE @,
              !.ffTag = IF job.ffTag # None THEN job.ffTag ELSE @,
              !.senTag = IF job.should \/ job.changed THEN job.senTag ELSE @]
  /\ Return(job.prov, "Complete", RefreshEnabled)
  /\ UNCHANGED <<world, cluster, prov, queue, delayed, left>>

\* The deferred merge patch of the status, by name, with the fields that
\* differ from the object read at the start; then the result is handled.
PatchStatus ==
  /\ pc = "patch"
  /\ \/ /\ prov' = IF prov # None /\ job.phase # job.prov.phase
                   THEN [prov EXCEPT !.phase = job.phase] ELSE prov
        /\ UNCHANGED left
     \/ /\ Spend("fault")
        /\ UNCHANGED prov
  /\ delayed' = (delayed \/ job.again)
  /\ pc' = "idle"
  /\ job' = NewJob
  /\ UNCHANGED <<world, cluster, rs, queue>>

\* The delayed add becomes due.  The work queue keeps one entry per provider.
RequeueFires ==
  /\ delayed
  /\ delayed' = FALSE
  /\ queue' = TRUE
  /\ UNCHANGED <<world, cluster, prov, rs, pc, job, left>>

\* The next refresh time of a feature passes.
Tick(timer) ==
  /\ timer \in rs.armed
  /\ rs' = Disarm(timer)
  /\ UNCHANGED <<world, cluster, prov, pc, job, queue, delayed, left>>

-----------------------------------------------------------------------------
(* The stores, the Key Vault and the users of the cluster *)

ChangeKeyValues(e, refs) ==
  /\ Spend("keyValue")
  /\ store' = [store EXCEPT ![e].keyValue = @ + 1, ![e].refs = refs]
  /\ UNCHANGED <<vault, cluster, prov, rs, pc, job, queue, delayed>>

ChangeFlags(e) ==
  /\ Spend("flag")
  /\ store' = [store EXCEPT ![e].flag = @ + 1]
  /\ UNCHANGED <<vault, cluster, prov, rs, pc, job, queue, delayed>>

\* The sentinel is touched to publish the key-values of this moment.
ChangeSentinel(e) ==
  /\ Spend("sentinel")
  /\ store' = [store EXCEPT ![e].sentinel = @ + 1,
                            ![e].published = store[e].keyValue]
  /\ UNCHANGED <<vault, cluster, prov, rs, pc, job, queue, delayed>>

RotateVault ==
  /\ Spend("vault")
  /\ vault' = vault + 1
  /\ UNCHANGED <<store, cluster, prov, rs, pc, job, queue, delayed>>

\* An edit changes the data or something beside them: the metadata, or a key beside
\* the document.
EditConfigMap ==
  /\ cm # None
  /\ Spend("edit")
  /\ \E data \in {cm.data, [keyValue |-> None, flag |-> None]} :
       cm' = [cm EXCEPT !.rv = rev + 1, !.data = data]
  /\ rev' = rev + 1
  /\ queue' = (queue \/ EnqueuesUpdate(cm, cm'))
  /\ UNCHANGED <<world, sec, prov, rs, pc, job, delayed>>

DeleteConfigMap ==
  /\ cm # None
  /\ Spend("edit")
  /\ cm' = None
  /\ queue' = (queue \/ EnqueuesDelete(cm))
  /\ UNCHANGED <<world, sec, rev, prov, rs, pc, job, delayed>>

EditSecret(n) ==
  /\ sec[n] # None
  /\ Spend("edit")
  /\ \E data \in {sec[n].data, [keyValue |-> None, vault |-> 0]} :
       sec' = [sec EXCEPT ![n].rv = rev + 1, ![n].data = data]
  /\ rev' = rev + 1
  /\ queue' = (queue \/ EnqueuesUpdate(sec[n], sec'[n]))
  /\ UNCHANGED <<world, cm, prov, rs, pc, job, delayed>>

DeleteSecret(n) ==
  /\ sec[n] # None
  /\ Spend("edit")
  /\ sec' = [sec EXCEPT ![n] = None]
  /\ queue' = (queue \/ EnqueuesDelete(sec[n]))
  /\ UNCHANGED <<world, cm, rev, prov, rs, pc, job, delayed>>

\* Somebody else creates an object under a target's name.
CreateForeignConfigMap ==
  /\ cm = None
  /\ Spend("foreign")
  /\ cm' = [own |-> 0, rv |-> rev + 1, stamp |-> 0,
            data |-> [keyValue |-> None, flag |-> None]]
  /\ rev' = rev + 1
  /\ UNCHANGED <<world, sec, prov, rs, pc, job, queue, delayed>>

CreateForeignSecret(n) ==
  /\ sec[n] = None
  /\ Spend("foreign")
  /\ sec' = [sec EXCEPT ![n] = [own |-> 0, rv |-> rev + 1, stamp |-> 0,
                                data |-> [keyValue |-> None, vault |-> 0]]]
  /\ rev' = rev + 1
  /\ UNCHANGED <<world, cm, prov, rs, pc, job, queue, delayed>>

NewProvider(spec, uid) ==
  [uid |-> uid, gen |-> 1, spec |-> spec, annotation |-> 0, phase |-> "New"]

\* Changes of the provider object that pass newEventFilter.
UpdateSpec(spec) ==
  /\ prov # None
  /\ spec # prov.spec
  /\ Spend("spec")
  /\ prov' = [prov EXCEPT !.spec = spec, !.gen = @ + 1]
  /\ queue' = TRUE
  /\ UNCHANGED <<world, cluster, rs, pc, job, delayed>>

UpdateAnnotations ==
  /\ prov # None
  /\ Spend("annotation")
  /\ prov' = [prov EXCEPT !.annotation = @ + 1]
  /\ queue' = TRUE
  /\ UNCHANGED <<world, cluster, rs, pc, job, delayed>>

DeleteProvider ==
  /\ prov # None
  /\ Spend("delete")
  /\ prov' = None
  /\ queue' = TRUE
  /\ UNCHANGED <<world, cluster, rs, pc, job, delayed>>

CreateProvider(spec) ==
  /\ prov = None
  /\ Spend("create")
  /\ prov' = NewProvider(spec, rev + 1)
  /\ rev' = rev + 1
  /\ queue' = TRUE
  /\ UNCHANGED <<world, cm, sec, rs, pc, job, delayed>>

\* Objects whose owner no longer exists are garbage collected.
Dangling(obj) == /\ obj # None
                 /\ obj.own # 0
                 /\ prov # None => obj.own # prov.uid

CollectConfigMap ==
  /\ Dangling(cm)
  /\ cm' = None
  /\ queue' = (queue \/ EnqueuesDelete(cm))
  /\ UNCHANGED <<world, sec, rev, prov, rs, pc, job, delayed, left>>

CollectSecret(n) ==
  /\ Dangling(sec[n])
  /\ sec' = [sec EXCEPT ![n] = None]
  /\ queue' = (queue \/ EnqueuesDelete(sec[n]))
  /\ UNCHANGED <<world, cm, rev, prov, rs, pc, job, delayed, left>>

\* The process dies and restarts: the state and the queues are gone, the first
\* list of the informer queues the provider.
Crash ==
  /\ Spend("crash")
  /\ rs' = NewState
  /\ pc' = "idle"
  /\ job' = NewJob
  /\ queue' = (prov # None)
  /\ delayed' = FALSE
  /\ UNCHANGED <<world, cluster, prov>>

-----------------------------------------------------------------------------
(* The specification *)

Init ==
  /\ \E refs \in RefSets :
       store = [e \in Endpoints |-> [keyValue |-> 1, flag |-> 1, sentinel |-> 0,
                                     published |-> 0, refs |-> refs]]
  /\ vault = 1
  /\ \E spec \in Specs : prov = NewProvider(spec, 1)
  /\ cm = None
  /\ sec = [n \in Names |-> None]
  /\ rev = 1
  /\ rs = NewState
  /\ pc = "idle"
  /\ job = NewJob
  /\ queue = TRUE
  /\ delayed = FALSE
  /\ left = Budget

\* The steps of Reconcile.
Reconcile ==
  \/ ReconcileNotFound
  \/ GetProviderFails
  \/ ReconcileRunning
  \/ ReconcileInvalid
  \/ ReconcileConflict
  \/ ClientManagerFails
  \/ ReconcileStart
  \/ CreateKeyValueSettings
  \/ InitializeSentinels
  \/ GetFeatureFlagSettings
  \/ ProcessFeatureFlagRefresh
  \/ ProcessKeyValueRefresh
  \/ RefreshKeyValueSettings
  \/ ProcessSecretReferenceRefresh
  \/ SettingsPanic
  \/ CreateOrUpdateConfigMap
  \/ VerifySecrets
  \/ \E n \in Names : CreateOrUpdateSecret(n)
  \/ \E n \in Names : ExpelSecret(n)
  \/ Finish
  \/ PatchStatus

\* The passing of time and the garbage collector.
Background ==
  \/ RequeueFires
  \/ \E timer \in Timers : Tick(timer)
  \/ CollectConfigMap
  \/ \E n \in Names : CollectSecret(n)

Outside ==
  \/ \E e \in Endpoints, refs \in RefSets : ChangeKeyValues(e, refs)
  \/ \E e \in Endpoints : ChangeFlags(e)
  \/ \E e \in Endpoints : ChangeSentinel(e)
  \/ RotateVault
  \/ EditConfigMap
  \/ DeleteConfigMap
  \/ \E n \in Names : EditSecret(n)
  \/ \E n \in Names : DeleteSecret(n)
  \/ CreateForeignConfigMap
  \/ \E n \in Names : CreateForeignSecret(n)
  \/ \E spec \in Specs : UpdateSpec(spec)
  \/ UpdateAnnotations
  \/ DeleteProvider
  \/ \E spec \in Specs : CreateProvider(spec)
  \/ Crash

Next == Reconcile \/ Background \/ Outside

Spec == Init /\ [][Next]_vars

\* The controller's worker keeps running, timers fire, the garbage collector
\* runs; nothing is assumed of the stores and the users.
Fairness ==
  /\ WF_vars(Reconcile)
  /\ WF_vars(RequeueFires)
  /\ \A timer \in Timers : WF_vars(Tick(timer))
  /\ WF_vars(CollectConfigMap)
  /\ \A n \in Names : WF_vars(CollectSecret(n))

FairSpec == Spec /\ Fairness

-----------------------------------------------------------------------------
(* Properties *)

\* The variables range over their types; UIDs and resource versions in use
\* were handed out by the API server.
TypeOK ==
  /\ store \in [Endpoints -> [keyValue : Nat, flag : Nat, sentinel : Nat,
                              published : Nat, refs : SUBSET Names]]
  /\ vault \in Nat
  /\ prov \in Provider \cup {None}
  /\ cm \in Object(ConfigMapData) \cup {None}
  /\ sec \in [Names -> Object(SecretData) \cup {None}]
  /\ rev \in Nat
  /\ rs \in State
  /\ pc \in Stages
  /\ job \in Job
  /\ queue \in BOOLEAN
  /\ delayed \in BOOLEAN
  /\ left \in [Kinds -> Nat]

NotAhead(tag, content) ==
  tag # None /\ content # None /\ tag.src = content.src => tag.ver <= content.ver

\* While the ConfigMap is the one the state knows (so that no full reconcile is
\* due), the ETags of the state are not newer than its data: what changed in
\* the store since then is seen by the next CheckPageETags.  Finish adopts the
\* tags and the write records the resource version at different times.
TagsSound ==
  cm # None /\ cm.rv = rs.cmrv =>
    /\ NotAhead(rs.kvTag, cm.data.keyValue)
    /\ NotAhead(rs.ffTag, cm.data.flag)

\* Settings are fetched from the endpoint of the provider that is reconciled:
\* the ClientManager kept in the state is not one of an earlier spec.
FetchesFromSpecEndpoint ==
  pc \in {"keyValues", "sentinel", "flags", "ffRefresh", "kvRefresh", "kvFetch"}
    => rs.client = job.prov.spec.endpoint

\* createOrUpdateSecrets finds metadata for every Secret it writes
\* (K8sSecrets[secretName] is dereferenced without a nil check), as long as the
\* provider is not deleted and created again while its state survives.
MetadataTracked ==
  pc = "secrets" => \A n \in job.todo : job.k8s[n] # None

\* processSecretReferenceRefresh merges resolved values only into a Secret that
\* was written for the same references: no Secret written by the controller
\* mixes the values of two versions of the key-values.
NoMixedSecret ==
  \A n \in Names : sec[n] # None /\ sec[n].rv = sec[n].stamp
                     => sec[n].data.keyValue # None

\* An object of somebody else that a reconcile overwrites or deletes was not there
\* when the reconcile looked at its name (verifyExistingTargetObject, the collection
\* of the Secrets, expelRemovedSecrets).
OwnershipRespected ==
  [][/\ /\ cm # None /\ cm' # None /\ cm'.stamp # cm.stamp
        /\ ~Owned(cm, job.prov)
        => Owned(job.cm, job.prov)
     /\ \A n \in Names :
          /\ sec[n] # None
          /\ \/ sec'[n] # None /\ sec'[n].stamp # sec[n].stamp
             \/ sec'[n] = None /\ ExpelSecret(n)
          /\ ~Owned(sec[n], job.prov)
          => Owned(job.ex[n], job.prov)]_vars

\* The provider of the running reconcile, or of the one about to start.
Reconciled == IF pc = "idle" THEN prov ELSE job.prov

\* "Expel the secrets which are no longer selected by the provider": no step of a
\* reconcile of a spec with a secret section, from its first reads to Finish, forgets
\* a recorded Secret that is still there and the provider's, whatever edits,
\* deletions, renames and failing steps came before; a forgotten Secret is never
\* expelled.  A reconcile of a spec without the section is outside: it empties the
\* record at its start (controller.go:183-184) and leaves the Secrets behind, though
\* lines 264-265 call expelRemovedSecrets for that case too.  So are a Secret
\* written by a reconcile that failed and one written before a restart, which
\* were never recorded, and the end of the provider itself, whose Secrets are
\* garbage collected.
ForgottenIsGone ==
  [][\A n \in Names :
       /\ rs.k8s[n] # None
       /\ rs'.k8s[n] = None
       /\ Reconcile
       /\ Reconciled # None
       /\ Reconciled.spec.secret # None
       => sec[n] = None \/ sec[n].own # Reconciled.uid]_vars

\* What the cluster should hold for the spec of the provider.
Selected(p) == IF p.spec.secret = None THEN {}
               ELSE {p.spec.secret} \cup store[p.spec.endpoint].refs

ConfigMapInSync(p) ==
  /\ cm # None
  /\ cm.own = p.uid
  /\ cm.data.keyValue # None
  /\ cm.data.keyValue.src = p.spec.endpoint
  /\ p.spec.keyValue = "page" => cm.data.keyValue = KeyValues(p.spec.endpoint)
  /\ (cm.data.flag = None) = (p.spec.flag = "none")
  /\ p.spec.flag = "refresh" => cm.data.flag = Flags(p.spec.endpoint)

SecretsInSync(p) ==
  \A n \in Selected(p) :
    /\ sec[n] # None
    /\ sec[n].own = p.uid
    /\ sec[n].data.keyValue = KeyValues(p.spec.endpoint)
    /\ p.spec.rotate => sec[n].data.vault = vault

\* Once the outside world is quiet, whatever edits, deletions, faults, crashes
\* and spec changes came before, the targets end up holding the current contents
\* of the store and the vault and the status says Complete, for good.  The specs
\* checked have a refresh: without one, nothing repeats a status patch that failed.
Converges ==
  <>[](prov # None /\ prov.spec.valid =>
         /\ ConfigMapInSync(prov)
         /\ prov.spec.keyValue = "page" => SecretsInSync(prov)
         /\ prov.phase = "Complete")

\* A touch of the sentinel that the recorded ETag does not cover, found by no
\* reconcile yet, makes the key-values it published arrive, though the check of
\* the sentinel, the fetch and the write may fail one by one.
TouchArrives ==
  \A v \in 1..(Budget["keyValue"] + 1) :
    /\ pc = "idle"
    /\ prov # None
    /\ prov.spec.keyValue = "sentinel"
    /\ rs.senTag # Sentinel(prov.spec.endpoint)
    /\ store[prov.spec.endpoint].published = v
    ~> cm # None /\ cm.data.keyValue # None /\ cm.data.keyValue.ver >= v

-----------------------------------------------------------------------------
(* Statements of the documentation, the comments and the tests *)

\* "By sentinel value updated in Azure App Configuration" the ConfigMap is
\* refreshed: the key-values published by the last touch of the sentinel reach
\* it (CreateTargetSettings reads the sentinel after the key-values).
PublishedArrives ==
  <>[](prov # None /\ prov.spec.keyValue = "sentinel" =>
         /\ cm # None
         /\ cm.data.keyValue # None
         /\ cm.data.keyValue.ver >= store[prov.spec.endpoint].published)

\* No reconcile is running or going to run.
Quiet == pc = "idle" /\ ~queue /\ ~delayed

\* "Complete sync key-values from App Configuration to target ConfigMap or
\* Secret": at rest in phase Complete, the target Secret was written from the
\* key-values the ConfigMap holds.
CompleteMeansSynced ==
  Quiet /\ prov # None /\ prov.phase = "Complete" /\ prov.spec.secret # None =>
    /\ cm # None
    /\ sec[prov.spec.secret] # None
    /\ sec[prov.spec.secret].data.keyValue = cm.data.keyValue

\* "The reconcile ... is running, just exit": phase Running is only found by a
\* reconcile while another one runs (PhaseRunning is persisted by a panic).
RunningMeansBusy == prov # None /\ prov.phase = "Running" => pc # "idle"
=============================================================================
