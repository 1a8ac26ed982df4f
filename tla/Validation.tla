----------------------------- MODULE Validation -----------------------------
(***************************************************************************)
(* verifyObject: which provider specs the controller accepts, and what the *)
(* code behind it takes for granted of an accepted one.                    *)
(*                                                                         *)
(* An optional field is None or its value; texts are abstracted to what     *)
(* their checks tell apart.  A label filter is a sequence of characters, of *)
(* which the escape and the two reserved ones are told apart.               *)
(***************************************************************************)
EXTENDS Naturals, Sequences

CONSTANTS
  None,           \* a nil pointer; the empty text
  NotDuration,    \* a text that time.ParseDuration refuses
  Second, Minute  \* MinimalSentinelBasedRefreshInterval,
                  \* MinimalFeatureFlagRefreshInterval; MinimalSecretRefreshInterval

ASSUME DurationsAssumption ==
  Second \in Nat \ {0} /\ Minute \in Nat /\ Second <= Minute

-----------------------------------------------------------------------------
(* Fields of a spec *)

\* "broken" does not even parse.
Urls == {None, "https", "text", "broken"}
Uuids == {None, "uuid", "text"}
DataTypes == {"default", "properties", "yaml", "json"}
Reserved == {"*", ","}
Characters == {"\\", "a"} \cup Reserved

WorkloadIdentity == [clientId : Uuids, reference : BOOLEAN, account : BOOLEAN]
Auth == [principal : BOOLEAN, clientId : Uuids,
         workload : WorkloadIdentity \cup {None}]
DataOptions == [type : DataTypes, key : BOOLEAN, separator : BOOLEAN]
Selector == [key : BOOLEAN, snapshot : BOOLEAN,
             label : Seq(Characters) \cup {None}, tags : BOOLEAN]

Durations == Nat \cup {None, NotDuration}
Refresh == [enabled : BOOLEAN, interval : Durations]

Vault == [uri : Urls, auth : Auth \cup {None}]
SecretAuth == [default : Auth \cup {None}, vaults : Seq(Vault)]
FlagOptions == [selectors : Seq(Selector), refresh : Refresh \cup {None}]
SecretOptions == [auth : SecretAuth \cup {None}, refresh : Refresh \cup {None},
                  data : DataOptions \cup {None}]
Sentinel == [key : STRING, label : STRING \cup {None}]
ConfigurationRefresh == [enabled : BOOLEAN, interval : Durations,
                         sentinels : Seq(Sentinel) \cup {None}]
ProviderSpec ==
  [endpoint : Urls, connection : BOOLEAN, auth : Auth \cup {None},
   data : DataOptions \cup {None}, selectors : Seq(Selector),
   flag : FlagOptions \cup {None}, secret : SecretOptions \cup {None},
   refresh : ConfigurationRefresh \cup {None}]

\* time.ParseDuration as its callers use it: they drop the error.
ParseDuration(interval) == IF interval \notin {None, NotDuration} THEN interval ELSE 0

-----------------------------------------------------------------------------
(* The checks *)

HasNonEscapedPairwise(label) ==
  \E i \in 1..Len(label) :
    label[i] \in Reserved /\ (i > 1 => label[i - 1] # "\\")

\* An escape makes the scan skip the character after it.
HasNonEscapedValueInLabel(label) ==
  LET scan[i \in 1..(Len(label) + 2)] ==
        IF i > Len(label) THEN FALSE
        ELSE IF label[i] = "\\" THEN scan[i + 2]
        ELSE label[i] \in Reserved \/ scan[i + 1]
  IN  scan[1]

VerifyEither(selector) ==
  /\ selector.snapshot => ~selector.key /\ selector.label = None /\ ~selector.tags
  /\ selector.label # None => ~HasNonEscapedValueInLabel(selector.label)

VerifySelectorObject(selector) ==
  /\ selector.key \/ selector.snapshot
  /\ selector.snapshot => ~selector.key /\ selector.label = None /\ ~selector.tags
  /\ selector.label # None => ~HasNonEscapedValueInLabel(selector.label)

VerifyDataOptions(data) ==
  /\ data.key = (data.type # "default")
  /\ data.separator => data.type \in {"yaml", "json"}

VerifyRefreshIntervalAtMost(interval, minimal) == interval \notin {None, NotDuration}
VerifyRefreshInterval(interval, minimal) ==
  interval \notin {None, NotDuration} /\ interval >= minimal

VerifyEndpoint(url) == url = "https"

\* env tells whether WORKLOAD_IDENTITY_ENABLED is true and whether
\* WORKLOAD_IDENTITY_GLOBAL_SERVICE_ACCOUNT_ENABLED is anything but false.
VerifyWorkloadIdentityParameters(w, env) ==
  LET methods == {m \in {"clientId", "reference", "account"} :
                    CASE m = "clientId"  -> w.clientId # None
                      [] m = "reference" -> w.reference
                      [] m = "account"   -> w.account}
  IN  /\ env.workload
      /\ methods \cap {"clientId", "reference"} # {} => env.global
      /\ \E m \in {"clientId", "reference", "account"} : methods = {m}
      /\ w.clientId \in {None, "uuid"}

VerifyAuthObject(auth, env) ==
  auth # None =>
    /\ auth.clientId \in {None, "uuid"}
    /\ auth.workload # None => VerifyWorkloadIdentityParameters(auth.workload, env)
    /\ auth.principal => auth.clientId = None /\ auth.workload = None
    /\ auth.clientId # None => auth.workload = None

VerifyFeatureFlag(spec) ==
  spec.flag # None =>
    /\ spec.data # None
    /\ spec.data.type \in {"yaml", "json"}
    /\ spec.flag.selectors # <<>>
    /\ \A i \in 1..Len(spec.flag.selectors) :
         VerifySelectorObject(spec.flag.selectors[i])
    /\ spec.flag.refresh # None
         => VerifyRefreshInterval(spec.flag.refresh.interval, Second)

VerifySecret(spec, env) ==
  spec.secret # None =>
    /\ spec.secret.auth # None =>
         /\ VerifyAuthObject(spec.secret.auth.default, env)
         /\ \A i \in 1..Len(spec.secret.auth.vaults) :
              LET vault == spec.secret.auth.vaults[i]
              IN  /\ VerifyEndpoint(vault.uri)
                  /\ vault.auth # None
                  /\ VerifyAuthObject(vault.auth, env)
    /\ spec.secret.refresh # None
         => VerifyRefreshInterval(spec.secret.refresh.interval, Minute)
    /\ spec.secret.data # None => VerifyDataOptions(spec.secret.data)

\* Sentinels are compared by key and by the pointer to the label, which two
\* entries of a decoded spec share only when it is nil.
VerifySentinels(sentinels) ==
  \A i, j \in 1..Len(sentinels) :
    i # j /\ sentinels[i].label = None /\ sentinels[j].label = None
      => sentinels[i].key # sentinels[j].key

VerifyConnection(spec) ==
  /\ spec.endpoint # None \/ spec.connection
  /\ spec.connection => spec.endpoint = None /\ spec.auth = None
  /\ spec.endpoint # None => VerifyEndpoint(spec.endpoint)

VerifyObject(spec, env) ==
  /\ VerifyConnection(spec)
  /\ VerifyAuthObject(spec.auth, env)
  /\ spec.data # None => VerifyDataOptions(spec.data)
  /\ \A i \in 1..Len(spec.selectors) : VerifySelectorObject(spec.selectors[i])
  /\ VerifyFeatureFlag(spec)
  /\ VerifySecret(spec, env)
  /\ spec.refresh # None =>
       /\ spec.refresh.sentinels # None => VerifySentinels(spec.refresh.sentinels)
       /\ spec.refresh.interval # None
            => VerifyRefreshInterval(spec.refresh.interval, Second)

-----------------------------------------------------------------------------
(* Nil pointers the code behind verifyObject follows *)

\* CreateTokenCredential reads the client ID of a workload identity that has
\* neither a service account nor a reference.
CredentialDereferencesNil(auth) ==
  /\ auth # None
  /\ auth.workload # None
  /\ ~auth.workload.account
  /\ ~auth.workload.reference
  /\ auth.workload.clientId = None

\* NewConfigurationClientManager reads the endpoint unless there is a
\* connection string.
ClientManagerDereferencesNil(spec) ==
  ~spec.connection /\ (spec.endpoint = None \/ CredentialDereferencesNil(spec.auth))

\* SelectorSettingsClient reads the snapshot of a selector without key filter.
FetchDereferencesNil(selectors) ==
  \E i \in 1..Len(selectors) : ~selectors[i].key /\ ~selectors[i].snapshot

\* createSecretClients uses the URL of a vault whether it parsed or not.
SecretClientsDereferenceNil(spec) ==
  /\ spec.secret # None
  /\ spec.secret.auth # None
  /\ \/ CredentialDereferencesNil(spec.secret.auth.default)
     \/ \E i \in 1..Len(spec.secret.auth.vaults) :
          \/ spec.secret.auth.vaults[i].uri = "broken"
          \/ CredentialDereferencesNil(spec.secret.auth.vaults[i].auth)

\* A feature flag refresh reads the data options of the ConfigMap.
FlagRefreshDereferencesNil(spec) == spec.data = None
=============================================================================
