--------------------------- MODULE SettingLoader ---------------------------
(***************************************************************************)
(* How the loader turns selectors into settings: filters, pages and their   *)
(* ETags, failover between replicas that may lag, the classification of     *)
(* settings, the concurrent resolution of Key Vault references, and the     *)
(* refresh of secrets.  Reconciler takes all of this for single steps.      *)
(*                                                                         *)
(* An entry of the store is a key with a label and tags; entries are        *)
(* numbered in the order in which the service lists them.  Keys are         *)
(* sequences, so that prefixes can be trimmed.  A page ETag is the page.    *)
(***************************************************************************)
EXTENDS TypedSettings

CONSTANTS
  NoLabel,     \* the label of an entry without label, \x00 in a filter
  Entries,     \* sequence of the entries that may exist
  Settings(_), \* the settings an entry may have
  Snapshots,   \* function from the names of the snapshots to their settings
  Contents,    \* contents of the store to start with
  Selections(_),  \* selectors of a feature to look at
  TrimKeyPrefixes,  \* spec.configuration.trimKeyPrefixes
  SecretType,  \* spec.secret.target.secretData.type: default, json, ...
  Target,      \* name of the target Secret
  Clients,     \* sequence of clients in the order of failover
  PageSize,
  Budget       \* how often each kind of outside event may happen

Kinds == {"store", "vault", "fault"}

ASSUME LoaderAssumption ==
  /\ PageSize \in Nat \ {0}
  /\ Entries \in Seq(ToSet(Entries))
  /\ Clients \in Seq(ToSet(Clients)) /\ Clients # <<>>
  /\ Budget \in [Kinds -> Nat]

VARIABLES
  selectors,  \* spec.configuration.selectors or spec.featureFlag.selectors
  feature,    \* what they select: "keyValue" or "flag"
  store,      \* per client, the setting of each entry
  vault,      \* current version of each secret
  data,       \* what the ConfigMap holds
  secrets,    \* the data of the Secrets
  metadata,   \* ExistingK8sSecrets: per Secret the references behind it
  etags,      \* the pages each filter was loaded from; None before the first load
  pc, job,    \* the running call
  left

vars == <<selectors, feature, store, vault, data, secrets, metadata, etags, pc, job,
          left>>
targets == <<data, secrets, metadata, etags>>

-----------------------------------------------------------------------------
(* Maps *)

\* m[key] = value
Put(m, key, value) ==
  [k \in DOMAIN m \cup {key} |-> IF k = key THEN value ELSE m[k]]

\* The entries of new put into old.
Merged(new, old) ==
  [k \in DOMAIN new \cup DOMAIN old |-> IF k \in DOMAIN new THEN new[k] ELSE old[k]]

-----------------------------------------------------------------------------
(* Filters.  A selector has a set of keys or the name of a snapshot. *)

NormalizeFilter(filters) ==
  [i \in DOMAIN filters |->
     [filters[i] EXCEPT !.label = IF @ = None THEN NoLabel ELSE @,
                        !.tags = ToSet(@)]]

\* Of equal filters the last one stays.  Without filters all keys are selected,
\* with any label.
DeduplicateFilters(filters) ==
  IF filters = <<>>
  THEN <<[keys |-> {Entries[i].key : i \in DOMAIN Entries}, label |-> None,
          tags |-> {}, snapshot |-> None]>>
  ELSE SelectSeq([i \in DOMAIN filters |->
                    IF \E j \in (i + 1)..Len(filters) : filters[j] = filters[i]
                    THEN None ELSE filters[i]],
                 LAMBDA f : f # None)

Filters == DeduplicateFilters(NormalizeFilter(selectors))

-----------------------------------------------------------------------------
(* Pages *)

\* An omitted label stands for any label.  The key filters of feature flags are
\* prefixed, those of key-values may match feature flags too.
Matches(filter, i) ==
  /\ feature = "flag" => Entries[i].flag
  /\ Entries[i].key \in filter.keys
  /\ filter.label \in {None, Entries[i].label}
  /\ filter.tags \subseteq Entries[i].tags

\* The filter selects entry i, behind an entry.
Shown(content, filter, after, i) ==
  content[i] # None /\ i > after /\ Matches(filter, i)

\* The settings shown, with their entries, in the order of the service: those of the
\* first n entries.
ListedUpTo(content, filter, after) ==
  LET list[n \in 0..Len(Entries)] ==
        IF n = 0 THEN <<>>
        ELSE IF Shown(content, filter, after, n)
             THEN Append(list[n - 1], [entry |-> n, setting |-> content[n]])
             ELSE list[n - 1]
  IN  list

Listed(content, filter, after) == ListedUpTo(content, filter, after)[Len(Entries)]

FirstPage(rest) == SubSeq(rest, 1, Min({PageSize, Len(rest)}))

\* A snapshot that does not exist counts as empty.
LoadSnapshotSettings(name) ==
  IF name \in DOMAIN Snapshots THEN Snapshots[name] ELSE <<>>

-----------------------------------------------------------------------------
(* Classification of settings *)

\* The first prefix of the list that the key has is cut off.
TrimPrefix(key) ==
  LET hits == {i \in DOMAIN TrimKeyPrefixes : IsPrefix(TrimKeyPrefixes[i], key)}
  IN  IF hits = {} THEN key
      ELSE SubSeq(key, Len(TrimKeyPrefixes[Min(hits)]) + 1, Len(key))

Key(x) == TrimPrefix(Entries[x.entry].key)

NoRaw == [values |-> NoData, refs |-> Put(NoData, Target, NoData)]

\* A reference with the TLS tag has a Secret of its own.
SecretName(x) == IF x.setting.kind = "tls" THEN Key(x) ELSE Target

WithSetting(raw, x) ==
  LET key == Key(x)
      name == SecretName(x)
      old == IF name \in DOMAIN raw.refs THEN raw.refs[name] ELSE NoData
  IN  CASE key # <<>> /\ x.setting.kind = "plain" ->
             [raw EXCEPT !.values = Put(@, key, x.setting.value)]
        [] key # <<>> /\ x.setting.kind \in {"ref", "tls"} ->
             [raw EXCEPT !.refs = Put(@, name, Put(old, key, x.setting.value))]
        [] OTHER -> raw

\* A snapshot reference is replaced by the settings of the snapshot where it
\* stands; inside a snapshot it is ignored.
ProcessSettings(list) ==
  FoldLeft(LAMBDA raw, x :
             IF x.setting.kind = "snapshot" /\ Key(x) # <<>>
             THEN FoldLeft(WithSetting, raw, LoadSnapshotSettings(x.setting.value))
             ELSE WithSetting(raw, x),
           NoRaw, list)

\* The feature flags in their order, of equal keys the last one.
DeduplicatedFeatureFlags(list) ==
  LET last == {i \in DOMAIN list :
                 \A j \in (i + 1)..Len(list) :
                   Entries[list[j].entry].key # Entries[list[i].entry].key}
  IN  [i \in 1..Cardinality(last) |->
         list[CHOOSE k \in last : Cardinality({j \in last : j <= k}) = i].setting.value]

-----------------------------------------------------------------------------
(* The running call *)

\* A call lists pages or checks them, then resolves references.  client is its
\* place in Clients, and stable while the content of that client stays the same;
\* filters are those still to list, or the one being checked, todo those still to
\* check, after and page the place in the listing; name is the Secret being
\* resolved, open are its unresolved keys and got the others.
NewJob == [client |-> 1, filters |-> <<>>, todo |-> {}, after |-> 0, page |-> 1,
           list |-> <<>>, etags |-> NoData, stable |-> TRUE, values |-> <<>>,
           refs |-> NoData, name |-> None, open |-> {}, got |-> NoData,
           failed |-> FALSE, resolved |-> NoData, refresh |-> FALSE]

Content == store[Clients[job.client]]

\* A request starts at the beginning, whatever an earlier client answered.
ListRequest(client) == [NewJob EXCEPT !.client = client, !.filters = Filters]
CheckContinued(client) ==
  IF client = 1 THEN [NewJob EXCEPT !.todo = DOMAIN etags] ELSE [job EXCEPT !.client = client]
CheckRequest(client) == [NewJob EXCEPT !.client = client, !.todo = DOMAIN etags]

Spend(kind) == /\ left[kind] > 0
               /\ left' = [left EXCEPT ![kind] = @ - 1]

Return == pc' = "idle" /\ job' = NewJob

\* The client fails: the next one is asked, or the reconcile fails because there is
\* none or because the error allows no failover.
CallFails ==
  /\ pc \in {"list", "check"}
  /\ Spend("fault")
  /\ \/ /\ job.client < Len(Clients)
        /\ job' = IF pc = "list" THEN ListRequest(job.client + 1)
                  ELSE CheckRequest(job.client + 1)
        /\ UNCHANGED pc
     \/ Return
  /\ UNCHANGED <<selectors, feature, store, vault, targets>>

-----------------------------------------------------------------------------
(* Loading *)

StartLoad ==
  /\ pc = "idle"
  /\ etags = None
  /\ pc' = "list"
  /\ job' = ListRequest(1)
  /\ UNCHANGED <<selectors, feature, store, vault, targets, left>>

NextFilter(j) == [j EXCEPT !.filters = Tail(@), !.after = 0]

\* SelectorSettingsClient asks for one page after the other.  The ETag of a page
\* without settings is recorded or not: the code drops it when page.Settings is nil,
\* which the client library decides.
ListPage ==
  /\ pc = "list"
  /\ job.filters # <<>>
  /\ Head(job.filters).snapshot = None
  /\ LET filter == Head(job.filters)
         rest == Listed(Content, filter, job.after)
         page == FirstPage(rest)
         before == IF job.after = 0 THEN <<>> ELSE job.etags[filter]
         read(pages) == [job EXCEPT !.list = @ \o page, !.etags = Put(@, filter, pages)]
     IN  \/ job' = IF Len(rest) > PageSize
                   THEN [read(Append(before, page)) EXCEPT !.after = Last(page).entry]
                   ELSE NextFilter(read(Append(before, page)))
         \/ page = <<>> /\ job' = NextFilter(read(before))
  /\ UNCHANGED <<selectors, feature, store, vault, targets, pc, left>>

\* A snapshot never changes and has no ETags.
ListSnapshot ==
  /\ pc = "list"
  /\ job.filters # <<>>
  /\ Head(job.filters).snapshot # None
  /\ job' = NextFilter([job EXCEPT
                          !.list = @ \o LoadSnapshotSettings(Head(job.filters).snapshot)])
  /\ UNCHANGED <<selectors, feature, store, vault, targets, pc, left>>

ProcessList ==
  /\ pc = "list"
  /\ job.filters = <<>>
  /\ IF feature = "flag"
     THEN /\ job' = [job EXCEPT !.values = DeduplicatedFeatureFlags(job.list),
                                !.list = <<>>]
          /\ pc' = "publish"
     ELSE LET raw == ProcessSettings(job.list)
          IN  /\ job' = [job EXCEPT !.values = raw.values, !.refs = raw.refs,
                                    !.list = <<>>]
              /\ pc' = "resolve"
  /\ UNCHANGED <<selectors, feature, store, vault, targets, left>>

\* A Key Vault reference is null or cannot be parsed, has a bad type tag, meets no
\* spec.secret or no resolver; a snapshot reference cannot be parsed, or looked up
\* with the one client that is asked.
ProcessSettingsFails ==
  /\ pc = "list"
  /\ job.filters = <<>>
  /\ feature = "keyValue"
  /\ \E i \in DOMAIN job.list : /\ job.list[i].setting.kind \in {"ref", "tls", "snapshot"}
                               /\ Key(job.list[i]) # <<>>
  /\ Spend("fault")
  /\ Return
  /\ UNCHANGED <<selectors, feature, store, vault, targets>>

-----------------------------------------------------------------------------
(* Resolving references *)

\* The Secrets are taken one by one, in any order.
ResolveSecret(name) ==
  /\ pc = "resolve"
  /\ job.name = None
  /\ name \in DOMAIN job.refs \ DOMAIN job.resolved
  /\ job' = [job EXCEPT !.name = name, !.open = DOMAIN job.refs[name],
                        !.got = NoData]
  /\ UNCHANGED <<selectors, feature, store, vault, targets, pc, left>>

\* A reference without version gets the current one.
Resolve(ref) ==
  [secret |-> ref.secret,
   version |-> IF ref.version = None THEN vault[ref.secret] ELSE ref.version]

\* One goroutine per reference; a failure does not stop the others.
ResolveReference(key) ==
  /\ pc = "resolve"
  /\ key \in job.open
  /\ \/ /\ job' = [job EXCEPT !.open = @ \ {key},
                              !.got = Put(@, key, Resolve(job.refs[job.name][key]))]
        /\ UNCHANGED left
     \/ /\ Spend("fault")
        /\ job' = [job EXCEPT !.open = @ \ {key}, !.failed = TRUE]
  /\ UNCHANGED <<selectors, feature, store, vault, targets, pc>>

ResolutionNeverFails == FALSE
ResolutionFailed == job.failed

\* eg.Wait
SecretResolved ==
  /\ pc = "resolve"
  /\ job.name # None
  /\ job.open = {}
  /\ IF ResolutionFailed THEN Return
     ELSE /\ job' = [job EXCEPT !.resolved = Put(@, job.name, job.got),
                                !.name = None]
          /\ UNCHANGED pc
  /\ UNCHANGED <<selectors, feature, store, vault, targets, left>>

AllResolved ==
  /\ pc = "resolve"
  /\ DOMAIN job.resolved = DOMAIN job.refs
  /\ pc' = "publish"
  /\ UNCHANGED <<selectors, feature, store, vault, targets, job, left>>

\* The target Secret may be typed, the Secret of a TLS reference is not.
SecretData(name, values) ==
  CreateTypedSecrets(IF name = Target THEN SecretType ELSE "default", values)

\* The settings reach the targets and the ETags the state.
PublishLoad ==
  /\ pc = "publish"
  /\ ~job.refresh
  /\ data' = job.values
  /\ secrets' = [name \in DOMAIN job.resolved |-> SecretData(name, job.resolved[name])]
  /\ metadata' = job.refs
  /\ etags' = job.etags
  /\ Return
  /\ UNCHANGED <<selectors, feature, store, vault, left>>

-----------------------------------------------------------------------------
(* Refreshing *)

StartCheck ==
  /\ pc = "idle"
  /\ etags # None
  /\ pc' = "check"
  /\ job' = CheckRequest(1)
  /\ UNCHANGED <<selectors, feature, store, vault, targets, left>>

\* The check asks for entries without label where no label was given.
CheckedFilter(f) ==
  [keys |-> f.keys, label |-> IF f.label = None THEN NoLabel ELSE f.label,
   tags |-> f.tags, snapshot |-> f.snapshot]

AnyNumberOfPages(f) == TRUE

\* No page is missing at the end.
SameNumberOfPages(f) == job.page = Len(etags[f])

\* EtagSettingsClient: any filter next, its pages in order.  A page beyond the
\* recorded ones is asked for without condition.
CheckPage(f) ==
  /\ pc = "check"
  /\ f \in job.todo
  /\ job.filters \in {<<>>, <<f>>}
  /\ LET rest == Listed(Content, CheckedFilter(f), job.after)
         page == FirstPage(rest)
         more == Len(rest) > PageSize
         same == /\ job.page <= Len(etags[f])
                 /\ page = etags[f][job.page]
                 /\ more \/ SameNumberOfPages(f)
     IN  \/ /\ ~same
            /\ pc' = "list" /\ job' = ListRequest(1)
         \/ /\ same /\ more
            /\ job' = [job EXCEPT !.filters = <<f>>, !.page = @ + 1,
                                  !.after = Last(page).entry]
            /\ UNCHANGED pc
         \/ /\ same /\ ~more /\ job.todo # {f}
            /\ job' = [job EXCEPT !.todo = @ \ {f}, !.filters = <<>>, !.page = 1,
                                  !.after = 0]
            /\ UNCHANGED pc
         \/ /\ same /\ ~more /\ job.todo = {f}
            /\ Return
  /\ UNCHANGED <<selectors, feature, store, vault, targets, left>>

\* Snapshots alone leave nothing to check.
NothingToCheck ==
  /\ pc = "check"
  /\ job.todo = {}
  /\ Return
  /\ UNCHANGED <<selectors, feature, store, vault, targets, left>>

VersionedOnly(refs) ==
  LET keys(n) == {k \in DOMAIN refs[n] : refs[n][k].version # None}
  IN  [n \in {m \in DOMAIN refs : keys(m) # {}} |-> [k \in keys(n) |-> refs[n][k]]]

\* Only references without version are resolved again.
Unversioned(refs) ==
  LET keys(n) == {k \in DOMAIN refs[n] : refs[n][k].version = None}
  IN  [n \in {m \in DOMAIN refs : keys(m) # {}} |-> [k \in keys(n) |-> refs[n][k]]]

StartSecretRefresh ==
  /\ pc = "idle"
  /\ etags # None
  /\ feature = "keyValue"
  /\ pc' = "resolve"
  /\ job' = [NewJob EXCEPT !.refs = Unversioned(metadata), !.refresh = TRUE]
  /\ UNCHANGED <<selectors, feature, store, vault, targets, left>>

\* The data of a Secret is replaced key by key.
MergeResolved(name) ==
  IF name \notin DOMAIN job.resolved THEN secrets[name]
  ELSE Merged(SecretData(name, job.resolved[name]), secrets[name])

PublishSecrets ==
  /\ pc = "publish"
  /\ job.refresh
  /\ secrets' = [name \in DOMAIN secrets |-> MergeResolved(name)]
  /\ Return
  /\ UNCHANGED <<selectors, feature, store, vault, data, metadata, etags, left>>

-----------------------------------------------------------------------------
(* The store, its replicas and the vault *)

Moved(c) ==
  job' = [job EXCEPT !.stable = @ /\ (pc = "check" => Clients[job.client] # c)]

\* Changes of what the feature does not load are left out.
ChangeStore(i, setting) ==
  /\ Entries[i].flag = (feature = "flag")
  /\ store[Clients[1]][i] # setting
  /\ Spend("store")
  /\ store' = [store EXCEPT ![Clients[1]][i] = setting]
  /\ Moved(Clients[1])
  /\ UNCHANGED <<selectors, feature, vault, targets, pc>>

Replicate(c) ==
  /\ store[c] # store[Clients[1]]
  /\ store' = [store EXCEPT ![c] = store[Clients[1]]]
  /\ Moved(c)
  /\ UNCHANGED <<selectors, feature, vault, targets, pc, left>>

RotateSecret(s) ==
  /\ Spend("vault")
  /\ vault' = [vault EXCEPT ![s] = @ + 1]
  /\ UNCHANGED <<selectors, feature, store, targets, pc, job>>

-----------------------------------------------------------------------------
(* The specification *)

\* The secrets that references name.
VaultSecrets ==
  {s.value.secret : s \in {t \in UNION {Settings(i) : i \in DOMAIN Entries} :
                             t.kind \in {"ref", "tls"}}}

Init ==
  /\ feature \in {"keyValue", "flag"}
  /\ selectors \in Selections(feature)
  /\ \E content \in Contents : store = [c \in ToSet(Clients) |-> content]
  /\ vault = [s \in VaultSecrets |-> 1]
  /\ data = <<>>
  /\ secrets = NoData
  /\ metadata = NoData
  /\ etags = None
  /\ pc = "idle"
  /\ job = NewJob
  /\ left = Budget

Call ==
  \/ StartLoad
  \/ ListPage
  \/ ListSnapshot
  \/ ProcessList
  \/ \E name \in DOMAIN job.refs : ResolveSecret(name)
  \/ \E key \in job.open : ResolveReference(key)
  \/ SecretResolved
  \/ AllResolved
  \/ PublishLoad
  \/ \E f \in job.todo : CheckPage(f)
  \/ NothingToCheck
  \/ PublishSecrets

Outside ==
  \/ CallFails
  \/ ProcessSettingsFails
  \/ \E i \in DOMAIN Entries : \E s \in Settings(i) \cup {None} : ChangeStore(i, s)
  \/ \E s \in VaultSecrets : RotateSecret(s)

Next ==
  \/ Call
  \/ StartCheck
  \/ StartSecretRefresh
  \/ \E c \in ToSet(Clients) : Replicate(c)
  \/ Outside

\* The worker goes on; both refresh times keep falling due; replicas catch up.
Fairness ==
  /\ WF_vars(Call)
  /\ SF_vars(StartCheck)
  /\ SF_vars(StartSecretRefresh)
  /\ \A c \in ToSet(Clients) : WF_vars(Replicate(c))

Spec == Init /\ [][Next]_vars /\ Fairness

-----------------------------------------------------------------------------
(* Properties *)

\* What the selectors of the spec select, one after the other, snapshot
\* references replaced: no filter dropped, nothing overridden.
Selected(content) ==
  LET normal == NormalizeFilter(selectors)
      all == IF selectors = <<>> THEN Filters ELSE normal
      listed(f) == IF f.snapshot # None THEN LoadSnapshotSettings(f.snapshot)
                   ELSE Listed(content, f, 0)
      inlined(x) == IF x.setting.kind = "snapshot"
                    THEN LoadSnapshotSettings(x.setting.value) ELSE <<x>>
  IN  FlattenSeq([i \in DOMAIN all |->
        FlattenSeq([j \in DOMAIN listed(all[i]) |-> inlined(listed(all[i])[j])])])

\* The last of the selected settings with a key wins among those that end up in
\* the same target.
LastWins(list, kinds, f) ==
  LET found == {i \in DOMAIN list : list[i].setting.kind \in kinds /\ Key(list[i]) # <<>>}
  IN  f = [k \in {Key(list[i]) : i \in found} |->
             list[Max({i \in found : Key(list[i]) = k})].setting.value]

\* Each flag once, its last setting, in the order of these.
FlagsInOrder(list, flags) ==
  LET keyAt(i) == Entries[list[i].entry].key
      lasts == {i \in DOMAIN list : \A j \in DOMAIN list : keyAt(j) = keyAt(i) => j <= i}
      rank(i) == Cardinality({j \in lasts : j <= i})
  IN  /\ Len(flags) = Cardinality(lasts)
      /\ \A i \in lasts : flags[rank(i)] = list[i].setting.value

\* The ConfigMap and the known references are what the selectors select.
Right(content) ==
  LET list == Selected(content)
  IN  IF feature = "flag" THEN FlagsInOrder(list, data)
      ELSE /\ LastWins(list, {"plain"}, data)
           /\ Target \in DOMAIN metadata
           /\ LastWins(list, {"ref"}, metadata[Target])
           /\ LastWins(list, {"tls"}, [k \in DOMAIN metadata \ {Target} |-> metadata[k][k]])

\* Without selectors all labels are loaded, but only entries without label are
\* checked.
Checked(content) ==
  \/ selectors # <<>>
  \/ \A i \in DOMAIN Entries : content[i] # None => Entries[i].label = NoLabel

\* A check that finds nothing on a client whose content did not change meanwhile
\* is right: what was loaded, over any number of pages, from several times and
\* replicas, is what the selectors select there.
CheckSound ==
  [][pc = "check" /\ pc' = "idle" /\ left' = left /\ job.stable /\ Checked(Content)
       => Right(Content)]_vars

\* The settings on the first n of some pages.
OnPages(pages, n) == UNION {ToSet(pages[p]) : p \in 1..n}

\* The settings that a filter selects.
SelectedBy(filter, content) ==
  {[entry |-> i, setting |-> content[i]] :
     i \in {j \in DOMAIN Entries : Shown(content, filter, 0, j)}}

\* What the filter selects there is all checked: it gives a label, or nothing it selects
\* has one.
AllChecked(f, content) ==
  f.label = None => \A s \in SelectedBy(f, content) : Entries[s.entry].label = NoLabel

\* A check that finds nothing has missed nothing: page by page, whatever page breaks
\* there are, and after any failovers, the pages recorded for a filter have exactly the
\* settings that the client has for it, if its content did not change meanwhile.
\* The filter that stands for no selectors loads all labels and checks only entries
\* without label (settings_client.go:48-50): for it this holds while nothing it
\* selects has a label, and a new entry with a label is overlooked.
NoChangeOverlooked ==
  [][pc = "check" /\ pc' = "idle" /\ left' = left /\ job.stable =>
       \A f \in DOMAIN etags :
         AllChecked(f, Content) =>
           OnPages(etags[f], Len(etags[f])) = SelectedBy(f, Content)]_vars

\* The values in a Secret, those of a typed target read from its document.
SecretValues(n) ==
  IF n = Target /\ SecretType # "default" /\ Document \in DOMAIN secrets[n]
  THEN secrets[n][Document] ELSE secrets[n]

\* Every reference of a Secret is in it: resolution takes all or nothing, and a
\* refresh of the secrets without version leaves the others in place.
SecretsComplete ==
  /\ DOMAIN secrets = DOMAIN metadata
  /\ \A n \in DOMAIN secrets : DOMAIN SecretValues(n) = DOMAIN metadata[n]

\* Once changes stop, and processing has no lasting error, the ConfigMap has what the
\* selectors select, the last one first, and the Secrets have the current values.
LoadConverges ==
  <>[](Checked(store[Clients[1]]) =>
         /\ Right(store[Clients[1]])
         /\ \A n \in DOMAIN metadata : \A k \in DOMAIN metadata[n] :
              SecretValues(n)[k] = Resolve(metadata[n][k]))
=============================================================================
