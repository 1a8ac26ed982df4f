------------------------ MODULE SettingLoaderProofs ------------------------
(***************************************************************************)
(* Proofs about SettingLoader: the Secrets of the default type hold all     *)
(* that was referenced, and a check of the pages overlooks no change.       *)
(***************************************************************************)
EXTENDS SettingLoader, LeastNumber, SequenceTheorems, TLAPS

-----------------------------------------------------------------------------
(* Secrets *)


\* The call has its fields, whatever they hold.
JobFields == DOMAIN job = DOMAIN NewJob

\* Nothing is resolved before the settings are listed.
Unresolved ==
  pc \in {"idle", "list", "check"} =>
    /\ job.refs = NoData /\ job.resolved = NoData
    /\ job.name = None /\ job.open = {} /\ ~job.refresh

\* Of the references of the Secrets taken so far all are resolved; those of the
\* current one are resolved, still open, or the call fails.
ResolvedWhole ==
  /\ DOMAIN job.resolved \subseteq DOMAIN job.refs
  /\ \A n \in DOMAIN job.resolved : DOMAIN job.resolved[n] = DOMAIN job.refs[n]
  /\ job.name # None \/ job.open # {} =>
       /\ job.name \in DOMAIN job.refs
       /\ job.open \subseteq DOMAIN job.refs[job.name]
       /\ DOMAIN job.got \subseteq DOMAIN job.refs[job.name]
       /\ ~job.failed => DOMAIN job.got \cup job.open = DOMAIN job.refs[job.name]
  /\ pc = "publish" => DOMAIN job.resolved = DOMAIN job.refs

\* A refresh resolves references of the Secrets it knows.
RefreshesKnown == job.refresh => job.refs = Unversioned(metadata)

Stages == pc \in {"idle", "list", "check", "resolve", "publish"}

CompleteInv ==
  /\ Stages /\ JobFields /\ Unresolved /\ ResolvedWhole /\ RefreshesKnown
  /\ SecretsComplete

\* The calls that list or check pages.
LEMMA ListingComplete ==
  ASSUME CompleteInv, pc \in {"list", "check"}, pc' \in {"idle", "list", "check"},
         JobFields', UNCHANGED <<secrets, metadata>>,
         job'.refs = job.refs, job'.resolved = job.resolved, job'.name = job.name,
         job'.open = job.open, job'.refresh = job.refresh
  PROVE  CompleteInv'
BY DEF CompleteInv, Stages, Unresolved, ResolvedWhole, RefreshesKnown, SecretsComplete,
   SecretValues,
   NoData

\* A call that has not begun to resolve.
LEMMA FreshComplete ==
  ASSUME CompleteInv, pc' \in {"idle", "list", "check"}, UNCHANGED <<secrets, metadata>>,
         DOMAIN job' = DOMAIN NewJob, job'.refs = NoData, job'.resolved = NoData,
         job'.name = None, job'.open = {}, ~job'.refresh
  PROVE  CompleteInv'
BY DEF CompleteInv, Stages, JobFields, Unresolved, ResolvedWhole, RefreshesKnown, SecretsComplete,
   SecretValues, NoData

\* No call has nothing to resolve.
LEMMA NewJobFresh ==
  /\ NewJob.refs = NoData /\ NewJob.resolved = NoData /\ NewJob.name = None
  /\ NewJob.open = {} /\ ~NewJob.refresh
BY DEF NewJob

\* A call that ends without publishing changes nothing.
LEMMA ReturnComplete ==
  ASSUME CompleteInv, Return, UNCHANGED <<secrets, metadata>>
  PROVE  CompleteInv'
BY FreshComplete, NewJobFresh DEF Return

\* There are no Secrets in the beginning.
LEMMA InitComplete == Init => CompleteInv
BY NewJobFresh DEF Init, CompleteInv, Stages, JobFields, Unresolved, ResolvedWhole, RefreshesKnown,
   SecretsComplete, SecretValues, NoData

\* Requests start from a new job.
LEMMA RequestFresh ==
  ASSUME NEW client
  PROVE  \A j \in {ListRequest(client), CheckRequest(client)} :
           /\ DOMAIN j = DOMAIN NewJob /\ j.refs = NoData /\ j.resolved = NoData
           /\ j.name = None /\ j.open = {} /\ ~j.refresh
BY DEF ListRequest, CheckRequest, NewJob

\* The fields that the steps change.
LEMMA Fields ==
  CompleteInv => {"filters", "after", "list", "etags", "stable", "values", "refs", "name", "open",
                  "got", "failed", "resolved", "refresh", "todo", "page"} \subseteq DOMAIN job
BY DEF CompleteInv, JobFields, NewJob

\* Calls that begin, are repeated with the next client, or give up.
LEMMA RequestsComplete ==
  ASSUME CompleteInv,
         StartLoad \/ StartCheck \/ CallFails \/ ProcessSettingsFails \/ NothingToCheck
  PROVE  CompleteInv'
<1>1. CASE StartLoad \/ StartCheck
  BY <1>1, RequestFresh, FreshComplete DEF StartLoad, StartCheck, targets
<1>2. CASE CallFails
  <2>1. CASE Return
    BY <1>2, <2>1, ReturnComplete DEF CallFails, targets
  <2>2. CASE ~ Return
    <3>1. /\ pc' \in {"list", "check"} /\ UNCHANGED <<secrets, metadata>>
          /\ job' = ListRequest(job.client + 1) \/ job' = CheckRequest(job.client + 1)
      BY <1>2, <2>2 DEF CallFails, targets
    <3> QED BY <3>1, RequestFresh, FreshComplete
  <2> QED BY <2>1, <2>2
<1>3. CASE ProcessSettingsFails \/ NothingToCheck
  BY <1>3, ReturnComplete DEF ProcessSettingsFails, NothingToCheck, targets
<1> QED BY <1>1, <1>2, <1>3

\* Listing a page resolves nothing.
LEMMA ListPageComplete == CompleteInv /\ ListPage => CompleteInv'
<1> SUFFICES ASSUME CompleteInv, ListPage PROVE CompleteInv'
  OBVIOUS
<1> DEFINE filter == Head(job.filters)
           rest == Listed(Content, filter, job.after)
           page == FirstPage(rest)
           before == IF job.after = 0 THEN <<>> ELSE job.etags[filter]
           list == job.list \o page
           tags(pages) == Put(job.etags, filter, pages)
           read(pages) == [job EXCEPT !.list = list, !.etags = tags(pages)]
           entry == Last(page).entry
<1>1. pc = "list" /\ pc' = pc /\ UNCHANGED <<secrets, metadata>>
  BY DEF ListPage, targets
<1>2. PICK pages \in {Append(before, page), before} :
        job' = [read(pages) EXCEPT !.after = entry] \/ job' = NextFilter(read(pages))
  BY DEF ListPage
<1> DEFINE known == tags(pages)
<1>3. \/ job' = [[job EXCEPT !.list = list, !.etags = known] EXCEPT !.after = entry]
      \/ job' = NextFilter([job EXCEPT !.list = list, !.etags = known])
  BY <1>2
<1> HIDE DEF list, known, entry
<1>4. /\ DOMAIN job' = DOMAIN job
      /\ job'.refs = job.refs /\ job'.resolved = job.resolved /\ job'.name = job.name
      /\ job'.open = job.open /\ job'.refresh = job.refresh
  BY <1>3, Fields DEF NextFilter
<1> QED BY <1>1, <1>4, ListingComplete DEF CompleteInv, JobFields

\* Listing a snapshot resolves nothing.
LEMMA ListSnapshotComplete == CompleteInv /\ ListSnapshot => CompleteInv'
<1> SUFFICES ASSUME CompleteInv, ListSnapshot PROVE CompleteInv'
  OBVIOUS
<1> DEFINE list == job.list \o LoadSnapshotSettings(Head(job.filters).snapshot)
<1>1. /\ pc = "list" /\ pc' = pc /\ UNCHANGED <<secrets, metadata>>
      /\ job' = NextFilter([job EXCEPT !.list = list])
  BY DEF ListSnapshot, targets
<1> HIDE DEF list
<1>2. /\ DOMAIN job' = DOMAIN job
      /\ job'.refs = job.refs /\ job'.resolved = job.resolved /\ job'.name = job.name
      /\ job'.open = job.open /\ job'.refresh = job.refresh
  BY <1>1, Fields DEF NextFilter
<1> QED BY <1>1, <1>2, ListingComplete DEF CompleteInv, JobFields

\* Checking a page resolves nothing.
LEMMA CheckPageComplete ==
  ASSUME CompleteInv, NEW f \in job.todo, CheckPage(f)
  PROVE  CompleteInv'
<1> DEFINE rest == Listed(Content, CheckedFilter(f), job.after)
           page == FirstPage(rest)
           entry == Last(page).entry
           todo == job.todo \ {f}
           next == job.page + 1
<1>1. /\ pc = "check" /\ UNCHANGED <<secrets, metadata>>
      /\ \/ pc' = "list" /\ job' = ListRequest(1)
         \/ pc' = pc /\ job' = [job EXCEPT !.filters = <<f>>, !.page = next, !.after = entry]
         \/ pc' = pc /\ job' = [job EXCEPT !.todo = todo, !.filters = <<>>, !.page = 1, !.after = 0]
         \/ Return
  BY DEF CheckPage, targets
<1> HIDE DEF entry, todo, next
<1>2. CASE pc' = "list" /\ job' = ListRequest(1)
  BY <1>1, <1>2, RequestFresh, FreshComplete
<1>3. CASE Return
  BY <1>1, <1>3, ReturnComplete
<1>4. CASE /\ pc' = pc
           /\ \/ job' = [job EXCEPT !.filters = <<f>>, !.page = next, !.after = entry]
              \/ job' = [job EXCEPT !.todo = todo, !.filters = <<>>, !.page = 1, !.after = 0]
  <2>1. /\ DOMAIN job' = DOMAIN job
        /\ job'.refs = job.refs /\ job'.resolved = job.resolved /\ job'.name = job.name
        /\ job'.open = job.open /\ job'.refresh = job.refresh
    BY <1>4, Fields
  <2> QED BY <1>1, <1>4, <2>1, ListingComplete DEF CompleteInv, JobFields
<1> QED BY <1>1, <1>2, <1>3, <1>4

\* The references of the listed settings, none of them resolved.
LEMMA ProcessListComplete == CompleteInv /\ ProcessList => CompleteInv'
<1> SUFFICES ASSUME CompleteInv, ProcessList PROVE CompleteInv'
  OBVIOUS
<1>0. /\ pc = "list" /\ UNCHANGED <<secrets, metadata>>
      /\ job.refs = NoData /\ job.resolved = NoData /\ job.name = None /\ job.open = {}
      /\ ~job.refresh
  BY DEF ProcessList, targets, CompleteInv, Unresolved
<1> DEFINE flags == DeduplicatedFeatureFlags(job.list)
           values == ProcessSettings(job.list).values
           refs == ProcessSettings(job.list).refs
<1>1. /\ job' = [job EXCEPT !.values = flags, !.list = <<>>] /\ pc' = "publish"
      \/ /\ job' = [job EXCEPT !.values = values, !.refs = refs, !.list = <<>>]
         /\ pc' = "resolve"
  BY DEF ProcessList
<1> HIDE DEF flags, values, refs
<1>2. /\ DOMAIN job' = DOMAIN job /\ job'.resolved = NoData /\ job'.name = None
      /\ job'.open = {} /\ ~job'.refresh
      /\ pc' = "publish" => job'.refs = NoData
      /\ pc' \in {"resolve", "publish"}
  BY <1>0, <1>1, Fields
<1>3. ResolvedWhole'
  BY <1>2 DEF ResolvedWhole, NoData
<1> QED BY <1>0, <1>2, <1>3 DEF CompleteInv, Stages, JobFields, Unresolved, RefreshesKnown,
        SecretsComplete, SecretValues

\* All references of the next Secret are open.
LEMMA ResolveSecretComplete ==
  ASSUME CompleteInv, NEW name \in DOMAIN job.refs, ResolveSecret(name)
  PROVE  CompleteInv'
<1> DEFINE open == DOMAIN job.refs[name]
<1>1. /\ pc = "resolve" /\ pc' = pc /\ UNCHANGED <<secrets, metadata>> /\ job.name = None
      /\ job' = [job EXCEPT !.name = name, !.open = open, !.got = NoData]
  BY DEF ResolveSecret, targets
<1> HIDE DEF open
<1>2. /\ DOMAIN job' = DOMAIN job /\ job'.refs = job.refs /\ job'.resolved = job.resolved
      /\ job'.name = name /\ job'.open = open /\ job'.got = NoData /\ job'.refresh = job.refresh
  BY <1>1, Fields
<1>3. DOMAIN NoData = {}
  BY DEF NoData
<1>4. ResolvedWhole'
  <2>1. job'.name \in DOMAIN job.refs /\ job'.open = DOMAIN job.refs[job'.name]
    BY <1>2 DEF open
  <2> QED BY <1>1, <1>2, <1>3, <2>1 DEF CompleteInv, ResolvedWhole
<1> QED BY <1>1, <1>2, <1>4 DEF CompleteInv, Stages, JobFields, Unresolved, RefreshesKnown,
        SecretsComplete, SecretValues

\* A reference is resolved, or the call will fail.
LEMMA ResolveReferenceComplete ==
  ASSUME CompleteInv, NEW key \in job.open, ResolveReference(key)
  PROVE  CompleteInv'
<1> DEFINE open == job.open \ {key}
           got == Put(job.got, key, Resolve(job.refs[job.name][key]))
<1>1. /\ pc = "resolve" /\ pc' = pc /\ UNCHANGED <<secrets, metadata>>
      /\ \/ job' = [job EXCEPT !.open = open, !.got = got]
         \/ job' = [job EXCEPT !.open = open, !.failed = TRUE]
  BY DEF ResolveReference, targets
<1>2. DOMAIN got = DOMAIN job.got \cup {key}
  BY DEF Put
<1> HIDE DEF open, got
<1>3. /\ DOMAIN job' = DOMAIN job /\ job'.refs = job.refs /\ job'.resolved = job.resolved
      /\ job'.name = job.name /\ job'.open = open /\ job'.refresh = job.refresh
      /\ \/ job'.got = got /\ job'.failed = job.failed
         \/ job'.got = job.got /\ job'.failed
  BY <1>1, Fields
<1>4. ResolvedWhole'
  <2>1. /\ job.name \in DOMAIN job.refs
        /\ job.open \subseteq DOMAIN job.refs[job.name]
        /\ DOMAIN job.got \subseteq DOMAIN job.refs[job.name]
        /\ ~job.failed => DOMAIN job.got \cup job.open = DOMAIN job.refs[job.name]
    BY DEF CompleteInv, ResolvedWhole
  <2>2. /\ job'.open \subseteq DOMAIN job.refs[job.name]
        /\ DOMAIN job'.got \subseteq DOMAIN job.refs[job.name]
    BY <1>2, <1>3, <2>1 DEF open
  <2>3. ~job'.failed => DOMAIN job'.got \cup job'.open = DOMAIN job.refs[job.name]
    BY <1>2, <1>3, <2>1 DEF open
  <2> QED BY <1>1, <1>3, <2>1, <2>2, <2>3 DEF CompleteInv, ResolvedWhole
<1> QED BY <1>1, <1>3, <1>4 DEF CompleteInv, Stages, JobFields, Unresolved, RefreshesKnown,
        SecretsComplete, SecretValues

\* All references of a Secret or none.
LEMMA SecretResolvedComplete == CompleteInv /\ SecretResolved => CompleteInv'
<1> SUFFICES ASSUME CompleteInv, SecretResolved PROVE CompleteInv'
  OBVIOUS
<1>0. pc = "resolve" /\ job.name # None /\ job.open = {} /\ UNCHANGED <<secrets, metadata>>
  BY DEF SecretResolved, targets
<1>1. CASE job.failed
  BY <1>0, <1>1, ReturnComplete DEF SecretResolved, ResolutionFailed
<1>2. CASE ~job.failed
  <2> DEFINE resolved == Put(job.resolved, job.name, job.got)
  <2>1. job' = [job EXCEPT !.resolved = resolved, !.name = None] /\ pc' = pc
    BY <1>2 DEF SecretResolved, ResolutionFailed
  <2>2. /\ DOMAIN resolved = DOMAIN job.resolved \cup {job.name}
        /\ \A n \in DOMAIN resolved :
             resolved[n] = IF n = job.name THEN job.got ELSE job.resolved[n]
    BY DEF Put
  <2> HIDE DEF resolved
  <2>3. /\ DOMAIN job' = DOMAIN job /\ job'.refs = job.refs /\ job'.resolved = resolved
        /\ job'.name = None /\ job'.open = {} /\ job'.refresh = job.refresh
    BY <1>0, <2>1, Fields
  <2>4. job.name \in DOMAIN job.refs /\ DOMAIN job.got = DOMAIN job.refs[job.name]
    BY <1>0, <1>2 DEF CompleteInv, ResolvedWhole
  <2>5. ResolvedWhole'
    <3>1. \A n \in DOMAIN resolved : DOMAIN resolved[n] = DOMAIN job.refs[n]
      BY <2>2, <2>4 DEF CompleteInv, ResolvedWhole
    <3>2. DOMAIN resolved \subseteq DOMAIN job.refs
      BY <2>2, <2>4 DEF CompleteInv, ResolvedWhole
    <3> QED BY <1>0, <2>1, <2>3, <3>1, <3>2 DEF ResolvedWhole
  <2> QED BY <1>0, <2>1, <2>3, <2>5 DEF CompleteInv, Stages, JobFields, Unresolved, RefreshesKnown,
          SecretsComplete, SecretValues
<1> QED BY <1>1, <1>2

\* The settings are complete.
LEMMA AllResolvedComplete == CompleteInv /\ AllResolved => CompleteInv'
<1> SUFFICES ASSUME CompleteInv, AllResolved PROVE CompleteInv'
  OBVIOUS
<1>1. /\ pc' = "publish" /\ UNCHANGED <<job, secrets, metadata>>
      /\ DOMAIN job.resolved = DOMAIN job.refs
  BY DEF AllResolved, targets
<1>2. ResolvedWhole'
  BY <1>1 DEF CompleteInv, ResolvedWhole
<1> QED BY <1>1, <1>2 DEF CompleteInv, Stages, JobFields, Unresolved, RefreshesKnown,
        SecretsComplete, SecretValues

\* A refresh starts with references that are known.
LEMMA StartSecretRefreshComplete == CompleteInv /\ StartSecretRefresh => CompleteInv'
<1> SUFFICES ASSUME CompleteInv, StartSecretRefresh PROVE CompleteInv'
  OBVIOUS
<1> DEFINE refs == Unversioned(metadata)
<1>1. /\ pc' = "resolve" /\ UNCHANGED <<secrets, metadata>>
      /\ job' = [NewJob EXCEPT !.refs = refs, !.refresh = TRUE]
  BY DEF StartSecretRefresh, targets
<1> HIDE DEF refs
<1>2. /\ DOMAIN job' = DOMAIN NewJob /\ job'.refs = refs /\ job'.resolved = NoData
      /\ job'.name = None /\ job'.open = {} /\ job'.refresh
  BY <1>1 DEF NewJob
<1>3. ResolvedWhole'
  BY <1>1, <1>2 DEF ResolvedWhole, NoData
<1>4. RefreshesKnown'
  BY <1>1, <1>2 DEF RefreshesKnown, refs, Unversioned
<1> QED BY <1>1, <1>2, <1>3, <1>4 DEF CompleteInv, Stages, JobFields, Unresolved,
        SecretsComplete, SecretValues

\* Secrets of the default type hold their values as they are.
LEMMA DefaultData ==
  ASSUME SecretType = "default", NEW name, NEW values
  PROVE  SecretData(name, values) = values
BY DEF SecretData, CreateTypedSecrets

\* What is published was resolved as a whole.
LEMMA PublishLoadComplete ==
  ASSUME SecretType = "default", CompleteInv, PublishLoad
  PROVE  CompleteInv'
<1>1. /\ pc = "publish" /\ pc' = "idle" /\ job' = NewJob /\ metadata' = job.refs
      /\ secrets' = [name \in DOMAIN job.resolved |-> SecretData(name, job.resolved[name])]
  BY DEF PublishLoad, Return
<1>2. /\ DOMAIN job.resolved = DOMAIN job.refs
      /\ \A n \in DOMAIN job.resolved : DOMAIN job.resolved[n] = DOMAIN job.refs[n]
  BY <1>1 DEF CompleteInv, ResolvedWhole
<1>3. /\ DOMAIN secrets' = DOMAIN metadata'
      /\ \A n \in DOMAIN secrets' : DOMAIN secrets'[n] = DOMAIN metadata'[n]
  BY <1>1, <1>2, DefaultData
<1>4. SecretsComplete'
  BY <1>3 DEF SecretsComplete, SecretValues
<1> QED BY <1>1, <1>4, NewJobFresh DEF CompleteInv, Stages, JobFields, Unresolved, ResolvedWhole,
        RefreshesKnown, NoData

\* A refresh adds no key and removes none.
LEMMA PublishSecretsComplete ==
  ASSUME SecretType = "default", CompleteInv, PublishSecrets
  PROVE  CompleteInv'
<1>1. /\ pc = "publish" /\ pc' = "idle" /\ job' = NewJob /\ UNCHANGED metadata /\ job.refresh
      /\ secrets' = [name \in DOMAIN secrets |-> MergeResolved(name)]
  BY DEF PublishSecrets, Return
<1>2. /\ DOMAIN secrets = DOMAIN metadata
      /\ \A n \in DOMAIN secrets : DOMAIN secrets[n] = DOMAIN metadata[n]
  BY DEF CompleteInv, SecretsComplete, SecretValues
<1>3. ASSUME NEW n \in DOMAIN secrets PROVE DOMAIN MergeResolved(n) = DOMAIN secrets[n]
  <2>1. CASE n \notin DOMAIN job.resolved
    BY <2>1 DEF MergeResolved
  <2>2. CASE n \in DOMAIN job.resolved
    <3>1. DOMAIN job.resolved[n] = DOMAIN job.refs[n] /\ n \in DOMAIN job.refs
      BY <2>2 DEF CompleteInv, ResolvedWhole
    <3>2. job.refs = Unversioned(metadata)
      BY <1>1 DEF CompleteInv, RefreshesKnown
    <3>3. DOMAIN job.refs[n] \subseteq DOMAIN metadata[n]
      BY <3>1, <3>2 DEF Unversioned
    <3>4. MergeResolved(n) = Merged(job.resolved[n], secrets[n])
      BY <2>2, DefaultData DEF MergeResolved
    <3>5. DOMAIN MergeResolved(n) = DOMAIN job.resolved[n] \cup DOMAIN secrets[n]
      BY <3>4 DEF Merged
    <3> QED BY <1>2, <3>1, <3>3, <3>5
  <2> QED BY <2>1, <2>2
<1>4. /\ DOMAIN secrets' = DOMAIN metadata'
      /\ \A n \in DOMAIN secrets' : DOMAIN secrets'[n] = DOMAIN metadata'[n]
  BY <1>1, <1>2, <1>3
<1>5. SecretsComplete'
  BY <1>4 DEF SecretsComplete, SecretValues
<1> QED BY <1>1, <1>5, NewJobFresh DEF CompleteInv, Stages, JobFields, Unresolved, ResolvedWhole,
        RefreshesKnown, NoData

\* Changes of the store and the vault.
LEMMA ElsewhereComplete ==
  ASSUME CompleteInv, UNCHANGED <<pc, secrets, metadata>>,
         job' = job \/ \E c : Moved(c)
  PROVE  CompleteInv'
<1>1. /\ DOMAIN job' = DOMAIN job /\ job'.refs = job.refs /\ job'.resolved = job.resolved
      /\ job'.name = job.name /\ job'.open = job.open /\ job'.got = job.got
      /\ job'.failed = job.failed /\ job'.refresh = job.refresh
  BY Fields DEF Moved
<1>2. ResolvedWhole'
  BY <1>1 DEF CompleteInv, ResolvedWhole
<1> QED BY <1>1, <1>2 DEF CompleteInv, Stages, JobFields, Unresolved, RefreshesKnown,
        SecretsComplete, SecretValues

\* Every step keeps the Secrets complete.
LEMMA StepComplete ==
  ASSUME SecretType = "default", CompleteInv, [Next]_vars
  PROVE  CompleteInv'
<1>1. CASE Call
  BY <1>1, RequestsComplete, ListPageComplete, ListSnapshotComplete, ProcessListComplete,
     ResolveSecretComplete, ResolveReferenceComplete, SecretResolvedComplete, AllResolvedComplete,
     PublishLoadComplete, CheckPageComplete, PublishSecretsComplete DEF Call
<1>2. CASE StartCheck \/ StartSecretRefresh \/ CallFails \/ ProcessSettingsFails
  BY <1>2, RequestsComplete, StartSecretRefreshComplete
<1>3. CASE \/ \E i \in DOMAIN Entries : \E s \in Settings(i) \cup {None} : ChangeStore(i, s)
           \/ \E c \in ToSet(Clients) : Replicate(c)
           \/ \E s \in VaultSecrets : RotateSecret(s)
           \/ UNCHANGED vars
  BY <1>3, ElsewhereComplete DEF ChangeStore, Replicate, RotateSecret, vars, targets
<1> QED BY <1>1, <1>2, <1>3 DEF Next, Outside

\* For every number of settings, Secrets, references, clients and faults: the Secrets
\* of the default type hold all references behind them, whatever fails meanwhile.
THEOREM SecretsAreComplete ==
  ASSUME SecretType = "default"
  PROVE  Spec => []SecretsComplete
<1>1. CompleteInv => SecretsComplete
  BY DEF CompleteInv
<1>2. CompleteInv /\ [Next]_vars => CompleteInv'
  BY StepComplete
<1> QED BY <1>1, <1>2, InitComplete, PTL DEF Spec

-----------------------------------------------------------------------------
(* Listings *)

\* The numbers and sequences among the constants.
LEMMA LoaderConstants ==
  /\ PageSize \in Nat /\ PageSize > 0
  /\ Len(Entries) \in Nat /\ DOMAIN Entries = 1..Len(Entries)
  /\ Len(Clients) \in Nat /\ DOMAIN Clients = 1..Len(Clients) /\ Len(Clients) > 0
<1>1. Len(Entries) \in Nat /\ DOMAIN Entries = 1..Len(Entries)
  BY LoaderAssumption, LenProperties
<1>2. Len(Clients) \in Nat /\ DOMAIN Clients = 1..Len(Clients) /\ Len(Clients) # 0
  <2>1. Clients \in Seq(ToSet(Clients)) /\ Clients # <<>>
    BY LoaderAssumption
  <2> QED BY <2>1, LenProperties, EmptySeq
<1> QED BY <1>1, <1>2, LoaderAssumption

\* The recursive definition of a listing, up to entry m.
IsListing(list, content, filter, after, m) ==
  list = [n \in 0..m |->
            IF n = 0 THEN <<>>
            ELSE IF Shown(content, filter, after, n)
                 THEN Append(list[n - 1], [entry |-> n, setting |-> content[n]])
                 ELSE list[n - 1]]

\* The recursive definition has a value.
LEMMA ListingExists ==
  ASSUME NEW content, NEW filter, NEW after, NEW m \in Nat
  PROVE  \E list : IsListing(list, content, filter, after, m)
<1> DEFINE Bad == {n \in Nat : ~ \E list : IsListing(list, content, filter, after, n)}
<1> SUFFICES ASSUME Bad # {} PROVE FALSE
  OBVIOUS
<1>1. PICK n \in Bad : \A j \in Bad : n <= j
  <2>1. Bad \subseteq Nat
    OBVIOUS
  <2> HIDE DEF Bad
  <2> QED BY <2>1, NatMinimum
<1>2. CASE n = 0
  <2>1. IsListing([i \in 0..0 |-> <<>>], content, filter, after, 0)
    BY DEF IsListing
  <2> QED BY <2>1, <1>2
<1>3. CASE n # 0
  <2>1. n \in Nat /\ n - 1 \in Nat
    BY <1>3
  <2>2. PICK k : IsListing(k, content, filter, after, n - 1)
    BY <1>1, <2>1
  <2> DEFINE item(i) == [entry |-> i, setting |-> content[i]]
             next(l, i) == IF Shown(content, filter, after, i)
                           THEN Append(l[i - 1], item(i)) ELSE l[i - 1]
             x == next(k, n)
             K == [i \in 0..n |-> IF i = n THEN x ELSE k[i]]
  <2>3. \A i \in 0..(n - 1) : k[i] = IF i = 0 THEN <<>> ELSE next(k, i)
    BY <2>2 DEF IsListing
  <2>4. K[n - 1] = k[n - 1]
    BY <2>1
  <2>5. ASSUME NEW i \in 0..n PROVE K[i] = IF i = 0 THEN <<>> ELSE next(K, i)
    <3>1. CASE i = n
      BY <3>1, <2>1, <2>4, <1>3
    <3>2. CASE i # n
      <4>1. i \in 0..(n - 1) /\ K[i] = k[i] /\ (i # 0 => K[i - 1] = k[i - 1])
        BY <3>2, <2>1
      <4> HIDE DEF K, item
      <4> QED BY <4>1, <2>3
    <3> QED BY <3>1, <3>2
  <2>6. IsListing(K, content, filter, after, n)
    <3>1. K = [i \in 0..n |-> K[i]]
      OBVIOUS
    <3> HIDE DEF K
    <3> QED BY <3>1, <2>5 DEF IsListing
  <2> QED BY <2>6
<1> QED BY <1>2, <1>3

\* The listing does what its recursive definition says.
LEMMA ListingUnfolds ==
  ASSUME NEW content, NEW filter, NEW after
  PROVE  \A n \in 0..Len(Entries) :
           ListedUpTo(content, filter, after)[n] =
             IF n = 0 THEN <<>>
             ELSE IF Shown(content, filter, after, n)
                  THEN Append(ListedUpTo(content, filter, after)[n - 1],
                              [entry |-> n, setting |-> content[n]])
                  ELSE ListedUpTo(content, filter, after)[n - 1]
<1>1. PICK list : IsListing(list, content, filter, after, Len(Entries))
  BY ListingExists, LoaderConstants
<1>2. IsListing(ListedUpTo(content, filter, after), content, filter, after, Len(Entries))
  BY <1>1 DEF IsListing, ListedUpTo
<1> QED BY <1>2 DEF IsListing

\* Up to entry n a listing has the settings that the filter selects there, in order.
IsListed(list, content, filter, after, n) ==
  /\ list \in Seq(SelectedBy(filter, content))
  /\ \A k \in 1..Len(list) : list[k].entry \in 1..n /\ list[k].entry > after
  /\ \A x \in SelectedBy(filter, content) :
       x.entry > after /\ x.entry <= n => \E k \in 1..Len(list) : list[k] = x
  /\ \A j, k \in 1..Len(list) : j < k => list[j].entry < list[k].entry

\* What a filter selects.
LEMMA SelectedItems ==
  ASSUME NEW content, NEW filter
  PROVE  /\ \A x \in SelectedBy(filter, content) :
              /\ x.entry \in 1..Len(Entries) /\ Shown(content, filter, 0, x.entry)
              /\ x = [entry |-> x.entry, setting |-> content[x.entry]]
         /\ \A i \in 1..Len(Entries) :
              Shown(content, filter, 0, i) =>
                [entry |-> i, setting |-> content[i]] \in SelectedBy(filter, content)
BY LoaderConstants DEF SelectedBy

\* A listing is right up to every entry.
LEMMA ListingRight ==
  ASSUME NEW content, NEW filter, NEW after \in Nat, NEW n \in 0..Len(Entries)
  PROVE  IsListed(ListedUpTo(content, filter, after)[n], content, filter, after, n)
<1> DEFINE list == ListedUpTo(content, filter, after)
           S == SelectedBy(filter, content)
           item(i) == [entry |-> i, setting |-> content[i]]
           Bad == {m \in 0..Len(Entries) : ~ IsListed(list[m], content, filter, after, m)}
<1>0. Len(Entries) \in Nat
  BY LoaderConstants
<1>1. \A m \in 0..Len(Entries) :
        list[m] = IF m = 0 THEN <<>>
                  ELSE IF Shown(content, filter, after, m) THEN Append(list[m - 1], item(m))
                  ELSE list[m - 1]
  BY ListingUnfolds
<1> HIDE DEF list, item
<1> SUFFICES ASSUME Bad # {} PROVE FALSE
  BY DEF list
<1>2. PICK m \in Bad : \A j \in Bad : m <= j
  <2>1. Bad \subseteq Nat
    BY <1>0
  <2> HIDE DEF Bad
  <2> QED BY <2>1, NatMinimum
<1>3. \A x \in S : /\ x.entry \in 1..Len(Entries) /\ Shown(content, filter, 0, x.entry)
                     /\ x = item(x.entry)
  BY SelectedItems DEF item
<1>4. CASE m = 0
  <2>1. list[0] = <<>>
    BY <1>0, <1>1
  <2>2. \A x \in S : ~(x.entry <= 0)
    BY <1>0, <1>3
  <2>3. IsListed(list[0], content, filter, after, 0)
    BY <2>1, <2>2 DEF IsListed
  <2> QED BY <1>2, <1>4, <2>3
<1>5. CASE m # 0
  <2> DEFINE old == list[m - 1]
  <2>1. m - 1 \in 0..Len(Entries) /\ m \in 1..Len(Entries) /\ m \in Nat
    BY <1>0, <1>5
  <2>2. IsListed(old, content, filter, after, m - 1)
    <3>1. m - 1 \notin Bad
      BY <1>2, <2>1
    <3> QED BY <2>1, <3>1
  <2>3. /\ old \in Seq(S) /\ Len(old) \in Nat
        /\ \A k \in 1..Len(old) : old[k].entry \in 1..(m - 1) /\ old[k].entry > after
        /\ \A x \in S : x.entry > after /\ x.entry <= m - 1 => \E k \in 1..Len(old) : old[k] = x
        /\ \A j, k \in 1..Len(old) : j < k => old[j].entry < old[k].entry
    BY <2>2, LenProperties DEF IsListed
  <2>4. \A i \in 1..Len(Entries) : i <= m => i <= m - 1 \/ i = m
    BY <1>0, <2>1
  <2> HIDE DEF S, old
  <2>5. CASE ~Shown(content, filter, after, m)
    <3>1. list[m] = old
      BY <1>1, <2>1, <2>5 DEF old
    <3>2. \A x \in S : x.entry > after => x.entry # m
      BY <1>3, <2>5 DEF Shown
    <3>3. \A k \in 1..Len(old) : old[k].entry \in 1..m
      BY <2>1, <2>3
    <3>4. \A x \in S : x.entry > after /\ x.entry <= m => \E k \in 1..Len(old) : old[k] = x
      BY <1>3, <2>3, <2>4, <3>2
    <3>5. IsListed(list[m], content, filter, after, m)
      BY <2>3, <3>1, <3>3, <3>4 DEF IsListed, S
    <3> QED BY <1>2, <3>5
  <2>6. CASE Shown(content, filter, after, m)
    <3> DEFINE new == Append(old, item(m))
    <3>1. list[m] = new
      <4>1. m # 0 /\ m \in 0..Len(Entries)
        BY <1>0, <2>1
      <4>2. list[m] = Append(list[m - 1], item(m))
        BY <1>1, <2>6, <4>1
      <4> QED BY <4>2 DEF old
    <3>2. item(m) \in S /\ m > after /\ item(m).entry = m
      <4>1. Shown(content, filter, 0, m)
        BY <2>1, <2>6 DEF Shown
      <4> QED BY <2>1, <2>6, <4>1, SelectedItems DEF S, item, Shown
    <3>3. /\ new \in Seq(S) /\ Len(new) = Len(old) + 1
          /\ \A i \in 1..Len(old) : new[i] = old[i]
          /\ new[Len(old) + 1] = item(m)
      BY <2>3, <3>2, AppendProperties
    <3> HIDE DEF new
    <3>4. \A k \in 1..Len(new) : k \in 1..Len(old) \/ k = Len(old) + 1
      BY <2>3, <3>3
    <3>5. ASSUME NEW k \in 1..Len(new) PROVE new[k].entry \in 1..m /\ new[k].entry > after
      <4>1. CASE k \in 1..Len(old)
        <5>1. new[k] = old[k] /\ old[k].entry \in 1..(m - 1) /\ old[k].entry > after
          BY <2>3, <3>3, <4>1
        <5> QED BY <2>1, <5>1
      <4>2. CASE k = Len(old) + 1
        <5>1. new[k].entry = m
          BY <3>2, <3>3, <4>2
        <5> QED BY <2>1, <3>2, <5>1
      <4> QED BY <3>4, <4>1, <4>2
    <3>6. ASSUME NEW x \in S, x.entry > after, x.entry <= m
          PROVE  \E k \in 1..Len(new) : new[k] = x
      <4>1. CASE x.entry = m
        <5>1. x = item(m)
          BY <1>3, <4>1
        <5> QED BY <2>3, <3>3, <5>1
      <4>2. CASE x.entry # m
        <5>1. PICK k \in 1..Len(old) : old[k] = x
          BY <1>3, <2>3, <2>4, <3>6, <4>2
        <5> QED BY <2>3, <3>3, <5>1
      <4> QED BY <4>1, <4>2
    <3>7. ASSUME NEW j \in 1..Len(new), NEW k \in 1..Len(new), j < k
          PROVE  new[j].entry < new[k].entry
      <4>1. j \in 1..Len(old)
        BY <2>3, <3>3, <3>7
      <4>2. CASE k \in 1..Len(old)
        BY <2>3, <3>3, <3>7, <4>1, <4>2
      <4>3. CASE k = Len(old) + 1
        <5>1. new[k].entry = m /\ new[j] = old[j]
          BY <3>2, <3>3, <4>1, <4>3
        <5>2. old[j].entry \in 1..(m - 1)
          BY <2>3, <4>1
        <5> QED BY <2>1, <5>1, <5>2
      <4> QED BY <3>4, <4>2, <4>3
    <3>8. IsListed(list[m], content, filter, after, m)
      BY <3>1, <3>3, <3>5, <3>6, <3>7 DEF IsListed, S
    <3> QED BY <1>2, <3>8
  <2> QED BY <2>5, <2>6
<1> QED BY <1>4, <1>5

\* The lesser of two numbers.
LEMMA MinOfTwo ==
  ASSUME NEW a \in Int, NEW b \in Int
  PROVE  Min({a, b}) = IF a <= b THEN a ELSE b
<1> DEFINE m == IF a <= b THEN a ELSE b
<1>1. m \in {a, b} /\ \A y \in {a, b} : m <= y
  OBVIOUS
<1>2. ASSUME NEW x \in {a, b}, \A y \in {a, b} : x <= y PROVE x = m
  BY <1>2
<1> QED BY <1>1, <1>2 DEF Min

\* A page has what the filter selects behind the entry, up to its last setting or, if
\* no page follows, to the end.
LEMMA PageRight ==
  ASSUME NEW content, NEW filter, NEW after \in Nat
  PROVE  LET rest == Listed(content, filter, after)
             page == FirstPage(rest)
             last == Last(page).entry
         IN  /\ Len(rest) \in Nat
             /\ Len(rest) > PageSize =>
                  /\ last \in Nat /\ last > after
                  /\ ToSet(page) = {x \in SelectedBy(filter, content) :
                                      x.entry > after /\ x.entry <= last}
             /\ ~(Len(rest) > PageSize) =>
                  ToSet(page) = {x \in SelectedBy(filter, content) : x.entry > after}
<1> DEFINE rest == Listed(content, filter, after)
           page == FirstPage(rest)
           last == Last(page).entry
           S == SelectedBy(filter, content)
           size == Min({PageSize, Len(rest)})
<1>0. Len(Entries) \in Nat /\ PageSize \in Nat /\ PageSize > 0
  BY LoaderConstants
<1>1. IsListed(rest, content, filter, after, Len(Entries))
  BY <1>0, ListingRight DEF Listed
<1>2. \A x \in S : x.entry \in 1..Len(Entries)
  BY SelectedItems
<1> HIDE DEF rest, S
<1>3. /\ rest \in Seq(S) /\ Len(rest) \in Nat
      /\ \A k \in 1..Len(rest) : rest[k] \in S /\ rest[k].entry \in 1..Len(Entries)
                                 /\ rest[k].entry > after
      /\ \A x \in S : x.entry > after => \E k \in 1..Len(rest) : rest[k] = x
      /\ \A j, k \in 1..Len(rest) : j < k => rest[j].entry < rest[k].entry
  BY <1>0, <1>1, <1>2, LenProperties, ElementOfSeq DEF IsListed, S
<1>4. size = IF PageSize <= Len(rest) THEN PageSize ELSE Len(rest)
  BY <1>0, <1>3, MinOfTwo
<1> HIDE DEF size
<1>5. size \in Nat /\ size <= Len(rest)
  BY <1>0, <1>3, <1>4
<1>6. page \in Seq(S) /\ Len(page) = size /\ \A i \in 1..size : page[i] = rest[i]
  <2>1. \A i \in 1..size : rest[i] \in S
    BY <1>3, <1>5
  <2>2. /\ SubSeq(rest, 1, size) \in Seq(S)
        /\ Len(SubSeq(rest, 1, size)) = IF 1 <= size THEN size - 1 + 1 ELSE 0
        /\ \A i \in 1..(size - 1 + 1) : SubSeq(rest, 1, size)[i] = rest[1 + i - 1]
    BY <1>5, <2>1, SubSeqProperties
  <2>3. page = SubSeq(rest, 1, size)
    BY DEF FirstPage, size
  <2>4. size - 1 + 1 = size /\ \A i \in 1..size : 1 + i - 1 = i
    BY <1>5
  <2> QED BY <1>5, <2>2, <2>3, <2>4
<1> HIDE DEF page
<1>7. ToSet(page) = {rest[i] : i \in 1..size}
  <2>1. DOMAIN page = 1..size
    BY <1>6, LenProperties
  <2> QED BY <1>6, <2>1 DEF ToSet
<1>8. ASSUME Len(rest) > PageSize
      PROVE  /\ last \in Nat /\ last > after
             /\ ToSet(page) = {x \in S : x.entry > after /\ x.entry <= last}
  <2>1. size = PageSize /\ size \in 1..Len(rest)
    BY <1>0, <1>3, <1>4, <1>8
  <2>2. last = rest[size].entry
    BY <1>0, <1>6, <2>1 DEF Last
  <2>3. last \in Nat /\ last > after
    BY <1>0, <1>3, <2>1, <2>2
  <2>4. ASSUME NEW k \in 1..Len(rest) PROVE rest[k].entry <= last <=> k \in 1..size
    <3>1. CASE k < size
      BY <1>0, <1>3, <2>1, <2>2, <3>1
    <3>2. CASE k = size
      BY <1>0, <1>3, <2>1, <2>2, <3>2
    <3>3. CASE k > size
      <4>1. last < rest[k].entry
        BY <1>3, <2>1, <2>2, <3>3
      <4> QED BY <1>0, <1>3, <2>1, <2>3, <3>3, <4>1
    <3> QED BY <1>5, <3>1, <3>2, <3>3
  <2>5. ASSUME NEW x \in S, x.entry > after, x.entry <= last PROVE x \in ToSet(page)
    BY <1>3, <1>7, <2>4, <2>5
  <2>6. ASSUME NEW x \in ToSet(page) PROVE x \in S /\ x.entry > after /\ x.entry <= last
    <3>1. PICK k \in 1..size : x = rest[k]
      BY <1>7, <2>6
    <3>2. k \in 1..Len(rest)
      BY <1>3, <2>1
    <3> QED BY <1>3, <2>4, <3>1, <3>2
  <2> QED BY <2>3, <2>5, <2>6
<1>9. ASSUME ~(Len(rest) > PageSize) PROVE ToSet(page) = {x \in S : x.entry > after}
  <2>1. size = Len(rest)
    BY <1>0, <1>3, <1>4, <1>9
  <2> QED BY <1>3, <1>7, <2>1
<1> QED BY <1>3, <1>8, <1>9 DEF rest, page, S

-----------------------------------------------------------------------------
(* Checking pages *)

IsSequence(s) == s \in Seq(ToSet(s))

\* Clients and budgets.
PagesTypes ==
  /\ JobFields
  /\ left \in [Kinds -> Nat]
  /\ DOMAIN store = ToSet(Clients)
  /\ job.client \in 1..Len(Clients)

\* ETags are recorded page by page.
EtagsTypes ==
  /\ \A f \in DOMAIN job.etags : IsSequence(job.etags[f])
  /\ etags # None => \A f \in DOMAIN etags : IsSequence(etags[f])
  /\ pc = "list" /\ job.after # 0 =>
       job.filters # <<>> /\ Head(job.filters) \in DOMAIN job.etags

\* A filter is found unchanged on the client.
Unchanged(f) ==
  OnPages(etags[f], Len(etags[f])) = SelectedBy(CheckedFilter(f), Content)

\* So far, the pages of a filter have what the client has.
UnchangedSoFar(f) ==
  OnPages(etags[f], job.page - 1) =
    {x \in SelectedBy(CheckedFilter(f), Content) : x.entry <= job.after}

\* The filters that are done are unchanged, and the pages of the one being checked.
CheckedSoFar ==
  pc = "check" =>
    /\ etags # None
    /\ job.todo \subseteq DOMAIN etags
    /\ job.page \in Nat \ {0}
    /\ job.after \in Nat
    /\ job.stable =>
         /\ \A f \in DOMAIN etags \ job.todo : Unchanged(f)
         /\ \A f \in job.todo : job.filters \in {<<>>, <<f>>} => UnchangedSoFar(f)

PagesInv == PagesTypes /\ EtagsTypes /\ CheckedSoFar

\* The fields of the call.
LEMMA JobHasFields ==
  ASSUME JobFields
  PROVE  {"client", "filters", "todo", "after", "page", "list", "etags", "stable", "values",
          "refs", "name", "open", "got", "failed", "resolved", "refresh"} = DOMAIN job
BY DEF JobFields, NewJob

\* What was recorded stays a sequence when a page is added.
LEMMA OneMorePage ==
  ASSUME NEW s, NEW x
  PROVE  IsSequence(<<>>) /\ (IsSequence(s) => IsSequence(Append(s, x)))
<1>1. IsSequence(<<>>)
  BY DEF IsSequence
<1>2. ASSUME IsSequence(s) PROVE IsSequence(Append(s, x))
  <2> DEFINE S == ToSet(s) \cup {x}
             t == Append(s, x)
  <2>1. s \in Seq(S)
    BY <1>2, SeqMonotonic DEF IsSequence
  <2> HIDE DEF S
  <2>2. x \in S
    BY DEF S
  <2>3. t \in Seq(S)
    BY <2>1, <2>2, AppendProperties
  <2> HIDE DEF t
  <2>4. t \in Seq(ToSet(t))
    <3>1. Len(t) \in Nat /\ t \in [1..Len(t) -> S] /\ DOMAIN t = 1..Len(t)
      BY <2>3, LenProperties
    <3>2. \A i \in 1..Len(t) : t[i] \in ToSet(t)
      BY <3>1 DEF ToSet
    <3>3. t \in [1..Len(t) -> ToSet(t)]
      BY <3>1, <3>2
    <3> QED BY <3>1, <3>3, IsASeq
  <2> QED BY <2>4 DEF IsSequence, t
<1> QED BY <1>1, <1>2

\* A sequence of pages has a length.
LEMMA SequenceLength ==
  ASSUME NEW s, IsSequence(s)
  PROVE  Len(s) \in Nat /\ DOMAIN s = 1..Len(s)
BY LenProperties DEF IsSequence

\* Each page adds its settings.
LEMMA PageByPage ==
  ASSUME NEW pages, NEW n \in Nat \ {0}
  PROVE  /\ OnPages(pages, 0) = {}
         /\ OnPages(pages, n) = OnPages(pages, n - 1) \cup ToSet(pages[n])
<1>1. 1..0 = {} /\ 1..n = 1..(n - 1) \cup {n}
  OBVIOUS
<1> QED BY <1>1 DEF OnPages

\* Nothing is selected before the first entry.
LEMMA NothingBefore ==
  ASSUME NEW content, NEW filter
  PROVE  {x \in SelectedBy(filter, content) : x.entry <= 0} = {}
BY SelectedItems, LoaderConstants

\* What a filter selects depends on the content alone.
LEMMA SameSelection ==
  ASSUME NEW f, UNCHANGED feature
  PROVE  SelectedBy(CheckedFilter(f), Content)' = SelectedBy(CheckedFilter(f), Content')
BY DEF SelectedBy, Shown, Matches

\* Before the first page of a filter nothing has changed.
LEMMA FirstPageNext ==
  ASSUME NEW f, UNCHANGED feature, job'.page = 1, job'.after = 0
  PROVE  UnchangedSoFar(f)'
<1>1. \A pages : OnPages(pages, 0) = {}
  BY 1 \in Nat \ {0}, PageByPage
<1>2. job'.page - 1 = 0
  OBVIOUS
<1>3. OnPages(etags[f], job.page - 1)' = {}
  BY <1>1, <1>2
<1>4. {x \in SelectedBy(CheckedFilter(f), Content') : x.entry <= 0} = {}
  BY NothingBefore
<1> QED BY <1>3, <1>4, SameSelection DEF UnchangedSoFar

\* What NewJob says of pages.
LEMMA NewJobPages ==
  /\ NewJob.client = 1 /\ NewJob.filters = <<>> /\ NewJob.todo = {} /\ NewJob.after = 0
  /\ NewJob.page = 1 /\ NewJob.etags = NoData /\ NewJob.stable = TRUE
  /\ DOMAIN NoData = {}
BY DEF NewJob, NoData

\* A call that is not about pages yet, or a request, or the end of a call.
LEMMA RequestPages ==
  ASSUME PagesInv, DOMAIN job' = DOMAIN NewJob, UNCHANGED <<feature, store>>,
         left' \in [Kinds -> Nat], job'.client \in 1..Len(Clients), job'.etags = NoData,
         job'.after = 0, etags' \in {etags, job.etags},
         pc' = "check" => /\ etags # None /\ etags' = etags /\ job'.todo = DOMAIN etags
                          /\ job'.page = 1
  PROVE  PagesInv'
<1>1. PagesTypes'
  BY DEF PagesInv, PagesTypes, JobFields
<1>2. EtagsTypes'
  BY NewJobPages DEF PagesInv, EtagsTypes
<1>3. CheckedSoFar'
  <2> SUFFICES ASSUME pc' = "check" PROVE CheckedSoFar'
    BY DEF CheckedSoFar
  <2>1. \A f : UnchangedSoFar(f)'
    BY FirstPageNext
  <2> QED BY <2>1 DEF CheckedSoFar
<1> QED BY <1>1, <1>2, <1>3 DEF PagesInv

\* Steps that follow the listing.
LEMMA CalmPages ==
  ASSUME PagesInv, DOMAIN job' = DOMAIN job, UNCHANGED <<store, etags>>,
         left' \in [Kinds -> Nat], job'.client = job.client, job'.etags = job.etags,
         pc' \notin {"list", "check"}
  PROVE  PagesInv'
BY DEF PagesInv, PagesTypes, EtagsTypes, CheckedSoFar, JobFields

\* Steps of others, that leave store and call alone.
LEMMA SamePages ==
  ASSUME PagesInv, UNCHANGED <<feature, store, etags, pc, job>>, left' \in [Kinds -> Nat]
  PROVE  PagesInv'
<1>1. Content' = Content
  BY DEF Content
<1>2. \A f : Unchanged(f)' = Unchanged(f) /\ UnchangedSoFar(f)' = UnchangedSoFar(f)
  BY <1>1, SameSelection DEF Unchanged, UnchangedSoFar
<1>3. CheckedSoFar'
  BY <1>2 DEF PagesInv, CheckedSoFar
<1> QED BY <1>3 DEF PagesInv, PagesTypes, EtagsTypes, JobFields

\* Budgets stay numbers.
LEMMA SpendNumber ==
  ASSUME PagesInv, NEW kind \in Kinds, Spend(kind)
  PROVE  left' \in [Kinds -> Nat] /\ left' # left
BY DEF PagesInv, PagesTypes, Spend

\* A call that ends.
LEMMA ReturnPages ==
  ASSUME PagesInv, Return, UNCHANGED <<feature, store>>, left' \in [Kinds -> Nat],
         etags' \in {etags, job.etags}
  PROVE  PagesInv'
<1>1. pc' = "idle" /\ job' = NewJob
  BY DEF Return
<1> QED BY <1>1, RequestPages, NewJobPages, LoaderConstants

\* Requests ask a client from the beginning.
LEMMA RequestFields ==
  ASSUME NEW client
  PROVE  /\ \A j \in {ListRequest(client), CheckRequest(client)} :
              /\ DOMAIN j = DOMAIN NewJob /\ j.client = client /\ j.etags = NoData
              /\ j.after = 0 /\ j.page = 1
         /\ CheckRequest(client).todo = DOMAIN etags
BY DEF ListRequest, CheckRequest, NewJob

\* Calls that begin, are repeated with the next client, or end.
LEMMA RequestsPages ==
  ASSUME PagesInv,
         \/ StartLoad \/ StartCheck \/ StartSecretRefresh \/ CallFails
         \/ ProcessSettingsFails \/ NothingToCheck \/ PublishLoad \/ PublishSecrets
  PROVE  PagesInv'
<1>0. left \in [Kinds -> Nat] /\ job.client \in 1..Len(Clients) /\ 1 \in 1..Len(Clients)
  BY LoaderConstants DEF PagesInv, PagesTypes
<1>1. CASE StartLoad \/ StartCheck
  BY <1>0, <1>1, RequestFields, RequestPages DEF StartLoad, StartCheck, targets
<1>2. CASE StartSecretRefresh
  <2> DEFINE refs == Unversioned(metadata)
  <2>1. /\ pc' = "resolve" /\ UNCHANGED <<feature, store, etags, left>>
        /\ job' = [NewJob EXCEPT !.refs = refs, !.refresh = TRUE]
    BY <1>2 DEF StartSecretRefresh, targets
  <2> HIDE DEF refs
  <2>2. /\ DOMAIN job' = DOMAIN NewJob /\ job'.client = 1 /\ job'.etags = NoData
        /\ job'.after = 0
    BY <2>1 DEF NewJob
  <2> QED BY <1>0, <2>1, <2>2, RequestPages
<1>3. CASE CallFails
  <2>1. /\ left' \in [Kinds -> Nat] /\ UNCHANGED <<feature, store, etags>>
        /\ pc \in {"list", "check"}
    BY <1>3, SpendNumber DEF CallFails, targets, Kinds
  <2>2. CASE Return
    BY <2>1, <2>2, ReturnPages
  <2>3. CASE ~Return
    <3>1. /\ job.client < Len(Clients) /\ pc' = pc
          /\ job' = IF pc = "list" THEN ListRequest(job.client + 1)
                    ELSE CheckRequest(job.client + 1)
      BY <1>3, <2>3 DEF CallFails
    <3>2. job.client + 1 \in 1..Len(Clients)
      BY <1>0, <3>1, LoaderConstants
    <3>3. pc = "check" => etags # None
      BY DEF PagesInv, CheckedSoFar
    <3> QED BY <2>1, <3>1, <3>2, <3>3, RequestFields, RequestPages
  <2> QED BY <2>2, <2>3
<1>4. CASE ProcessSettingsFails
  <2>1. left' \in [Kinds -> Nat] /\ UNCHANGED <<feature, store, etags>> /\ Return
    BY <1>4, SpendNumber DEF ProcessSettingsFails, targets, Kinds
  <2> QED BY <2>1, ReturnPages
<1>5. CASE NothingToCheck \/ PublishLoad \/ PublishSecrets
  <2>1. UNCHANGED <<feature, store, left>> /\ Return /\ etags' \in {etags, job.etags}
    BY <1>5 DEF NothingToCheck, PublishLoad, PublishSecrets, targets
  <2> QED BY <1>0, <2>1, ReturnPages
<1> QED BY <1>1, <1>2, <1>3, <1>4, <1>5

\* A page that is listed is recorded after those before it.
LEMMA ListPagePages == PagesInv /\ ListPage => PagesInv'
<1> SUFFICES ASSUME PagesInv, ListPage PROVE PagesInv'
  OBVIOUS
<1> DEFINE filter == Head(job.filters)
           rest == Listed(Content, filter, job.after)
           page == FirstPage(rest)
           before == IF job.after = 0 THEN <<>> ELSE job.etags[filter]
           list == job.list \o page
           tags(pages) == Put(job.etags, filter, pages)
           read(pages) == [job EXCEPT !.list = list, !.etags = tags(pages)]
           entry == Last(page).entry
<1>1. pc = "list" /\ pc' = pc /\ UNCHANGED <<store, etags, left>> /\ job.filters # <<>>
  BY DEF ListPage, targets
<1>2. PICK pages \in {Append(before, page), before} :
        job' = [read(pages) EXCEPT !.after = entry] \/ job' = NextFilter(read(pages))
  BY DEF ListPage
<1> DEFINE known == tags(pages)
<1>3. \/ job' = [[job EXCEPT !.list = list, !.etags = known] EXCEPT !.after = entry]
      \/ job' = NextFilter([job EXCEPT !.list = list, !.etags = known])
  BY <1>2
<1>4. filter \in DOMAIN known /\ \A f \in DOMAIN known : IsSequence(known[f])
  <2>1. IsSequence(before)
    BY <1>1, OneMorePage DEF PagesInv, EtagsTypes
  <2> HIDE DEF before, page, filter
  <2>2. IsSequence(pages)
    BY <1>2, <2>1, OneMorePage
  <2> QED BY <2>2 DEF Put, PagesInv, EtagsTypes
<1> HIDE DEF list, known, entry
<1>5. JobFields
  BY DEF PagesInv, PagesTypes
<1>6. /\ DOMAIN job' = DOMAIN job /\ job'.client = job.client /\ job'.etags = known
      /\ job'.after # 0 => job'.filters = job.filters
  BY <1>3, <1>5, JobHasFields DEF NextFilter
<1>7. EtagsTypes'
  BY <1>1, <1>4, <1>6 DEF PagesInv, EtagsTypes
<1> QED BY <1>1, <1>6, <1>7 DEF PagesInv, PagesTypes, JobFields, CheckedSoFar

\* A snapshot adds no ETags.
LEMMA ListSnapshotPages == PagesInv /\ ListSnapshot => PagesInv'
<1> SUFFICES ASSUME PagesInv, ListSnapshot PROVE PagesInv'
  OBVIOUS
<1> DEFINE list == job.list \o LoadSnapshotSettings(Head(job.filters).snapshot)
<1>1. /\ pc = "list" /\ pc' = pc /\ UNCHANGED <<store, etags, left>>
      /\ job' = NextFilter([job EXCEPT !.list = list])
  BY DEF ListSnapshot, targets
<1> HIDE DEF list
<1>2. JobFields
  BY DEF PagesInv, PagesTypes
<1>3. /\ DOMAIN job' = DOMAIN job /\ job'.client = job.client /\ job'.etags = job.etags
      /\ job'.after = 0
  BY <1>1, <1>2, JobHasFields DEF NextFilter
<1> QED BY <1>1, <1>3 DEF PagesInv, PagesTypes, JobFields, EtagsTypes, CheckedSoFar

\* The settings are classified and their references resolved.
LEMMA ResolvingPages ==
  ASSUME PagesInv,
         \/ ProcessList
         \/ \E name \in DOMAIN job.refs : ResolveSecret(name)
         \/ \E key \in job.open : ResolveReference(key)
         \/ SecretResolved \/ AllResolved
  PROVE  PagesInv'
<1>0. JobFields /\ left \in [Kinds -> Nat]
  BY DEF PagesInv, PagesTypes
<1>1. CASE ProcessList
  <2> DEFINE flags == DeduplicatedFeatureFlags(job.list)
             values == ProcessSettings(job.list).values
             refs == ProcessSettings(job.list).refs
  <2>1. /\ UNCHANGED <<store, etags, left>> /\ pc' \in {"publish", "resolve"}
        /\ \/ job' = [job EXCEPT !.values = flags, !.list = <<>>]
           \/ job' = [job EXCEPT !.values = values, !.refs = refs, !.list = <<>>]
    BY <1>1 DEF ProcessList, targets
  <2> HIDE DEF flags, values, refs
  <2>2. DOMAIN job' = DOMAIN job /\ job'.client = job.client /\ job'.etags = job.etags
    BY <1>0, <2>1, JobHasFields
  <2> QED BY <1>0, <2>1, <2>2, CalmPages
<1>2. ASSUME NEW name \in DOMAIN job.refs, ResolveSecret(name) PROVE PagesInv'
  <2> DEFINE open == DOMAIN job.refs[name]
  <2>1. /\ UNCHANGED <<store, etags, left>> /\ pc' = "resolve"
        /\ job' = [job EXCEPT !.name = name, !.open = open, !.got = NoData]
    BY <1>2 DEF ResolveSecret, targets
  <2> HIDE DEF open
  <2>2. DOMAIN job' = DOMAIN job /\ job'.client = job.client /\ job'.etags = job.etags
    BY <1>0, <2>1, JobHasFields
  <2> QED BY <1>0, <2>1, <2>2, CalmPages
<1>3. ASSUME NEW key \in job.open, ResolveReference(key) PROVE PagesInv'
  <2> DEFINE open == job.open \ {key}
             got == Put(job.got, key, Resolve(job.refs[job.name][key]))
  <2>1. /\ UNCHANGED <<store, etags>> /\ pc' = "resolve"
        /\ left' = left \/ Spend("fault")
        /\ \/ job' = [job EXCEPT !.open = open, !.got = got]
           \/ job' = [job EXCEPT !.open = open, !.failed = TRUE]
    BY <1>3 DEF ResolveReference, targets
  <2> HIDE DEF open, got
  <2>2. DOMAIN job' = DOMAIN job /\ job'.client = job.client /\ job'.etags = job.etags
    BY <1>0, <2>1, JobHasFields
  <2>3. left' \in [Kinds -> Nat]
    BY <1>0, <2>1, SpendNumber DEF Kinds
  <2> QED BY <2>1, <2>2, <2>3, CalmPages
<1>4. CASE SecretResolved
  <2> DEFINE resolved == Put(job.resolved, job.name, job.got)
  <2>1. /\ UNCHANGED <<feature, store, etags, left>> /\ pc = "resolve"
        /\ \/ Return
           \/ pc' = pc /\ job' = [job EXCEPT !.resolved = resolved, !.name = None]
    BY <1>4 DEF SecretResolved, targets
  <2> HIDE DEF resolved
  <2>2. CASE Return
    BY <1>0, <2>1, <2>2, ReturnPages
  <2>3. CASE ~Return
    <3>1. DOMAIN job' = DOMAIN job /\ job'.client = job.client /\ job'.etags = job.etags
      BY <1>0, <2>1, <2>3, JobHasFields
    <3> QED BY <1>0, <2>1, <2>3, <3>1, CalmPages
  <2> QED BY <2>2, <2>3
<1>5. CASE AllResolved
  BY <1>0, <1>5, CalmPages DEF AllResolved, targets
<1> QED BY <1>1, <1>2, <1>3, <1>4, <1>5

\* The page compared has what the client has, so that the filter is unchanged up to its
\* end, or as a whole if it was the last one.
LEMMA ComparedPage ==
  ASSUME PagesInv, NEW f \in job.todo, pc = "check", job.stable,
         job.filters \in {<<>>, <<f>>}, job.page <= Len(etags[f]),
         FirstPage(Listed(Content, CheckedFilter(f), job.after)) = etags[f][job.page]
  PROVE  LET rest == Listed(Content, CheckedFilter(f), job.after)
             last == Last(FirstPage(rest)).entry
         IN  /\ Len(rest) > PageSize =>
                  /\ last \in Nat
                  /\ OnPages(etags[f], job.page) =
                       {x \in SelectedBy(CheckedFilter(f), Content) : x.entry <= last}
             /\ ~(Len(rest) > PageSize) =>
                  OnPages(etags[f], job.page) = SelectedBy(CheckedFilter(f), Content)
<1> DEFINE filter == CheckedFilter(f)
           rest == Listed(Content, filter, job.after)
           page == FirstPage(rest)
           last == Last(page).entry
           S == SelectedBy(filter, Content)
<1>1. /\ job.page \in Nat \ {0} /\ job.after \in Nat
      /\ OnPages(etags[f], job.page - 1) = {x \in S : x.entry <= job.after}
  BY DEF PagesInv, CheckedSoFar, UnchangedSoFar
<1>2. OnPages(etags[f], job.page) = {x \in S : x.entry <= job.after} \cup ToSet(page)
  BY <1>1, PageByPage
<1>3. \A x \in S : x.entry \in Nat
  BY SelectedItems, LoaderConstants
<1>4. /\ Len(rest) > PageSize =>
           /\ last \in Nat /\ last > job.after
           /\ ToSet(page) = {x \in S : x.entry > job.after /\ x.entry <= last}
      /\ ~(Len(rest) > PageSize) => ToSet(page) = {x \in S : x.entry > job.after}
  BY <1>1, PageRight
<1> HIDE DEF rest, page, last, S
<1>5. ASSUME Len(rest) > PageSize
      PROVE  last \in Nat /\ OnPages(etags[f], job.page) = {x \in S : x.entry <= last}
  BY <1>1, <1>2, <1>3, <1>4, <1>5
<1>6. ASSUME ~(Len(rest) > PageSize) PROVE OnPages(etags[f], job.page) = S
  BY <1>1, <1>2, <1>3, <1>4, <1>6
<1> QED BY <1>5, <1>6 DEF rest, page, last, S

\* The check goes on to the next page or filter, finds a change, or ends.
LEMMA CheckPagePages ==
  ASSUME PagesInv, NEW f \in job.todo, CheckPage(f)
  PROVE  /\ PagesInv'
         /\ pc' = "idle" /\ job.stable => \A g \in DOMAIN etags : Unchanged(g)
<1> DEFINE filter == CheckedFilter(f)
           rest == Listed(Content, filter, job.after)
           page == FirstPage(rest)
           entry == Last(page).entry
           todo == job.todo \ {f}
           next == job.page + 1
           long == Len(rest) > PageSize
<1>0. /\ JobFields /\ left \in [Kinds -> Nat] /\ etags # None /\ f \in DOMAIN etags
      /\ job.todo \subseteq DOMAIN etags /\ job.page \in Nat \ {0} /\ job.after \in Nat
      /\ pc = "check" /\ job.filters \in {<<>>, <<f>>}
      /\ UNCHANGED <<feature, store, etags, left>>
  BY DEF CheckPage, PagesInv, PagesTypes, CheckedSoFar, targets
<1>1. Len(etags[f]) \in Nat
  BY <1>0, SequenceLength DEF PagesInv, EtagsTypes
<1>2. \/ pc' = "list" /\ job' = ListRequest(1)
      \/ /\ job.page <= Len(etags[f]) /\ page = etags[f][job.page]
         /\ \/ /\ long /\ pc' = pc
               /\ job' = [job EXCEPT !.filters = <<f>>, !.page = next, !.after = entry]
            \/ /\ ~long /\ job.page = Len(etags[f])
               /\ \/ /\ job.todo # {f} /\ pc' = pc
                     /\ job' = [job EXCEPT !.todo = todo, !.filters = <<>>, !.page = 1,
                                           !.after = 0]
                  \/ job.todo = {f} /\ Return
  BY <1>0, <1>1 DEF CheckPage, SameNumberOfPages
<1>3. CASE pc' = "list" /\ job' = ListRequest(1)
  BY <1>0, <1>3, RequestFields, RequestPages, LoaderConstants
<1>4. job.stable =>
        /\ \A g \in DOMAIN etags \ job.todo : Unchanged(g)
        /\ \A g \in job.todo : job.filters \in {<<>>, <<g>>} => UnchangedSoFar(g)
  BY <1>0 DEF PagesInv, CheckedSoFar
<1>5. CASE job.page <= Len(etags[f]) /\ page = etags[f][job.page] /\ pc' # "list"
  <2>1. job.stable =>
          /\ long => /\ entry \in Nat
                     /\ OnPages(etags[f], job.page) =
                          {x \in SelectedBy(filter, Content) : x.entry <= entry}
          /\ ~long => OnPages(etags[f], job.page) = SelectedBy(filter, Content)
    BY <1>0, <1>5, ComparedPage
  <2>2. long => entry \in Nat
    BY <1>0, PageRight
  <2> HIDE DEF entry, long, todo, next, page
  <2>3. CASE /\ long /\ pc' = pc
             /\ job' = [job EXCEPT !.filters = <<f>>, !.page = next, !.after = entry]
    <3>1. /\ DOMAIN job' = DOMAIN job /\ job'.client = job.client /\ job'.etags = job.etags
          /\ job'.todo = job.todo /\ job'.filters = <<f>> /\ job'.page = next
          /\ job'.after = entry /\ job'.stable = job.stable
      BY <1>0, <2>3, JobHasFields
    <3>2. Content' = Content
      BY <1>0, <3>1 DEF Content
    <3>3. next \in Nat \ {0} /\ next - 1 = job.page
      BY <1>0 DEF next
    <3>4. ASSUME job.stable, NEW g \in DOMAIN etags \ job.todo PROVE Unchanged(g)'
      BY <1>0, <1>4, <3>2, <3>4, SameSelection DEF Unchanged
    <3>5. ASSUME job.stable PROVE UnchangedSoFar(f)'
      BY <1>0, <2>1, <2>3, <3>1, <3>2, <3>3, <3>5, SameSelection DEF UnchangedSoFar
    <3>6. \A g : <<f>> \in {<<>>, <<g>>} => g = f
      OBVIOUS
    <3>7. CheckedSoFar'
      BY <1>0, <2>2, <2>3, <3>1, <3>3, <3>4, <3>5, <3>6 DEF CheckedSoFar
    <3> QED BY <1>0, <2>3, <3>1, <3>7 DEF PagesInv, PagesTypes, EtagsTypes, JobFields
  <2>4. ASSUME ~long, job.page = Len(etags[f]), job.stable, NEW g \in DOMAIN etags \ todo
        PROVE  Unchanged(g)
    <3>1. CASE g = f
      BY <2>1, <2>4, <3>1 DEF Unchanged
    <3>2. CASE g # f
      BY <1>4, <2>4, <3>2 DEF todo
    <3> QED BY <3>1, <3>2
  <2>5. CASE /\ ~long /\ job.page = Len(etags[f]) /\ pc' = pc
             /\ job' = [job EXCEPT !.todo = todo, !.filters = <<>>, !.page = 1, !.after = 0]
    <3>1. /\ DOMAIN job' = DOMAIN job /\ job'.client = job.client /\ job'.etags = job.etags
          /\ job'.todo = todo /\ job'.filters = <<>> /\ job'.page = 1
          /\ job'.after = 0 /\ job'.stable = job.stable
      BY <1>0, <2>5, JobHasFields
    <3>2. Content' = Content
      BY <1>0, <3>1 DEF Content
    <3>3. ASSUME job.stable, NEW g \in DOMAIN etags \ todo PROVE Unchanged(g)'
      BY <1>0, <2>4, <2>5, <3>2, <3>3, SameSelection DEF Unchanged
    <3>4. \A g : UnchangedSoFar(g)'
      BY <1>0, <3>1, FirstPageNext
    <3>5. todo \subseteq DOMAIN etags
      BY <1>0 DEF todo
    <3>6. CheckedSoFar'
      BY <1>0, <2>5, <3>1, <3>3, <3>4, <3>5 DEF CheckedSoFar
    <3> QED BY <1>0, <2>5, <3>1, <3>6 DEF PagesInv, PagesTypes, EtagsTypes, JobFields
  <2>6. CASE ~long /\ job.page = Len(etags[f]) /\ job.todo = {f} /\ Return
    <3>1. PagesInv'
      BY <1>0, <2>6, ReturnPages
    <3>2. todo = {}
      BY <2>6 DEF todo
    <3> QED BY <2>4, <2>6, <3>1, <3>2
  <2>7. pc' = pc => pc' # "idle"
    BY <1>0
  <2> QED BY <1>2, <1>5, <2>3, <2>5, <2>6, <2>7 DEF long, entry, next, todo, page
<1> HIDE DEF page, entry, todo, next, long
<1> QED BY <1>0, <1>2, <1>3, <1>5 DEF Return

\* A change of another client leaves the content being checked alone, one of the client
\* itself makes the check unstable.
LEMMA MovedPages ==
  ASSUME PagesInv, NEW c \in ToSet(Clients), NEW content, Moved(c),
         UNCHANGED <<feature, etags, pc>>, left' \in [Kinds -> Nat],
         store' = [store EXCEPT ![c] = content]
  PROVE  PagesInv'
<1> DEFINE stable == job.stable /\ (pc = "check" => Clients[job.client] # c)
<1>0. JobFields /\ DOMAIN store = ToSet(Clients) /\ job.client \in 1..Len(Clients)
  BY DEF PagesInv, PagesTypes
<1>1. job' = [job EXCEPT !.stable = stable]
  BY DEF Moved
<1> HIDE DEF stable
<1>2. /\ DOMAIN job' = DOMAIN job /\ job'.client = job.client /\ job'.etags = job.etags
      /\ job'.filters = job.filters /\ job'.todo = job.todo /\ job'.page = job.page
      /\ job'.after = job.after /\ job'.stable = stable
  BY <1>0, <1>1, JobHasFields
<1>3. PagesTypes' /\ EtagsTypes'
  BY <1>2 DEF PagesInv, PagesTypes, EtagsTypes, JobFields
<1>4. CheckedSoFar'
  <2> SUFFICES ASSUME pc = "check" PROVE CheckedSoFar'
    BY DEF CheckedSoFar
  <2>1. /\ etags # None /\ job.todo \subseteq DOMAIN etags /\ job.page \in Nat \ {0}
        /\ job.after \in Nat
    BY DEF PagesInv, CheckedSoFar
  <2>2. ASSUME stable
        PROVE  /\ \A f \in DOMAIN etags \ job.todo : Unchanged(f)'
               /\ \A f \in job.todo : job.filters \in {<<>>, <<f>>} => UnchangedSoFar(f)'
    <3>1. job.stable /\ Clients[job.client] # c
      BY <2>2 DEF stable
    <3>2. Content' = Content
      <4>1. Clients[job.client] \in DOMAIN store
        BY <1>0, LoaderConstants DEF ToSet
      <4> QED BY <1>2, <3>1, <4>1 DEF Content
    <3>3. \A f : Unchanged(f)' = Unchanged(f) /\ UnchangedSoFar(f)' = UnchangedSoFar(f)
      BY <1>2, <3>2, SameSelection DEF Unchanged, UnchangedSoFar
    <3> QED BY <3>1, <3>3 DEF PagesInv, CheckedSoFar
  <2> QED BY <1>2, <2>1, <2>2 DEF CheckedSoFar
<1> QED BY <1>3, <1>4 DEF PagesInv

\* The store, its replicas and the vault.
LEMMA ElsewherePages ==
  ASSUME PagesInv,
         \/ \E i \in DOMAIN Entries : \E s \in Settings(i) \cup {None} : ChangeStore(i, s)
         \/ \E c \in ToSet(Clients) : Replicate(c)
         \/ \E s \in VaultSecrets : RotateSecret(s)
         \/ UNCHANGED vars
  PROVE  PagesInv'
<1>0. left \in [Kinds -> Nat]
  BY DEF PagesInv, PagesTypes
<1>1. ASSUME NEW i, NEW s, ChangeStore(i, s) PROVE PagesInv'
  <2> DEFINE content == [store[Clients[1]] EXCEPT ![i] = s]
  <2>1. /\ Moved(Clients[1]) /\ UNCHANGED <<feature, etags, pc>>
        /\ store' = [store EXCEPT ![Clients[1]] = content]
    BY <1>1 DEF ChangeStore, targets
  <2>2. left' \in [Kinds -> Nat]
    BY <1>1, SpendNumber DEF ChangeStore, Kinds
  <2>3. Clients[1] \in ToSet(Clients)
    BY LoaderConstants DEF ToSet
  <2> HIDE DEF content
  <2> QED BY <2>1, <2>2, <2>3, MovedPages
<1>2. ASSUME NEW c \in ToSet(Clients), Replicate(c) PROVE PagesInv'
  BY <1>0, <1>2, MovedPages DEF Replicate, targets
<1>3. ASSUME NEW s, RotateSecret(s) PROVE PagesInv'
  <2>1. UNCHANGED <<feature, store, etags, pc, job>>
    BY <1>3 DEF RotateSecret, targets
  <2>2. left' \in [Kinds -> Nat]
    BY <1>3, SpendNumber DEF RotateSecret, Kinds
  <2> QED BY <2>1, <2>2, SamePages
<1>4. CASE UNCHANGED vars
  BY <1>0, <1>4, SamePages DEF vars, targets
<1> QED BY <1>1, <1>2, <1>3, <1>4

\* Nothing is recorded in the beginning.
LEMMA InitPages == Init => PagesInv
<1> SUFFICES ASSUME Init PROVE PagesInv
  OBVIOUS
<1>1. /\ job = NewJob /\ etags = None /\ pc = "idle" /\ left = Budget
      /\ DOMAIN store = ToSet(Clients)
  BY DEF Init
<1> QED BY <1>1, NewJobPages, LoaderConstants, LoaderAssumption
        DEF PagesInv, PagesTypes, EtagsTypes, CheckedSoFar, JobFields

\* Every step keeps the invariant, and a check that finds nothing has compared all.
LEMMA StepPages ==
  ASSUME PagesInv, [Next]_vars
  PROVE  /\ PagesInv'
         /\ pc = "check" /\ pc' = "idle" /\ left' = left /\ job.stable =>
              \A f \in DOMAIN etags : Unchanged(f)
<1>1. CASE \/ StartLoad \/ StartCheck \/ StartSecretRefresh \/ PublishLoad \/ PublishSecrets
           \/ ProcessSettingsFails
  BY <1>1, RequestsPages DEF StartLoad, StartCheck, StartSecretRefresh, PublishLoad,
     PublishSecrets, ProcessSettingsFails
<1>2. CASE CallFails
  <2>1. left' # left
    BY <1>2, SpendNumber DEF CallFails, Kinds
  <2> QED BY <1>2, <2>1, RequestsPages
<1>3. CASE NothingToCheck
  <2>1. pc = "check" /\ job.todo = {}
    BY <1>3 DEF NothingToCheck
  <2> QED BY <1>3, <2>1, RequestsPages DEF PagesInv, CheckedSoFar
<1>4. CASE \E f \in job.todo : CheckPage(f)
  BY <1>4, CheckPagePages
<1>5. CASE ListPage \/ ListSnapshot
  BY <1>5, ListPagePages, ListSnapshotPages DEF ListPage, ListSnapshot
<1>6. CASE \/ ProcessList
           \/ \E name \in DOMAIN job.refs : ResolveSecret(name)
           \/ \E key \in job.open : ResolveReference(key)
           \/ SecretResolved \/ AllResolved
  <2>1. pc # "check"
    BY <1>6 DEF ProcessList, ResolveSecret, ResolveReference, SecretResolved, AllResolved
  <2> QED BY <1>6, <2>1, ResolvingPages
<1>7. CASE \/ \E i \in DOMAIN Entries : \E s \in Settings(i) \cup {None} : ChangeStore(i, s)
           \/ \E c \in ToSet(Clients) : Replicate(c)
           \/ \E s \in VaultSecrets : RotateSecret(s)
           \/ UNCHANGED vars
  <2>1. pc' = pc
    BY <1>7 DEF ChangeStore, Replicate, RotateSecret, vars
  <2> QED BY <1>7, <2>1, ElsewherePages
<1> QED BY <1>1, <1>2, <1>3, <1>4, <1>5, <1>6, <1>7 DEF Next, Call, Outside

\* Where all that a filter selects is checked, the check asks for all of it.
LEMMA CheckedIsSelected ==
  ASSUME NEW f, NEW content, AllChecked(f, content)
  PROVE  SelectedBy(CheckedFilter(f), content) = SelectedBy(f, content)
<1> DEFINE g == CheckedFilter(f)
<1>1. g.keys = f.keys /\ g.tags = f.tags /\ (f.label # None => g.label = f.label)
  BY DEF CheckedFilter
<1>2. f.label = None => g.label = NoLabel
  BY DEF CheckedFilter
<1>3. \A i \in DOMAIN Entries : Shown(content, f, 0, i) => Shown(content, g, 0, i)
  <2> SUFFICES ASSUME NEW i \in DOMAIN Entries, Shown(content, f, 0, i)
               PROVE  Shown(content, g, 0, i)
    OBVIOUS
  <2>1. f.label = None => Entries[i].label = NoLabel
    <3>1. [entry |-> i, setting |-> content[i]] \in SelectedBy(f, content)
      BY DEF SelectedBy
    <3> QED BY <3>1 DEF AllChecked
  <2> HIDE DEF g
  <2> QED BY <1>1, <1>2, <2>1 DEF Shown, Matches
<1> HIDE DEF g
<1>4. \A i \in DOMAIN Entries : Shown(content, g, 0, i) => Shown(content, f, 0, i)
  BY <1>1, <1>2 DEF Shown, Matches
<1>5. SelectedBy(g, content) = SelectedBy(f, content)
  BY <1>3, <1>4 DEF SelectedBy
<1> QED BY <1>5 DEF g

\* For every store, page size, number of filters, clients and faults: a check that finds
\* nothing has missed nothing of what a filter with a label selects on the client asked,
\* however the pages fall; and of what the filter that stands for no selectors selects,
\* while none of it has a label.
THEOREM ChecksOverlookNothing == Spec => NoChangeOverlooked
<1>1. PagesInv /\ [Next]_vars => PagesInv'
  BY StepPages
<1>2. PagesInv /\ [Next]_vars =>
        [pc = "check" /\ pc' = "idle" /\ left' = left /\ job.stable =>
           \A f \in DOMAIN etags :
             AllChecked(f, Content) =>
               OnPages(etags[f], Len(etags[f])) = SelectedBy(f, Content)]_vars
  BY StepPages, CheckedIsSelected DEF Unchanged
<1> QED BY <1>1, <1>2, InitPages, PTL DEF Spec, NoChangeOverlooked
=============================================================================
