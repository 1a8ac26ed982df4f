----------------------- MODULE RefreshScheduleProofs -----------------------
(***************************************************************************)
(* Proofs about Validation and RefreshSchedule, for every set of specs,    *)
(* every length of the intervals and of a reconcile, and all budgets.      *)
(***************************************************************************)
EXTENDS RefreshSchedule, LeastNumber, SequenceTheorems, TLAPS

-----------------------------------------------------------------------------
(* What validation guarantees to the code behind it *)

\* Verified authentication names a client ID wherever the credential reads one.
LEMMA CredentialSafe ==
  ASSUME NEW auth, NEW e, VerifyAuthObject(auth, e)
  PROVE  ~ CredentialDereferencesNil(auth)
<1> SUFFICES ASSUME CredentialDereferencesNil(auth) PROVE FALSE
  OBVIOUS
<1>1. /\ auth # None /\ auth.workload # None
      /\ ~auth.workload.account /\ ~auth.workload.reference
      /\ auth.workload.clientId = None
  BY DEF CredentialDereferencesNil
<1>2. VerifyWorkloadIdentityParameters(auth.workload, e)
  BY <1>1 DEF VerifyAuthObject
<1> DEFINE w == auth.workload
           methods == {m \in {"clientId", "reference", "account"} :
                         CASE m = "clientId"  -> w.clientId # None
                           [] m = "reference" -> w.reference
                           [] m = "account"   -> w.account}
<1>3. \E m \in {"clientId", "reference", "account"} : methods = {m}
  BY <1>2 DEF VerifyWorkloadIdentityParameters
<1>4. methods = {}
  BY <1>1
<1> QED BY <1>3, <1>4

\* Making the clients of an accepted spec follows no nil pointer.
LEMMA ClientManagerSafe ==
  ASSUME NEW s, NEW e, VerifyObject(s, e)
  PROVE  ~ ClientManagerDereferencesNil(s)
BY CredentialSafe DEF VerifyObject, VerifyConnection, ClientManagerDereferencesNil

\* Fetching with verified selectors follows no nil pointer.
LEMMA FetchSafe ==
  ASSUME NEW selectors, \A i \in 1..Len(selectors) : VerifySelectorObject(selectors[i])
  PROVE  ~ FetchDereferencesNil(selectors)
BY DEF VerifySelectorObject, FetchDereferencesNil

\* Making the Key Vault clients of an accepted spec follows no nil pointer.
LEMMA SecretClientsSafe ==
  ASSUME NEW s, NEW e, VerifyObject(s, e)
  PROVE  ~ SecretClientsDereferenceNil(s)
<1> SUFFICES ASSUME s.secret # None, s.secret.auth # None
             PROVE  /\ ~ CredentialDereferencesNil(s.secret.auth.default)
                    /\ \A i \in 1..Len(s.secret.auth.vaults) :
                         /\ s.secret.auth.vaults[i].uri # "broken"
                         /\ ~ CredentialDereferencesNil(s.secret.auth.vaults[i].auth)
  BY DEF SecretClientsDereferenceNil
<1>1. /\ VerifyAuthObject(s.secret.auth.default, e)
      /\ \A i \in 1..Len(s.secret.auth.vaults) :
           /\ s.secret.auth.vaults[i].uri = "https"
           /\ VerifyAuthObject(s.secret.auth.vaults[i].auth, e)
  BY DEF VerifyObject, VerifySecret, VerifyEndpoint
<1> QED BY <1>1, CredentialSafe

\* A full reconcile of an accepted spec follows no nil pointer.
LEMMA FullSafe ==
  ASSUME NEW s, NEW e, VerifyObject(s, e)
  PROVE  ~ FullDereferencesNil(s)
<1>1. ~ FetchDereferencesNil(s.selectors)
  BY FetchSafe DEF VerifyObject
<1>2. s.flag # None => ~ FetchDereferencesNil(s.flag.selectors)
  BY FetchSafe DEF VerifyObject, VerifyFeatureFlag
<1> QED BY <1>1, <1>2, SecretClientsSafe DEF FullDereferencesNil

\* Refreshing the feature flags of an accepted spec follows no nil pointer.
LEMMA FlagRefreshSafe ==
  ASSUME NEW s, NEW e, VerifyObject(s, e), Enabled(s, "flag")
  PROVE  ~ FlagRefreshDereferencesNil(s)
BY DEF VerifyObject, VerifyFeatureFlag, Enabled, RefreshOf, FlagRefreshDereferencesNil

-----------------------------------------------------------------------------
(* The scan of a label filter *)

\* One step of the scan, given the results f for the later positions.
ScanStep(f, label, i) ==
  IF i > Len(label) THEN FALSE
  ELSE IF label[i] = "\\" THEN f[i + 2]
  ELSE label[i] \in Reserved \/ f[i + 1]

\* f has the results of the scan from position i on.
ScannedFrom(f, label, i) ==
  /\ f \in [1..(Len(label) + 2) -> BOOLEAN]
  /\ \A k \in 1..(Len(label) + 2) : k >= i => f[k] = ScanStep(f, label, k)

\* The recursive definition of the scan has a value.
LEMMA ScanExists ==
  ASSUME NEW label, Len(label) \in Nat
  PROVE  \E f : ScannedFrom(f, label, 1)
<1> DEFINE n == Len(label)
           Bad == {m \in Nat : m <= n /\ ~ \E f : ScannedFrom(f, label, n + 1 - m)}
<1> SUFFICES ASSUME Bad # {} PROVE FALSE
  <2>1. n \notin Bad /\ n + 1 - n = 1
    OBVIOUS
  <2> QED BY <2>1
<1>1. PICK m \in Bad : \A j \in Bad : m <= j
  <2>1. Bad \subseteq Nat
    OBVIOUS
  <2> HIDE DEF Bad
  <2> QED BY <2>1, NatMinimum
<1>2. CASE m = 0
  <2> DEFINE f == [k \in 1..(n + 2) |-> FALSE]
  <2>1. ASSUME NEW k \in 1..(n + 2), k >= n + 1 PROVE ScanStep(f, label, k) = FALSE
    <3>1. k > Len(label)
      BY <2>1
    <3> QED BY <3>1 DEF ScanStep
  <2>2. ScannedFrom(f, label, n + 1)
    <3>1. f \in [1..(n + 2) -> BOOLEAN] /\ \A k \in 1..(n + 2) : f[k] = FALSE
      OBVIOUS
    <3> HIDE DEF f
    <3> QED BY <2>1, <3>1 DEF ScannedFrom
  <2> QED BY <1>2, <2>2
<1>3. CASE m # 0
  <2> DEFINE p == n + 1 - m
  <2>1. p \in 1..n /\ m - 1 \in Nat /\ m - 1 <= n /\ ~ (m <= m - 1) /\ n + 1 - (m - 1) = p + 1
    BY <1>3
  <2>2. PICK f : ScannedFrom(f, label, p + 1)
    <3>1. m - 1 \notin Bad
      BY <1>1, <2>1
    <3> QED BY <2>1, <3>1
  <2> DEFINE g == [k \in 1..(n + 2) |-> IF k = p THEN ScanStep(f, label, p) ELSE f[k]]
  <2> HIDE DEF p
  <2>3. ScanStep(f, label, p) \in BOOLEAN
    <3>1. p + 1 \in 1..(n + 2) /\ p + 2 \in 1..(n + 2)
      BY <2>1
    <3>2. f[p + 1] \in BOOLEAN /\ f[p + 2] \in BOOLEAN
      BY <2>2, <3>1 DEF ScannedFrom
    <3> QED BY <3>2 DEF ScanStep
  <2>4. ASSUME NEW k \in 1..(n + 2), k >= p
        PROVE  ScanStep(g, label, k) = ScanStep(f, label, k)
    <3>1. CASE k > n
      BY <3>1 DEF ScanStep
    <3>2. CASE ~ (k > n)
      <4>1. k + 1 \in 1..(n + 2) /\ k + 2 \in 1..(n + 2) /\ k + 1 # p /\ k + 2 # p
        BY <2>1, <2>4, <3>2
      <4>2. g[k + 1] = f[k + 1] /\ g[k + 2] = f[k + 2]
        BY <4>1
      <4> HIDE DEF g
      <4> QED BY <3>2, <4>2 DEF ScanStep
    <3> QED BY <3>1, <3>2
  <2>5. g \in [1..(n + 2) -> BOOLEAN]
    BY <2>2, <2>3 DEF ScannedFrom
  <2>6. ASSUME NEW k \in 1..(n + 2), k >= p PROVE g[k] = ScanStep(g, label, k)
    <3>1. CASE k = p
      BY <2>4, <2>6, <3>1
    <3>2. CASE k # p
      <4>1. k >= p + 1
        BY <2>1, <2>6, <3>2
      <4> QED BY <2>2, <2>4, <2>6, <3>2, <4>1 DEF ScannedFrom
    <3> QED BY <3>1, <3>2
  <2>7. ScannedFrom(g, label, p)
    BY <2>5, <2>6 DEF ScannedFrom
  <2> QED BY <2>7 DEF p
<1> QED BY <1>2, <1>3

\* The scan obeys its recursive definition.
LEMMA ScanUnfolds ==
  ASSUME NEW label, Len(label) \in Nat
  PROVE  \E f : /\ \A k \in 1..(Len(label) + 2) : f[k] = ScanStep(f, label, k)
                /\ HasNonEscapedValueInLabel(label) = f[1]
<1> DEFINE IsScan(f) ==
             f = [i \in 1..(Len(label) + 2) |->
                    IF i > Len(label) THEN FALSE
                    ELSE IF label[i] = "\\" THEN f[i + 2]
                    ELSE label[i] \in Reserved \/ f[i + 1]]
           scan == CHOOSE f : IsScan(f)
<1>1. PICK f : ScannedFrom(f, label, 1)
  BY ScanExists
<1>2. IsScan(f)
  <2>1. \A k \in 1..(Len(label) + 2) : f[k] = ScanStep(f, label, k)
    BY <1>1 DEF ScannedFrom
  <2>2. f = [k \in 1..(Len(label) + 2) |-> f[k]]
    BY <1>1 DEF ScannedFrom
  <2>3. f = [k \in 1..(Len(label) + 2) |-> ScanStep(f, label, k)]
    BY <2>1, <2>2
  <2> QED BY <2>3 DEF ScanStep
<1>3. IsScan(scan)
  BY <1>2
<1>4. HasNonEscapedValueInLabel(label) = scan[1]
  BY DEF HasNonEscapedValueInLabel
<1>5. \A k \in 1..(Len(label) + 2) : scan[k] = ScanStep(scan, label, k)
  <2> HIDE DEF scan
  <2> QED BY <1>3 DEF ScanStep
<1> QED BY <1>4, <1>5

\* Where a scan that finds nothing goes: it gets to every position but those
\* right after an escape it got to.
LEMMA ScanVisits ==
  ASSUME NEW label, Len(label) \in Nat, NEW f,
         \A k \in 1..(Len(label) + 2) : f[k] = ScanStep(f, label, k),
         ~ f[1], NEW p \in 1..Len(label)
  PROVE  ~ f[p] \/ (p > 1 /\ label[p - 1] = "\\" /\ ~ f[p - 1])
<1> DEFINE n == Len(label)
           V(q) == ~ f[q] \/ (q > 1 /\ label[q - 1] = "\\" /\ ~ f[q - 1])
           Bad == {q \in 1..n : ~ V(q)}
<1> SUFFICES ASSUME Bad # {} PROVE FALSE
  OBVIOUS
<1>1. PICK q \in Bad : \A j \in Bad : q <= j
  <2>1. Bad \subseteq Nat
    OBVIOUS
  <2> HIDE DEF Bad
  <2> QED BY <2>1, NatMinimum
<1>2. CASE q = 1
  BY <1>2
<1>3. CASE q # 1
  <2> DEFINE r == q - 1
  <2>1. r \in 1..n /\ r + 1 = q /\ q \in 1..n /\ q > 1 /\ ~ (q <= r) /\ r \in 1..(n + 2)
        /\ ~ (r > n)
    BY <1>3
  <2>2. V(r)
    <3> HIDE DEF V, r
    <3> QED BY <1>1, <2>1
  <2>3. ~ V(q)
    OBVIOUS
  <2> HIDE DEF r
  <2>4. q - 1 = r
    BY <2>1
  <2>5. CASE ~ f[r]
    <3>1. label[r] # "\\"
      BY <2>1, <2>3, <2>4, <2>5
    <3>2. f[r] = (label[r] \in Reserved \/ f[r + 1])
      BY <2>1, <3>1 DEF ScanStep
    <3> QED BY <2>1, <2>3, <2>5, <3>2
  <2>6. CASE r > 1 /\ label[r - 1] = "\\" /\ ~ f[r - 1]
    <3>1. r - 1 \in 1..(n + 2) /\ ~ (r - 1 > n) /\ (r - 1) + 2 = q
      BY <2>1, <2>6
    <3>2. f[r - 1] = f[q]
      BY <2>6, <3>1 DEF ScanStep
    <3> QED BY <2>3, <2>6, <3>2
  <2> QED BY <2>2, <2>5, <2>6
<1> QED BY <1>2, <1>3

\* Through a run of escapes such a scan goes in steps of two.
LEMMA ScanRun ==
  ASSUME NEW label, Len(label) \in Nat, NEW f,
         \A k \in 1..(Len(label) + 2) : f[k] = ScanStep(f, label, k),
         NEW a \in 1..Len(label), NEW b \in a..Len(label), ~ f[a],
         \A k \in a..(b - 1) : label[k] = "\\",
         NEW h \in Nat, b = a + 2 * h
  PROVE  ~ f[b]
<1> DEFINE Bad == {m \in Nat : m <= h /\ f[a + 2 * m]}
<1> SUFFICES ASSUME Bad # {} PROVE FALSE
  <2>1. h \notin Bad
    OBVIOUS
  <2> QED BY <2>1
<1>1. PICK m \in Bad : \A j \in Bad : m <= j
  <2>1. Bad \subseteq Nat
    OBVIOUS
  <2> HIDE DEF Bad
  <2> QED BY <2>1, NatMinimum
<1>2. m # 0
  <2>1. a + 2 * 0 = a
    OBVIOUS
  <2> QED BY <2>1
<1>3. m - 1 \in Nat /\ m - 1 <= h /\ ~ (m <= m - 1)
  BY <1>2
<1>4. ~ f[a + 2 * (m - 1)]
  BY <1>1, <1>3
<1> DEFINE c == a + 2 * (m - 1)
<1>5. c \in a..(b - 1) /\ c \in 1..(Len(label) + 2) /\ ~ (c > Len(label)) /\ c + 2 = a + 2 * m
  BY <1>3
<1> HIDE DEF c
<1>6. f[c] = f[c + 2]
  BY <1>5 DEF ScanStep
<1> QED BY <1>4, <1>5, <1>6 DEF c

\* hasNonEscapedValueInLabel accepts only labels that stand for one label.
LEMMA ScanSound ==
  ASSUME NEW label, Len(label) \in Nat, ~ HasNonEscapedValueInLabel(label)
  PROVE  OneLabel(label)
<1>0. Len(label) \in Nat
  OBVIOUS
<1>1. PICK f : /\ \A k \in 1..(Len(label) + 2) : f[k] = ScanStep(f, label, k)
               /\ HasNonEscapedValueInLabel(label) = f[1]
  BY <1>0, ScanUnfolds
<1> SUFFICES ASSUME NEW i \in 1..Len(label), label[i] \in Reserved
             PROVE  \E j \in 0..(i - 1) :
                      /\ (i - 1 - j) % 2 = 1
                      /\ \A k \in (j + 1)..(i - 1) : label[k] = "\\"
                      /\ j > 0 => label[j] # "\\"
  BY DEF OneLabel
<1> DEFINE D == {d \in Nat : d <= i - 1 /\ (i - 1 - d = 0 \/ label[i - 1 - d] # "\\")}
<1>2. PICK d \in D : \A c \in D : d <= c
  <2>1. D \subseteq Nat /\ i - 1 \in D
    BY <1>0
  <2> HIDE DEF D
  <2> QED BY <2>1, NatMinimum
<1> DEFINE j == i - 1 - d
<1>3. j \in 0..(i - 1) /\ (j > 0 => label[j] # "\\") /\ j + 1 \in 1..Len(label)
      /\ i \in (j + 1)..Len(label)
  BY <1>0
<1>4. ASSUME NEW k \in (j + 1)..(i - 1) PROVE label[k] = "\\"
  <2> DEFINE c == i - 1 - k
  <2>1. c \in Nat /\ ~ (d <= c) /\ c <= i - 1 /\ i - 1 - c = k /\ k # 0
    BY <1>0
  <2> HIDE DEF c
  <2>2. c \notin D
    <3> HIDE DEF D
    <3> QED BY <1>2, <2>1
  <2> QED BY <2>1, <2>2
<1>5. ~ f[j + 1]
  <2>1. ~ f[1]
    BY <1>1
  <2>2. ~ f[j + 1] \/ (j + 1 > 1 /\ label[(j + 1) - 1] = "\\" /\ ~ f[(j + 1) - 1])
    BY <1>0, <1>1, <1>3, <2>1, ScanVisits
  <2>3. (j + 1) - 1 = j /\ (j + 1 > 1 => j > 0)
    BY <1>3
  <2> HIDE DEF j
  <2> QED BY <1>3, <2>2, <2>3
<1>6. f[i]
  <2>1. i \in 1..(Len(label) + 2) /\ ~ (i > Len(label))
    BY <1>0
  <2>2. label[i] # "\\"
    BY Zenon DEF Reserved
  <2> QED BY <1>1, <2>1, <2>2 DEF ScanStep
<1>7. (i - 1 - j) % 2 = 1
  <2> SUFFICES ASSUME (i - 1 - j) % 2 # 1 PROVE FALSE
    OBVIOUS
  <2>1. d \in Nat /\ i - 1 - j = d
    BY <1>0
  <2>2. PICK h \in Nat : d = 2 * h
    BY <2>1
  <2>3. i = (j + 1) + 2 * h
    BY <2>1, <2>2, <1>3
  <2> HIDE DEF j
  <2> QED BY <1>0, <1>1, <1>3, <1>4, <1>5, <1>6, <2>3, ScanRun
<1> HIDE DEF j
<1> QED BY <1>3, <1>4, <1>7

-----------------------------------------------------------------------------
(* The reconcile works on an accepted spec *)

Stages == {"full", "flag", "keyValue", "secret", "write", "finish"}

Job == [spec : ProviderSpec \cup {None}, generation : Nat, should : BOOLEAN,
        due : SUBSET Features, handled : SUBSET Features, configMap : BOOLEAN,
        secret : BOOLEAN]

Verified(s) == s \in ProviderSpec /\ \E e : VerifyObject(s, e)

Accepted ==
  /\ spec \in ProviderSpec
  /\ generation \in Nat
  /\ job \in Job
  /\ pc \in Stages \cup {"idle"}
  /\ IF pc = "idle" THEN job = NewJob ELSE Verified(job.spec)

\* No reconcile has the type of a reconcile.
LEMMA NewJobType == NewJob \in Job
BY DEF NewJob, Job, Features

\* A reconcile that fails ends.
LEMMA FailsAccepted ==
  ASSUME Accepted, Fails
  PROVE  Accepted'
BY NewJobType DEF Fails, Return, Accepted

\* What later stages leave of a job as ReconcileStart made it.
SameStart(j, k) ==
  k.spec = j.spec /\ k.generation = j.generation /\ k.should = j.should /\ k.due = j.due

\* The job of a later stage.
LEMMA JobHandled ==
  ASSUME NEW j \in Job, NEW h \in SUBSET Features, NEW k, k = [j EXCEPT !.handled = h]
  PROVE  k \in Job /\ SameStart(j, k) /\ k.secret = j.secret
BY Zenon DEF Job, SameStart

\* What a fetch changes in a reconcile.
LEMMA JobFetched ==
  ASSUME NEW j \in Job, NEW h \in SUBSET Features, NEW s \in BOOLEAN,
         NEW k, k = [j EXCEPT !.handled = h, !.configMap = TRUE, !.secret = s]
  PROVE  k \in Job /\ SameStart(j, k) /\ k.secret = s
BY Zenon DEF Job, SameStart

\* What resolving secrets because of the interval changes in a reconcile.
LEMMA JobResolved ==
  ASSUME NEW j \in Job, NEW h \in SUBSET Features,
         NEW k, k = [j EXCEPT !.handled = h, !.secret = TRUE]
  PROVE  k \in Job /\ SameStart(j, k) /\ k.secret = TRUE
BY Zenon DEF Job, SameStart

\* The job after each stage.
LEMMA FullJob ==
  ASSUME job \in Job, ProcessFullReconciliation, ~ Fails
  PROVE  /\ job' \in Job /\ SameStart(job, job')
         /\ job'.secret <=> job.spec.secret # None
<1> DEFINE secret == job.spec.secret # None
<1>1. job' = [job EXCEPT !.handled = Features, !.configMap = TRUE, !.secret = secret]
  BY DEF ProcessFullReconciliation
<1>2. secret \in BOOLEAN
  OBVIOUS
<1> HIDE DEF secret
<1>3. PICK s \in BOOLEAN :
        job' = [job EXCEPT !.handled = Features, !.configMap = TRUE, !.secret = s]
  BY <1>1, <1>2, Zenon
<1>5. Features \in SUBSET Features
  OBVIOUS
<1>6. job' \in Job /\ SameStart(job, job')
  BY <1>3, <1>5, JobFetched, Zenon
<1>7. job'.secret = secret
  BY <1>1, Zenon DEF Job
<1> QED BY <1>6, <1>7, Zenon DEF secret

\* A check that finds nothing keeps what the reconcile started with.
LEMMA NotNeededJob ==
  ASSUME job \in Job, NEW f \in Features, RefreshNotNeeded(f)
  PROVE  /\ job' \in Job /\ SameStart(job, job')
         /\ job'.secret = job.secret
<1>1. job.handled \cup {f} \in SUBSET Features
  BY DEF Job
<1>2. job' = [job EXCEPT !.handled = job.handled \cup {f}]
  BY DEF RefreshNotNeeded
<1> QED BY <1>1, <1>2, JobHandled, Zenon

\* A refresh keeps what the reconcile started with.
LEMMA NeededJob ==
  ASSUME job \in Job, NEW f \in Features, RefreshNeeded(f)
  PROVE  /\ job' \in Job /\ SameStart(job, job')
         /\ job.secret => job'.secret
<1> DEFINE secret == f = "keyValue" /\ job.spec.secret # None
           h == job.handled \cup {f} \cup (IF secret THEN {"secret"} ELSE {})
           either == job.secret \/ secret
<1>1. job' = [job EXCEPT !.handled = h, !.configMap = TRUE, !.secret = either]
  BY DEF RefreshNeeded
<1>2. either \in BOOLEAN
  OBVIOUS
<1> HIDE DEF either
<1>3. PICK s \in BOOLEAN :
        job' = [job EXCEPT !.handled = h, !.configMap = TRUE, !.secret = s]
  BY <1>1, <1>2, Zenon
<1>4. h \in SUBSET Features
  BY DEF Job, Features
<1> HIDE DEF h
<1>6. job' \in Job /\ SameStart(job, job')
  BY <1>3, <1>4, JobFetched, Zenon
<1>7. job'.secret = either
  BY <1>1, Zenon DEF Job
<1> QED BY <1>6, <1>7, Zenon DEF either

\* Resolving secrets keeps what the reconcile started with.
LEMMA ResolvedJob ==
  ASSUME job \in Job, ProcessSecretReferenceRefresh, ~ Fails
  PROVE  job' \in Job /\ SameStart(job, job')
<1>1. job' = [job EXCEPT !.handled = job.handled \cup {"secret"}, !.secret = TRUE]
  BY DEF ProcessSecretReferenceRefresh
<1>2. job.handled \cup {"secret"} \in SUBSET Features
  BY DEF Job, Features
<1> QED BY <1>1, <1>2, JobResolved, Zenon

\* A reconcile starts with a verified spec only.
LEMMA ReconcileStartAccepted == Accepted /\ ReconcileStart => Accepted'
<1> SUFFICES ASSUME Accepted, ReconcileStart PROVE Accepted'
  OBVIOUS
<1>1. VerifyObject(spec, env) /\ ~ ClientManagerDereferencesNil(spec)
  BY ClientManagerSafe DEF ReconcileStart
<1> DEFINE should == generation # observed \/ edited
<1>2. /\ job' = [NewJob EXCEPT !.spec = spec, !.generation = generation,
                                !.should = should, !.due = {f \in Features : Due(f)}]
      /\ pc' = IF ClientManagerDereferencesNil(spec) THEN "panic"
               ELSE IF should THEN "full" ELSE "flag"
      /\ UNCHANGED <<spec, generation>>
  BY DEF ReconcileStart
<1> HIDE DEF should
<1>3. pc' \in {"full", "flag"}
  BY <1>1, <1>2
<1>4. job'.spec = spec
  BY <1>2, Zenon DEF NewJob
<1>5. job' \in Job
  <2>1. should \in BOOLEAN /\ {f \in Features : Due(f)} \in SUBSET Features
    BY DEF should
  <2>2. {} \in SUBSET Features
    OBVIOUS
  <2> HIDE DEF should
  <2> QED BY <1>2, <2>1, <2>2, Zenon DEF NewJob, Job, Accepted
<1> QED BY <1>1, <1>2, <1>3, <1>4, <1>5 DEF Accepted, Verified, Stages

\* A full reconcile works on a verified spec.
LEMMA FullAccepted == Accepted /\ ProcessFullReconciliation => Accepted'
<1> SUFFICES ASSUME Accepted, ProcessFullReconciliation, ~ Fails PROVE Accepted'
  BY FailsAccepted
<1>1. pc = "full" /\ Verified(job.spec) /\ job \in Job
  BY DEF Accepted, ProcessFullReconciliation
<1>2. ~ FullDereferencesNil(job.spec)
  BY <1>1, FullSafe DEF Verified
<1>3. pc' = "flag" /\ UNCHANGED <<spec, generation>>
  BY <1>2 DEF ProcessFullReconciliation
<1>4. job' \in Job /\ job'.spec = job.spec
  BY <1>1, FullJob DEF SameStart
<1> QED BY <1>1, <1>3, <1>4 DEF Accepted, Stages

\* So do the refreshes of flags and key-values.
LEMMA RefreshAccepted ==
  ASSUME Accepted, NEW f \in {"flag", "keyValue"},
         SkipRefresh(f) \/ RefreshNotNeeded(f) \/ RefreshNeeded(f) \/ RefreshFails(f)
  PROVE  Accepted'
<1>1. CASE SkipRefresh(f)
  BY <1>1 DEF SkipRefresh, Accepted, AfterRefresh, Stages
<1>2. CASE RefreshNotNeeded(f)
  <2>1. job' \in Job /\ job'.spec = job.spec
    BY <1>2, NotNeededJob DEF Accepted, SameStart, Features
  <2> QED BY <1>2, <2>1 DEF RefreshNotNeeded, CheckDue, Accepted, AfterRefresh, Stages
<1>3. CASE RefreshNeeded(f)
  <2>1. pc = f /\ Enabled(job.spec, f) /\ Verified(job.spec)
    BY <1>3 DEF RefreshNeeded, CheckDue, Accepted
  <2>2. ~ (f = "flag" /\ FlagRefreshDereferencesNil(job.spec))
    BY <2>1, FlagRefreshSafe DEF Verified
  <2>3. pc' = AfterRefresh(f)
    BY <1>3, <2>2 DEF RefreshNeeded
  <2>4. job' \in Job /\ job'.spec = job.spec
    BY <1>3, NeededJob DEF Accepted, SameStart, Features
  <2> QED BY <1>3, <2>1, <2>3, <2>4 DEF RefreshNeeded, Accepted, AfterRefresh, Stages
<1>4. CASE RefreshFails(f)
  BY <1>4, FailsAccepted DEF RefreshFails
<1> QED BY <1>1, <1>2, <1>3, <1>4

\* So does the refresh of secrets.
LEMMA SecretAccepted == Accepted /\ ProcessSecretReferenceRefresh => Accepted'
<1> SUFFICES ASSUME Accepted, ProcessSecretReferenceRefresh, ~ Fails PROVE Accepted'
  BY FailsAccepted
<1>1. pc = "secret" /\ pc' = "write" /\ UNCHANGED <<spec, generation>>
  BY DEF ProcessSecretReferenceRefresh
<1>2. job' \in Job /\ job'.spec = job.spec
  BY ResolvedJob DEF Accepted, SameStart
<1> QED BY <1>1, <1>2 DEF Accepted, Stages

\* Every step keeps the spec of the reconcile verified.
LEMMA NextAccepted == Accepted /\ [Next]_vars => Accepted'
<1> SUFFICES ASSUME Accepted, [Next]_vars PROVE Accepted'
  OBVIOUS
<1>1. CASE RequeueFires \/ ReconcileInvalid \/ Tick \/ EditConfigMap
  BY <1>1 DEF RequeueFires, ReconcileInvalid, Tick, EditConfigMap, Accepted
<1>2. CASE SkipSecretRefresh
  BY <1>2 DEF SkipSecretRefresh, Accepted, Stages
<1>3. CASE WriteTargets
  <2>1. CASE Fails
    BY <2>1, FailsAccepted
  <2>2. CASE ~ Fails
    BY <1>3, <2>2 DEF WriteTargets, Accepted, Stages
  <2> QED BY <2>1, <2>2
<1>4. CASE Finish
  BY <1>4, NewJobType DEF Finish, Return, Accepted
<1>5. CASE \E s \in Specs : UpdateSpec(s)
  BY <1>5, SpecsAssumption DEF UpdateSpec, Accepted
<1>6. CASE UNCHANGED vars
  BY <1>6 DEF vars, Accepted
<1> QED BY <1>1, <1>2, <1>3, <1>4, <1>5, <1>6, ReconcileStartAccepted, FullAccepted,
        RefreshAccepted, SecretAccepted DEF Next

\* The spec of a reconcile is always verified.
LEMMA SpecAccepted == Spec => []Accepted
<1>1. Init => Accepted
  BY NewJobType, SpecsAssumption DEF Init, Accepted
<1> QED BY <1>1, NextAccepted, PTL DEF Spec

\* No spec that verifyObject accepts, of all the specs there are, leads the code
\* behind it to a nil pointer.
THEOREM AcceptedSpecsNeverPanic == Spec => []AcceptedNeverPanics
<1>1. Accepted => AcceptedNeverPanics
  BY DEF Accepted, AcceptedNeverPanics, Stages
<1> QED BY <1>1, SpecAccepted, PTL

\* Label filters of every length and with every mixture of escapes and reserved
\* characters stand for one label once they are accepted.
THEOREM FiltersStandForOneLabel == Spec => []OneLabelPerFilter
<1>1. Accepted => OneLabelPerFilter
  <2> SUFFICES ASSUME Accepted, job.spec # None, NEW i \in 1..Len(job.spec.selectors),
                      job.spec.selectors[i].label # None
               PROVE  OneLabel(job.spec.selectors[i].label)
    BY DEF OneLabelPerFilter
  <2>1. Verified(job.spec)
    BY DEF Accepted, NewJob
  <2>2. VerifySelectorObject(job.spec.selectors[i])
    BY <2>1 DEF Verified, VerifyObject
  <2>3. job.spec.selectors \in Seq(Selector)
    BY <2>1 DEF Verified, ProviderSpec
  <2>4. job.spec.selectors[i] \in Selector
    BY <2>3, ElementOfSeq
  <2>5. job.spec.selectors[i].label \in Seq(Characters)
    BY <2>4 DEF Selector
  <2>6. Len(job.spec.selectors[i].label) \in Nat
    BY <2>5, LenProperties
  <2> QED BY <2>2, <2>6, ScanSound DEF VerifySelectorObject
<1> QED BY <1>1, SpecAccepted, PTL
-----------------------------------------------------------------------------
(* Key Vault is spared *)

\* The clocks, and the refresh time of the secrets.
Clocks ==
  /\ elapsed \in 0..MaxDuration
  /\ vaultAge \in 0..(Minute + MaxDuration)
  /\ elapsed <= vaultAge
  /\ DOMAIN next = Features
  /\ next["secret"] # None => next["secret"] \in Int /\ next["secret"] >= -1
  /\ observed \in Nat /\ observed <= generation

\* The generation of a job tells its spec, and no later one was ever in force.
JobCurrent ==
  pc # "idle" =>
    /\ observed <= job.generation
    /\ job.generation <= generation
    /\ job.generation = generation => job.spec = spec

\* A refresh time that is set falls at least a minute after the last reconcile
\* that asked Key Vault in time.
TimesApart ==
  next["secret"] # None =>
    IF next["secret"] >= 0 THEN vaultAge + next["secret"] >= Minute ELSE vaultAge >= Minute

\* Once a spec is in force, its refresh time is set.
TimeSet ==
  /\ observed = generation /\ Enabled(spec, "secret") => next["secret"] # None
  /\ pc \in {"write", "finish"} /\ Enabled(job.spec, "secret") => next["secret"] # None
  /\ pc \in {"full", "flag", "keyValue", "secret"} /\ "secret" \notin job.due
       => next["secret"] # None

\* A job that may still ask Key Vault because of the interval may do so, and one
\* that reloads everything will not.
JobMayAsk ==
  /\ pc = "full" => job.should
  /\ pc \in {"flag", "keyValue", "secret"} /\ Enabled(job.spec, "secret") =>
       /\ job.should => job.secret
       /\ ~ job.should /\ "secret" \in job.due => vaultAge - elapsed >= Minute

VaultInv == Accepted /\ Clocks /\ JobCurrent /\ TimesApart /\ TimeSet /\ JobMayAsk

\* The larger of two numbers.
LEMMA MaxOfTwo ==
  ASSUME NEW a \in Int, NEW b \in Int
  PROVE  Max({a, b}) = IF a >= b THEN a ELSE b
<1> DEFINE m == IF a >= b THEN a ELSE b
<1>1. m \in {a, b} /\ \A y \in {a, b} : m >= y
  OBVIOUS
<1>2. ASSUME NEW x \in {a, b}, \A y \in {a, b} : x >= y PROVE x = m
  BY <1>2
<1> QED BY <1>1, <1>2 DEF Max

\* MinimalSecretRefreshInterval, as verifyObject enforces it.
LEMMA SecretInterval ==
  ASSUME NEW s, Verified(s), Enabled(s, "secret")
  PROVE  Interval(s, "secret") \in Nat /\ Interval(s, "secret") >= Minute
<1>1. RefreshOf(s, "secret") = s.secret.refresh /\ s.secret # None /\ s.secret.refresh # None
  BY DEF Enabled, RefreshOf
<1>2. VerifyRefreshInterval(s.secret.refresh.interval, Minute)
  BY <1>1 DEF Verified, VerifyObject, VerifySecret
<1>3. s.secret \in SecretOptions
  BY <1>1 DEF Verified, ProviderSpec
<1>4. s.secret.refresh \in Refresh
  BY <1>1, <1>3 DEF SecretOptions
<1>5. s.secret.refresh.interval \in Durations
  BY <1>4 DEF Refresh
<1> QED BY <1>1, <1>2, <1>5 DEF VerifyRefreshInterval, Interval, ParseDuration, Durations

\* A reconcile that arms the refresh time of the secrets.
LEMMA ArmSecret ==
  ASSUME Clocks, Verified(job.spec), Enabled(job.spec, "secret"), Arm("secret")
  PROVE  /\ DOMAIN next' = Features
         /\ next'["secret"] # None
         /\ next'["secret"] \in Int /\ next'["secret"] >= -1
         /\ IF next'["secret"] >= 0 THEN elapsed + next'["secret"] >= Minute
                                   ELSE elapsed >= Minute
<1> DEFINE i == Interval(job.spec, "secret")
<1>1. i \in Nat /\ i >= Minute
  BY SecretInterval
<1> HIDE DEF i
<1>2. elapsed \in Nat /\ Minute \in Nat
  BY ScheduleAssumption, DurationsAssumption DEF Clocks
<1>3. Max({-1, i - elapsed}) = IF -1 >= i - elapsed THEN -1 ELSE i - elapsed
  BY <1>1, <1>2, MaxOfTwo
<1>4. DOMAIN next' = Features /\ next'["secret"] = Max({-1, i - elapsed})
  BY DEF Arm, Clocks, Features, i
<1>5. next'["secret"] \in Int
  BY <1>1, <1>2, <1>3, <1>4
<1> QED BY <1>1, <1>2, <1>3, <1>4, <1>5, ScheduleAssumption

\* The refresh times of the other features.
LEMMA OtherTimes ==
  ASSUME DOMAIN next = Features, NEW f \in {"flag", "keyValue"},
         Arm(f) \/ Disarm(f) \/ UNCHANGED next
  PROVE  DOMAIN next' = Features /\ next'["secret"] = next["secret"]
BY DEF Arm, Disarm, Features

\* A stage that leaves the clocks and the refresh time of the secrets alone.
LEMMA SameTimes ==
  ASSUME VaultInv, DOMAIN next' = Features, next'["secret"] = next["secret"],
         UNCHANGED <<spec, generation, observed, elapsed, vaultAge>>
  PROVE  /\ Clocks' /\ TimesApart'
         /\ observed = generation /\ Enabled(spec, "secret") => next'["secret"] # None
<1>1. Clocks'
  BY DEF VaultInv, Clocks
<1>2. TimesApart'
  BY DEF VaultInv, TimesApart
<1> QED BY <1>1, <1>2 DEF VaultInv, TimeSet

\* A failure leaves the refresh times alone.
LEMMA FailsVault == VaultInv /\ Fails => VaultInv'
<1> SUFFICES ASSUME VaultInv, Fails PROVE VaultInv'
  OBVIOUS
<1>1. /\ pc' = "idle" /\ elapsed' = 0
      /\ UNCHANGED <<spec, generation, observed, next, vaultAge>>
  BY DEF Fails, Return
<1>2. Accepted'
  BY FailsAccepted DEF VaultInv
<1>3. Clocks'
  BY <1>1, ScheduleAssumption DEF VaultInv, Clocks
<1>4. TimesApart'
  BY <1>1 DEF VaultInv, TimesApart
<1>5. TimeSet'
  BY <1>1 DEF VaultInv, TimeSet
<1> QED BY <1>1, <1>2, <1>3, <1>4, <1>5 DEF VaultInv, JobCurrent, JobMayAsk

\* A reconcile starts the clock of its duration.
LEMMA ReconcileStartVault == VaultInv /\ ReconcileStart => VaultInv'
<1> SUFFICES ASSUME VaultInv, ReconcileStart PROVE VaultInv'
  OBVIOUS
<1>1. /\ elapsed' = 0
      /\ UNCHANGED <<spec, generation, observed, next, vaultAge>>
  BY DEF ReconcileStart
<1>2. Accepted'
  BY ReconcileStartAccepted DEF VaultInv
<1> DEFINE should == generation # observed \/ edited
           due == {f \in Features : Due(f)}
<1>3. /\ job' = [NewJob EXCEPT !.spec = spec, !.generation = generation,
                                !.should = should, !.due = due]
      /\ pc' = IF ClientManagerDereferencesNil(spec) THEN "panic"
               ELSE IF should THEN "full" ELSE "flag"
  BY DEF ReconcileStart
<1>4. /\ job'.spec = spec /\ job'.generation = generation
      /\ (job'.should <=> should) /\ job'.due = due
  <2> HIDE DEF should, due
  <2> QED BY <1>3, Zenon DEF NewJob
<1>5. (pc' = "flag" => ~ should) /\ (pc' = "full" => should)
  BY <1>3
<1>6. pc' \in {"full", "flag"}
  BY <1>2, <1>3 DEF Accepted, Stages
<1>7. Clocks'
  BY <1>1, ScheduleAssumption DEF VaultInv, Clocks
<1>8. TimesApart'
  BY <1>1 DEF VaultInv, TimesApart
<1>9. "secret" \in due <=> (next["secret"] = None \/ next["secret"] < 0)
  BY DEF Due, Features
<1>10. TimeSet'
  BY <1>1, <1>4, <1>6, <1>9 DEF VaultInv, TimeSet
<1>11. JobMayAsk'
  <2> SUFFICES ASSUME pc' = "flag", Enabled(spec, "secret")
               PROVE  ~ should /\ ("secret" \in due => vaultAge >= Minute)
    <3>1. vaultAge \in Int /\ vaultAge - 0 = vaultAge
      BY DEF VaultInv, Clocks
    <3> QED BY <1>1, <1>4, <1>5, <1>6, <3>1 DEF JobMayAsk
  <2>1. observed = generation
    BY <1>5
  <2>2. next["secret"] # None
    BY <2>1 DEF VaultInv, TimeSet
  <2>3. "secret" \in due => vaultAge >= Minute
    BY <1>9, <2>2 DEF VaultInv, Clocks, TimesApart
  <2> QED BY <1>5, <2>3
<1>12. JobCurrent'
  <2>1. generation \in Nat /\ observed <= generation
    BY DEF VaultInv, Accepted, Clocks
  <2> QED BY <1>1, <1>4, <2>1 DEF JobCurrent
<1> QED BY <1>2, <1>7, <1>8, <1>10, <1>11, <1>12 DEF VaultInv

\* A stage before that of the secrets.
LEMMA EarlyStage ==
  ASSUME VaultInv, Accepted', pc \in {"full", "flag", "keyValue"},
         pc' \in {"flag", "keyValue", "secret"}, SameStart(job, job'),
         DOMAIN next' = Features, next'["secret"] = next["secret"],
         UNCHANGED <<spec, generation, observed, elapsed, vaultAge>>,
         IF pc = "full" THEN Enabled(job.spec, "secret") => job'.secret
                        ELSE job.secret => job'.secret
  PROVE  VaultInv'
<1>1. Clocks' /\ TimesApart'
  BY SameTimes
<1>2. TimeSet'
  BY SameTimes DEF VaultInv, TimeSet, SameStart
<1>3. JobCurrent'
  BY DEF VaultInv, JobCurrent, SameStart
<1>4. JobMayAsk'
  BY DEF VaultInv, JobMayAsk, SameStart
<1> QED BY <1>1, <1>2, <1>3, <1>4 DEF VaultInv

\* A full reconcile fetches the secrets, so that the interval asks for nothing.
LEMMA FullVault == VaultInv /\ ProcessFullReconciliation => VaultInv'
<1> SUFFICES ASSUME VaultInv, ProcessFullReconciliation, ~ Fails PROVE VaultInv'
  BY FailsVault
<1>1. Accepted'
  BY FullAccepted DEF VaultInv
<1>2. /\ pc = "full" /\ pc' \in {"flag", "panic"}
      /\ UNCHANGED <<spec, generation, observed, next, elapsed, vaultAge>>
  BY DEF ProcessFullReconciliation
<1>3. pc' = "flag"
  BY <1>1, <1>2 DEF Accepted, Stages
<1>4. SameStart(job, job') /\ (Enabled(job.spec, "secret") => job'.secret)
  BY FullJob DEF VaultInv, Accepted, Enabled, RefreshOf
<1>5. DOMAIN next' = Features
  BY <1>2 DEF VaultInv, Clocks
<1> QED BY <1>1, <1>2, <1>3, <1>4, <1>5, EarlyStage

\* The refreshes of flags and key-values leave the time of the secrets alone.
LEMMA RefreshVault ==
  ASSUME VaultInv, NEW f \in {"flag", "keyValue"},
         SkipRefresh(f) \/ RefreshNotNeeded(f) \/ RefreshNeeded(f) \/ RefreshFails(f)
  PROVE  VaultInv'
<1>1. CASE RefreshFails(f)
  BY <1>1, FailsVault DEF RefreshFails
<1>2. CASE SkipRefresh(f) \/ RefreshNotNeeded(f) \/ RefreshNeeded(f)
  <2>1. Accepted'
    BY RefreshAccepted DEF VaultInv
  <2>2. /\ pc = f /\ pc' \in {"keyValue", "secret", "panic"}
        /\ Arm(f) \/ Disarm(f) \/ UNCHANGED next
        /\ UNCHANGED <<spec, generation, observed, elapsed, vaultAge>>
    BY <1>2 DEF SkipRefresh, RefreshNotNeeded, RefreshNeeded, CheckDue, AfterRefresh
  <2>3. pc' \in {"keyValue", "secret"}
    BY <2>1, <2>2 DEF Accepted, Stages
  <2>4. SameStart(job, job') /\ (job.secret => job'.secret)
    <3>1. CASE SkipRefresh(f)
      BY <3>1 DEF SkipRefresh, SameStart
    <3>2. CASE RefreshNotNeeded(f)
      BY <3>2, NotNeededJob DEF VaultInv, Accepted, Features
    <3>3. CASE RefreshNeeded(f)
      BY <3>3, NeededJob DEF VaultInv, Accepted, Features
    <3> QED BY <1>2, <3>1, <3>2, <3>3
  <2>5. DOMAIN next' = Features /\ next'["secret"] = next["secret"]
    BY <2>2, OtherTimes DEF VaultInv, Clocks
  <2> QED BY <2>1, <2>2, <2>3, <2>4, <2>5, EarlyStage
<1> QED BY <1>1, <1>2

\* A refresh of secrets that is skipped moves their time a whole interval on.
LEMMA SkipSecretVault == VaultInv /\ SkipSecretRefresh => VaultInv'
<1> SUFFICES ASSUME VaultInv, SkipSecretRefresh PROVE VaultInv'
  OBVIOUS
<1>1. /\ pc = "secret" /\ pc' = "write"
      /\ UNCHANGED <<spec, generation, observed, job, elapsed, vaultAge>>
  BY DEF SkipSecretRefresh
<1>2. Accepted'
  BY <1>1 DEF VaultInv, Accepted, SkipSecretRefresh, Stages
<1>3. JobCurrent' /\ JobMayAsk'
  BY <1>1 DEF VaultInv, JobCurrent, JobMayAsk
<1>4. CASE ~ Enabled(job.spec, "secret")
  <2>1. DOMAIN next' = Features /\ next'["secret"] = None
    BY <1>4 DEF SkipSecretRefresh, Disarm, VaultInv, Clocks, Features
  <2>2. Clocks' /\ TimesApart'
    BY <1>1, <2>1 DEF VaultInv, Clocks, TimesApart
  <2>3. TimeSet'
    <3>1. ~ (observed = generation /\ Enabled(spec, "secret"))
      BY <1>1, <1>4 DEF VaultInv, JobCurrent, Accepted, Job
    <3> QED BY <1>1, <1>4, <3>1 DEF TimeSet
  <2> QED BY <1>2, <1>3, <2>2, <2>3 DEF VaultInv
<1>5. CASE Enabled(job.spec, "secret") /\ "secret" \in job.due
  <2>1. Arm("secret") /\ Verified(job.spec)
    BY <1>1, <1>5 DEF SkipSecretRefresh, VaultInv, Accepted
  <2>2. /\ DOMAIN next' = Features /\ next'["secret"] # None
        /\ next'["secret"] \in Int /\ next'["secret"] >= -1
        /\ IF next'["secret"] >= 0 THEN elapsed + next'["secret"] >= Minute
                                  ELSE elapsed >= Minute
    BY <1>5, <2>1, ArmSecret DEF VaultInv
  <2>3. Clocks' /\ TimesApart'
    BY <1>1, <2>2, ScheduleAssumption, DurationsAssumption DEF VaultInv, Clocks, TimesApart
  <2>4. TimeSet'
    BY <1>1, <2>2 DEF TimeSet
  <2> QED BY <1>2, <1>3, <2>3, <2>4 DEF VaultInv
<1>6. CASE Enabled(job.spec, "secret") /\ "secret" \notin job.due
  <2>1. UNCHANGED next
    BY <1>6 DEF SkipSecretRefresh
  <2>2. Clocks' /\ TimesApart'
    BY <1>1, <2>1, SameTimes DEF VaultInv, Clocks
  <2>3. TimeSet'
    BY <1>1, <1>6, <2>1 DEF VaultInv, TimeSet
  <2> QED BY <1>2, <1>3, <2>2, <2>3 DEF VaultInv
<1> QED BY <1>4, <1>5, <1>6

\* So does one that asks Key Vault.
LEMMA SecretVault == VaultInv /\ ProcessSecretReferenceRefresh => VaultInv'
<1> SUFFICES ASSUME VaultInv, ProcessSecretReferenceRefresh, ~ Fails PROVE VaultInv'
  BY FailsVault
<1>1. /\ pc = "secret" /\ pc' = "write" /\ Arm("secret") /\ vaultAge' = elapsed
      /\ Enabled(job.spec, "secret")
      /\ UNCHANGED <<spec, generation, observed, elapsed>>
  BY DEF ProcessSecretReferenceRefresh
<1>2. Accepted' /\ Verified(job.spec)
  BY <1>1, SecretAccepted DEF VaultInv, Accepted
<1>3. SameStart(job, job')
  BY ResolvedJob DEF VaultInv, Accepted
<1>4. /\ DOMAIN next' = Features /\ next'["secret"] # None
      /\ next'["secret"] \in Int /\ next'["secret"] >= -1
      /\ IF next'["secret"] >= 0 THEN elapsed + next'["secret"] >= Minute
                                ELSE elapsed >= Minute
  BY <1>1, <1>2, ArmSecret DEF VaultInv
<1>5. Clocks' /\ TimesApart'
  BY <1>1, <1>4, ScheduleAssumption, DurationsAssumption DEF VaultInv, Clocks, TimesApart
<1>6. TimeSet'
  BY <1>1, <1>4 DEF TimeSet
<1>7. JobCurrent' /\ JobMayAsk'
  BY <1>1, <1>3 DEF VaultInv, JobCurrent, JobMayAsk, SameStart
<1> QED BY <1>2, <1>5, <1>6, <1>7 DEF VaultInv

\* A reconcile that finishes has left a time for the secrets.
LEMMA FinishVault == VaultInv /\ Finish => VaultInv'
<1> SUFFICES ASSUME VaultInv, Finish PROVE VaultInv'
  OBVIOUS
<1>1. /\ pc = "finish" /\ pc' = "idle" /\ elapsed' = 0 /\ job' = NewJob
      /\ observed' = job.generation
      /\ UNCHANGED <<spec, generation, next, vaultAge>>
  BY DEF Finish, Return
<1>2. job.generation \in Nat /\ job.generation <= generation
  BY <1>1 DEF VaultInv, Accepted, Job, JobCurrent
<1>3. Accepted'
  BY <1>1, NewJobType DEF VaultInv, Accepted
<1>4. Clocks'
  BY <1>1, <1>2, ScheduleAssumption DEF VaultInv, Clocks
<1>5. TimesApart'
  BY <1>1 DEF VaultInv, TimesApart
<1>6. TimeSet'
  BY <1>1 DEF VaultInv, TimeSet, JobCurrent
<1> QED BY <1>1, <1>3, <1>4, <1>5, <1>6 DEF VaultInv, JobCurrent, JobMayAsk

\* Time brings the refresh time nearer as fast as it ages the last request.
LEMMA TickVault == VaultInv /\ Tick => VaultInv'
<1> SUFFICES ASSUME VaultInv, Tick PROVE VaultInv'
  OBVIOUS
<1>1. /\ UNCHANGED <<spec, generation, observed, pc, job>>
      /\ next' = [f \in Features |-> Passed(next[f])]
      /\ elapsed' = IF pc = "idle" THEN 0 ELSE elapsed + 1
      /\ pc # "idle" => elapsed < MaxDuration
      /\ vaultAge' = Older(vaultAge, Minute + MaxDuration)
  BY DEF Tick
<1> DEFINE n == next["secret"]
<1>2. DOMAIN next' = Features /\ next'["secret"] = Passed(n)
  BY <1>1 DEF Features
<1>3. /\ (n = None => next'["secret"] = None)
      /\ n # None => /\ next'["secret"] = IF n >= 0 THEN n - 1 ELSE n
                     /\ next'["secret"] \in Int /\ next'["secret"] >= -1
                     /\ n \in Int /\ next'["secret"] # None
  <2>1. CASE n = None
    BY <1>2, <2>1 DEF Passed
  <2>2. CASE n # None
    <3>1. n \in Int /\ n >= -1
      BY <2>2 DEF VaultInv, Clocks
    <3>2. Max({-1, n - 1}) = IF -1 >= n - 1 THEN -1 ELSE n - 1
      BY <3>1, MaxOfTwo
    <3>3. next'["secret"] = IF n >= 0 THEN n - 1 ELSE n
      BY <1>2, <2>2, <3>1, <3>2 DEF Passed
    <3> HIDE DEF n
    <3> QED BY <2>2, <3>1, <3>3, ScheduleAssumption
  <2> QED BY <2>1, <2>2
<1>4. /\ elapsed \in 0..MaxDuration /\ elapsed' \in 0..MaxDuration
      /\ vaultAge \in 0..(Minute + MaxDuration) /\ vaultAge' \in 0..(Minute + MaxDuration)
      /\ vaultAge <= vaultAge' /\ elapsed' <= vaultAge'
      /\ vaultAge' = vaultAge + 1 \/ vaultAge' = Minute + MaxDuration
      /\ Minute \in Nat /\ MaxDuration \in Nat
  BY <1>1, ScheduleAssumption, DurationsAssumption DEF VaultInv, Clocks, Older
<1>5. Accepted'
  BY <1>1 DEF VaultInv, Accepted
<1>6. Clocks'
  BY <1>1, <1>2, <1>3, <1>4 DEF VaultInv, Clocks
<1>7. TimesApart'
  <2>1. n # None => IF n >= 0 THEN vaultAge + n >= Minute ELSE vaultAge >= Minute
    BY DEF VaultInv, TimesApart
  <2> SUFFICES ASSUME n # None
               PROVE  IF next'["secret"] >= 0 THEN vaultAge' + next'["secret"] >= Minute
                                              ELSE vaultAge' >= Minute
    BY <1>3 DEF TimesApart
  <2>2. n \in Int /\ n >= -1
    BY <1>3 DEF VaultInv, Clocks
  <2> HIDE DEF n
  <2> QED BY <1>3, <1>4, <2>1, <2>2
<1>8. TimeSet'
  BY <1>1, <1>3 DEF VaultInv, TimeSet
<1>9. JobCurrent'
  BY <1>1 DEF VaultInv, JobCurrent
<1>10. JobMayAsk'
  <2>1. ASSUME pc # "idle", vaultAge - elapsed >= Minute PROVE vaultAge' - elapsed' >= Minute
    BY <1>1, <1>4, <2>1
  <2> QED BY <1>1, <2>1 DEF VaultInv, JobMayAsk
<1> QED BY <1>5, <1>6, <1>7, <1>8, <1>9, <1>10 DEF VaultInv

\* A new generation is reconciled in full first.
LEMMA UpdateSpecVault ==
  ASSUME VaultInv, NEW s \in Specs, UpdateSpec(s)
  PROVE  VaultInv'
<1>1. /\ spec' = s /\ generation' = generation + 1
      /\ UNCHANGED <<observed, next, pc, job, elapsed, vaultAge>>
  BY DEF UpdateSpec
<1>2. generation \in Nat /\ observed \in Nat /\ observed <= generation /\ job.generation \in Nat
  BY DEF VaultInv, Accepted, Clocks, Job
<1>3. Accepted'
  BY <1>1, <1>2, SpecsAssumption DEF VaultInv, Accepted
<1>4. Clocks' /\ TimesApart'
  BY <1>1, <1>2 DEF VaultInv, Clocks, TimesApart
<1>5. TimeSet'
  BY <1>1, <1>2 DEF VaultInv, TimeSet
<1>6. JobCurrent'
  BY <1>1, <1>2 DEF VaultInv, JobCurrent
<1>7. JobMayAsk'
  BY <1>1 DEF VaultInv, JobMayAsk
<1> QED BY <1>3, <1>4, <1>5, <1>6, <1>7 DEF VaultInv

\* Every step keeps the inductive invariant.
LEMMA NextVault == VaultInv /\ [Next]_vars => VaultInv'
<1> SUFFICES ASSUME VaultInv, [Next]_vars PROVE VaultInv'
  OBVIOUS
<1>1. CASE \/ RequeueFires \/ ReconcileInvalid \/ EditConfigMap \/ UNCHANGED vars
  <2>1. UNCHANGED <<spec, generation, observed, next, pc, job, elapsed, vaultAge>>
    BY <1>1 DEF RequeueFires, ReconcileInvalid, EditConfigMap, vars
  <2>2. Accepted' /\ Clocks' /\ TimesApart' /\ JobCurrent'
    BY <2>1 DEF VaultInv, Accepted, Clocks, TimesApart, JobCurrent
  <2>3. TimeSet' /\ JobMayAsk'
    BY <2>1 DEF VaultInv, TimeSet, JobMayAsk
  <2> QED BY <2>2, <2>3 DEF VaultInv
<1>2. CASE WriteTargets
  <2>1. CASE Fails
    BY <2>1, FailsVault
  <2>2. CASE ~ Fails
    <3>1. /\ pc = "write" /\ pc' = "finish"
          /\ UNCHANGED <<spec, generation, observed, next, job, elapsed, vaultAge>>
      BY <1>2, <2>2 DEF WriteTargets
    <3>2. Accepted' /\ Clocks' /\ TimesApart' /\ JobCurrent'
      BY <3>1 DEF VaultInv, Accepted, Clocks, TimesApart, JobCurrent, Stages
    <3>3. TimeSet' /\ JobMayAsk'
      BY <3>1 DEF VaultInv, TimeSet, JobMayAsk
    <3> QED BY <3>2, <3>3 DEF VaultInv
  <2> QED BY <2>1, <2>2
<1> QED BY <1>1, <1>2, ReconcileStartVault, FullVault, RefreshVault, SkipSecretVault,
        SecretVault, FinishVault, TickVault, UpdateSpecVault DEF Next

\* The inductive invariant holds in the beginning.
LEMMA InitVault == Init => VaultInv
<1> SUFFICES ASSUME Init PROVE VaultInv
  OBVIOUS
<1>1. Accepted
  BY NewJobType, SpecsAssumption DEF Init, Accepted
<1>2. Clocks
  BY ScheduleAssumption, DurationsAssumption DEF Init, Clocks, Features
<1>3. next["secret"] = None
  BY DEF Init, Features
<1> QED BY <1>1, <1>2, <1>3 DEF Init, VaultInv, TimesApart, TimeSet, JobCurrent, JobMayAsk

\* MinimalSecretRefreshInterval is the guarantee it looks like: what Key Vault answered
\* because of the interval is not asked for again on that account within a minute, for
\* all specs, all lengths of a reconcile, and however often the spec changes or a step
\* fails.  Only a question that failed is repeated sooner.
THEOREM KeyVaultIsSpared == Spec => VaultSpared
<1>1. ASSUME VaultInv
      PROVE  ProcessSecretReferenceRefresh => vaultAge - elapsed >= Minute
  <2> SUFFICES ASSUME ProcessSecretReferenceRefresh PROVE vaultAge - elapsed >= Minute
    OBVIOUS
  <2>1. pc = "secret" /\ Enabled(job.spec, "secret") /\ "secret" \in job.due /\ ~ job.secret
    BY DEF ProcessSecretReferenceRefresh
  <2> QED BY <1>1, <2>1 DEF VaultInv, JobMayAsk
<1> QED BY <1>1, InitVault, NextVault, PTL DEF Spec, VaultSpared
=============================================================================
