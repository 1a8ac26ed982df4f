------------------------ MODULE CachedTargetProofs ------------------------
(***************************************************************************)
(* Proofs about CachedTarget, for all contents, budgets and lengths of the *)
(* stream between the API server and the cache.                            *)
(***************************************************************************)
EXTENDS CachedTarget, SequenceTheorems, TLAPS

-----------------------------------------------------------------------------
(* The inductive invariant *)

\* An object as the controller wants it: there, and without an edit that it sees.
Good(o) == o # None /\ Clean(o)

\* The states of the ConfigMap that some part of the system still holds.
Held == ({server, cache, job.existing} \cup {stream[i] : i \in 1..Len(stream)}) \ {None}

\* A resource version names one state of the ConfigMap.
VersionsUnique ==
  /\ \A o \in Held : o.rv \in 1..rev
  /\ \A o, p \in Held : o.rv = p.rv => o = p

\* The version the controller recorded is not that of an edited state.
RecordedGood ==
  /\ rs.cmrv <= rev
  /\ \A o \in Held : o.rv = rs.cmrv => Clean(o)

\* The state of the cache before the stream's i-th change.
Before(i) == IF i = 1 THEN cache ELSE stream[i - 1]

\* The stream ends with the API server's state, and every deletion and every
\* edit in it will queue the provider.
StreamTells ==
  /\ server = Before(Len(stream) + 1)
  /\ \A i \in 1..Len(stream) : ~ Good(stream[i]) => Enqueues(Before(i), stream[i])

\* The cache is as good as what the running reconcile read, unless the provider
\* is queued again; and a reconcile with nothing to write read a good state.
JobTells ==
  /\ pc \in {"fetch", "write"} /\ ~queue /\ stream = <<>> /\ Good(job.existing)
       => Good(cache)
  /\ pc = "fetch" /\ ~job.should => Good(job.existing)

\* Nothing is left to do: the controller knows of the state in the cache.
Settled == pc \in {"idle", "finish"} /\ ~queue /\ ~delayed /\ stream = <<>>

Unmerged == left["relist"] = Budget["relist"]

\* Unless a relist merged changes, nothing bad escapes the controller.
NothingMissed ==
  Unmerged => JobTells /\ (Settled => Good(cache))

TypeInv ==
  /\ TypeOK
  /\ \A k \in Kinds : left[k] <= Budget[k]
  /\ pc = "write" => job.data \in Contents

IndInv == TypeInv /\ VersionsUnique /\ RecordedGood /\ StreamTells /\ NothingMissed

-----------------------------------------------------------------------------
(* Types *)

\* An outside event leaves a smaller budget of its kind.
LEMMA SpendType ==
  ASSUME TypeInv, NEW kind \in Kinds, Spend(kind)
  PROVE  /\ left' \in [Kinds -> Nat]
         /\ \A k \in Kinds : left'[k] <= Budget[k]
         /\ left'[kind] < Budget[kind]
         /\ \A k \in Kinds \ {kind} : left'[k] = left[k]
<1>1. left \in [Kinds -> Nat] /\ Budget \in [Kinds -> Nat] /\ \A k \in Kinds : left[k] <= Budget[k]
  BY CacheBudgetAssumption DEF TypeInv, TypeOK
<1>2. left[kind] > 0 /\ left' = [left EXCEPT ![kind] = left[kind] - 1]
  BY DEF Spend
<1>3. left' \in [Kinds -> Nat] /\ left'[kind] = left[kind] - 1
      /\ \A k \in Kinds \ {kind} : left'[k] = left[k]
  BY <1>1, <1>2
<1>4. left[kind] \in Nat /\ Budget[kind] \in Nat /\ left[kind] <= Budget[kind]
  BY <1>1
<1>5. left'[kind] < Budget[kind] /\ left'[kind] <= Budget[kind]
  BY <1>3, <1>4
<1> QED BY <1>1, <1>3, <1>5

\* No reconcile has the type of a reconcile.
LEMMA NewJobType ==
  NewJob \in [existing : Object \cup {None}, annotation : Nat, should : BOOLEAN,
              data : Contents \cup {None}]
BY DEF NewJob

\* The zero ReconciliationState has its type.
LEMMA NewStateType == NewState \in [cmrv : Nat, tag : Contents \cup {None}, annotation : Nat]
BY DEF NewState

\* The types hold in the beginning.
LEMMA InitType == Init => TypeInv
<1> SUFFICES ASSUME Init PROVE TypeInv
  OBVIOUS
<1>1. stream \in Seq(Object \cup {None})
  BY DEF Init
<1>2. left \in [Kinds -> Nat] /\ \A k \in Kinds : left[k] <= Budget[k]
  BY CacheBudgetAssumption DEF Init
<1>3. refresh \in BOOLEAN /\ typed \in BOOLEAN /\ store \in Contents
  BY RefreshAssumption, TypedAssumption, ContentsAssumption DEF Init
<1> QED BY <1>1, <1>2, <1>3, NewJobType, NewStateType DEF Init, TypeInv, TypeOK

\* What appending a change does to the stream.
LEMMA AppendType ==
  ASSUME stream \in Seq(Object \cup {None}), NEW x \in Object \cup {None},
         stream' = Append(stream, x)
  PROVE  /\ stream' \in Seq(Object \cup {None})
         /\ Len(stream) \in Nat
         /\ Len(stream') = Len(stream) + 1
         /\ \A i \in 1..Len(stream) : stream'[i] = stream[i]
         /\ stream'[Len(stream) + 1] = x
BY AppendProperties, LenProperties

\* Every step keeps the types.
LEMMA NextType == TypeInv /\ [Next]_vars => TypeInv'
<1> SUFFICES ASSUME TypeInv, [Next]_vars PROVE TypeInv'
  OBVIOUS
<1> USE DEF TypeInv, TypeOK
<1>1. CASE ReconcileStart
  <2>1. rs' \in [cmrv : Nat, tag : Contents \cup {None}, annotation : Nat]
    BY <1>1 DEF ReconcileStart, ResetVersion
  <2>2. job' \in [existing : Object \cup {None}, annotation : Nat, should : BOOLEAN,
                  data : Contents \cup {None}]
    BY <1>1 DEF ReconcileStart, NewJob, ShouldReconcile
  <2> QED BY <1>1, <2>1, <2>2 DEF ReconcileStart, object
<1>2. CASE PopulateSettings
  <2>1. CASE Fails
    <3>1. left' \in [Kinds -> Nat] /\ \A k \in Kinds : left'[k] <= Budget[k]
      BY <2>1, SpendType DEF Fails, Kinds
    <3> QED BY <2>1, <3>1, NewJobType DEF Fails, Return, object
  <2>2. CASE ~ Fails
    <3>1. job' \in [existing : Object \cup {None}, annotation : Nat, should : BOOLEAN,
                    data : Contents \cup {None}]
      BY <1>2, <2>2 DEF PopulateSettings
    <3>2. pc' = "write" => job'.data \in Contents
      BY <1>2, <2>2 DEF PopulateSettings
    <3> QED BY <1>2, <2>2, <3>1, <3>2 DEF PopulateSettings, object
  <2> QED BY <2>1, <2>2
<1>3. CASE SkipWrite
  <2>1. job.existing \in Object /\ rs' = [rs EXCEPT !.cmrv = job.existing.rv]
    BY <1>3 DEF SkipWrite, ShouldWrite
  <2>2. rs' \in [cmrv : Nat, tag : Contents \cup {None}, annotation : Nat]
    BY <2>1 DEF Object
  <2> QED BY <1>3, <2>2 DEF SkipWrite, object
<1>4. CASE CreateOrUpdateConfigMap
  <2>1. CASE Fails
    <3>1. left' \in [Kinds -> Nat] /\ \A k \in Kinds : left'[k] <= Budget[k]
      BY <2>1, SpendType DEF Fails, Kinds
    <3> QED BY <2>1, <3>1, NewJobType DEF Fails, Return, object
  <2>2. CASE ~ Fails /\ Refused
    BY <1>4, <2>2, NewJobType DEF CreateOrUpdateConfigMap, Return, object
  <2>3. CASE ~ Fails /\ ~ Refused
    <3>1. server' = [rv |-> rev + 1, stamp |-> rev + 1, data |-> job.data,
                     extra |-> FALSE]
          /\ job.data \in Contents
      BY <1>4, <2>3, Zenon DEF CreateOrUpdateConfigMap
    <3>2. server' \in Object
      BY <3>1 DEF Object
    <3>3. stream' \in Seq(Object \cup {None})
      BY <1>4, <2>3, <3>2, AppendType DEF CreateOrUpdateConfigMap
    <3>4. rs' \in [cmrv : Nat, tag : Contents \cup {None}, annotation : Nat]
      <4>1. rs' = [rs EXCEPT !.cmrv = rev + 1]
        BY <1>4, <2>3, Zenon DEF CreateOrUpdateConfigMap
      <4>2. rev + 1 \in Nat
        OBVIOUS
      <4> QED BY <4>1, <4>2
    <3> QED BY <1>4, <2>3, <3>2, <3>3, <3>4 DEF CreateOrUpdateConfigMap
  <2> QED BY <2>1, <2>2, <2>3
<1>5. CASE Finish
  <2>1. rs' \in [cmrv : Nat, tag : Contents \cup {None}, annotation : Nat]
    BY <1>5 DEF Finish
  <2>2. delayed' \in BOOLEAN
    BY <1>5 DEF Finish, Return, Requeues
  <2> QED BY <1>5, <2>1, <2>2, NewJobType DEF Finish, Return, object
<1>6. CASE WatchEvent
  <2>1. Head(stream) \in Object \cup {None} /\ Tail(stream) \in Seq(Object \cup {None})
    BY <1>6, HeadTailProperties DEF WatchEvent
  <2>2. queue' \in BOOLEAN
    BY <1>6 DEF WatchEvent, Deliver, Enqueues
  <2> QED BY <1>6, <2>1, <2>2 DEF WatchEvent, Deliver
<1>7. CASE RequeueFires
  BY <1>7 DEF RequeueFires, object
<1>8. CASE Relist
  <2>1. left' \in [Kinds -> Nat] /\ \A k \in Kinds : left'[k] <= Budget[k]
    BY <1>8, SpendType DEF Relist, Kinds
  <2>2. queue' \in BOOLEAN
    BY <1>8 DEF Relist, Deliver, Enqueues
  <2>3. <<>> \in Seq(Object \cup {None})
    OBVIOUS
  <2> QED BY <1>8, <2>1, <2>2, <2>3 DEF Relist, Deliver
<1>9. CASE \E content \in Contents : ChangeStore(content)
  <2>1. left' \in [Kinds -> Nat] /\ \A k \in Kinds : left'[k] <= Budget[k]
    BY <1>9, SpendType DEF ChangeStore, Kinds
  <2> QED BY <1>9, <2>1 DEF ChangeStore, object
<1>10. CASE EditConfigMap
  <2>1. left' \in [Kinds -> Nat] /\ \A k \in Kinds : left'[k] <= Budget[k]
    BY <1>10, SpendType DEF EditConfigMap, Kinds
  <2>2. server' \in Object
    <3>1. server \in Object /\ rev + 1 \in Nat
      BY <1>10 DEF EditConfigMap
    <3>2. \/ server' = [server EXCEPT !.rv = rev + 1, !.data = Edited]
          \/ server' = [server EXCEPT !.rv = rev + 1, !.extra = TRUE]
      BY <1>10 DEF EditConfigMap
    <3> QED BY <3>1, <3>2 DEF Object
  <2>3. stream' \in Seq(Object \cup {None})
    BY <1>10, <2>2, AppendType DEF EditConfigMap
  <2> QED BY <1>10, <2>1, <2>2, <2>3 DEF EditConfigMap
<1>11. CASE DeleteConfigMap
  <2>1. left' \in [Kinds -> Nat] /\ \A k \in Kinds : left'[k] <= Budget[k]
    BY <1>11, SpendType DEF DeleteConfigMap, Kinds
  <2>2. stream' \in Seq(Object \cup {None})
    BY <1>11, AppendType DEF DeleteConfigMap
  <2> QED BY <1>11, <2>1, <2>2 DEF DeleteConfigMap
<1>12. CASE UpdateAnnotations
  <2>1. left' \in [Kinds -> Nat] /\ \A k \in Kinds : left'[k] <= Budget[k]
    BY <1>12, SpendType DEF UpdateAnnotations, Kinds
  <2> QED BY <1>12, <2>1 DEF UpdateAnnotations, object
<1>13. CASE Crash
  <2>1. left' \in [Kinds -> Nat] /\ \A k \in Kinds : left'[k] <= Budget[k]
    BY <1>13, SpendType DEF Crash, Kinds
  <2>2. <<>> \in Seq(Object \cup {None})
    OBVIOUS
  <2> QED BY <1>13, <2>1, <2>2, NewJobType, NewStateType DEF Crash
<1>14. CASE UNCHANGED vars
  BY <1>14 DEF vars
<1> QED BY <1>1, <1>2, <1>3, <1>4, <1>5, <1>6, <1>7, <1>8, <1>9, <1>10, <1>11, <1>12, <1>13,
        <1>14 DEF Next, Reconcile, Outside

\* The types always hold.
LEMMA SpecType == Spec => []TypeInv
BY InitType, NextType, PTL DEF Spec

\* The variables stay in their types: a write always has fetched settings to
\* write, and the recorded version is always a version or empty.
THEOREM TypeCorrect == Spec => []TypeOK
<1>1. TypeInv => TypeOK
  BY DEF TypeInv
<1> QED BY <1>1, SpecType, PTL

-----------------------------------------------------------------------------
(* Versions *)

\* A step that hands out no version and only forgets states.
LEMMA VersionsKept ==
  ASSUME VersionsUnique, RecordedGood, TypeOK, TypeOK', Held' \subseteq Held, rev' = rev,
         rs'.cmrv = rs.cmrv \/ rs'.cmrv = 0, UNCHANGED typed
  PROVE  VersionsUnique' /\ RecordedGood'
<1>1. VersionsUnique'
  BY DEF VersionsUnique
<1>2. RecordedGood'
  <2>1. rev \in Nat /\ rs.cmrv \in Nat
    BY DEF TypeOK
  <2>2. \A o \in Held : o.rv # 0
    BY DEF VersionsUnique
  <2> QED BY <2>1, <2>2 DEF RecordedGood, Clean
<1> QED BY <1>1, <1>2

\* A step that makes one new state, with the next version.
LEMMA VersionsGrow ==
  ASSUME VersionsUnique, RecordedGood, TypeOK, NEW o, Held' \subseteq Held \cup {o},
         o.rv = rev + 1, rev' = rev + 1,
         rs'.cmrv = rs.cmrv \/ (rs'.cmrv = rev + 1 /\ Clean(o)), UNCHANGED typed
  PROVE  VersionsUnique' /\ RecordedGood'
<1>1. rev \in Nat /\ rs.cmrv \in Nat
  BY DEF TypeOK
<1>2. \A p \in Held : p.rv \in 1..rev
  BY DEF VersionsUnique
<1>3. \A p \in Held' : p.rv \in 1..(rev + 1) /\ (p.rv = rev + 1 => p = o)
  BY <1>1, <1>2
<1>4. ASSUME NEW p \in Held', NEW q \in Held', p.rv = q.rv PROVE p = q
  <2>1. CASE p.rv = rev + 1
    BY <1>3, <1>4, <2>1
  <2>2. CASE p.rv # rev + 1
    <3>1. p \in Held /\ q \in Held
      BY <1>4, <2>2
    <3> QED BY <1>4, <3>1 DEF VersionsUnique
  <2> QED BY <2>1, <2>2
<1>5. VersionsUnique'
  BY <1>3, <1>4 DEF VersionsUnique
<1>6. ASSUME NEW p \in Held', p.rv = rs'.cmrv PROVE Clean(p)
  <2>1. CASE rs'.cmrv = rs.cmrv
    <3>1. p.rv # rev + 1
      BY <1>1, <1>6, <2>1 DEF RecordedGood
    <3>2. p \in Held
      BY <3>1
    <3> QED BY <1>6, <2>1, <3>2 DEF RecordedGood
  <2>2. CASE rs'.cmrv = rev + 1 /\ Clean(o)
    BY <1>3, <1>6, <2>2
  <2> QED BY <2>1, <2>2
<1>7. rs'.cmrv <= rev'
  BY <1>1 DEF RecordedGood
<1> QED BY <1>5, <1>6, <1>7 DEF RecordedGood, Clean

-----------------------------------------------------------------------------
(* The stream *)

\* A change of the ConfigMap, bad ones only with an event, goes to the end of the stream.
LEMMA StreamAppended ==
  ASSUME TypeOK, StreamTells, NEW o \in Object \cup {None},
         server' = o, stream' = Append(stream, o), UNCHANGED <<typed, cache, job>>,
         Good(o) \/ Enqueues(server, o)
  PROVE  StreamTells' /\ Held' \subseteq Held \cup {o} /\ stream' # <<>>
<1>1. /\ Len(stream) \in Nat
      /\ Len(stream') = Len(stream) + 1
      /\ \A i \in 1..Len(stream) : stream'[i] = stream[i]
      /\ stream'[Len(stream) + 1] = o
  BY AppendType DEF TypeOK
<1>2. \A i \in 1..(Len(stream) + 1) : Before(i)' = Before(i)
  BY <1>1 DEF Before
<1>3. (server = Before(Len(stream) + 1))'
  BY <1>1 DEF Before
<1>4. ASSUME NEW i \in 1..Len(stream'), ~ Good(stream'[i])
      PROVE  Enqueues(Before(i)', stream'[i])
  <2>1. CASE i \in 1..Len(stream)
    BY <1>1, <1>2, <1>4, <2>1 DEF StreamTells
  <2>2. CASE i = Len(stream) + 1
    <3>1. Before(i)' = server
      BY <1>1, <1>2, <2>2 DEF StreamTells
    <3> QED BY <1>1, <1>4, <2>2, <3>1
  <2> QED BY <1>1, <2>1, <2>2
<1>5. StreamTells'
  BY <1>3, <1>4 DEF StreamTells, Good, Clean, Enqueues
<1>6. Held' \subseteq Held \cup {o}
  BY <1>1 DEF Held
<1> QED BY <1>1, <1>5, <1>6

\* A new list, or a new process, starts from the state of the API server.
LEMMA StreamEmptied ==
  ASSUME TypeOK, stream' = <<>>, cache' = server, server' = server,
         job'.existing \in {job.existing, None}
  PROVE  StreamTells' /\ Held' \subseteq Held
BY DEF StreamTells, Before, Held

\* The cache takes the first change of the stream in.
LEMMA StreamDelivered ==
  ASSUME TypeOK, StreamTells, WatchEvent
  PROVE  /\ StreamTells'
         /\ Held' \subseteq Held
         /\ ~queue' => Good(cache')
<1>0. UNCHANGED typed
  BY DEF WatchEvent
<1>1. /\ Len(stream) \in Nat /\ Len(stream) > 0
      /\ stream' = Tail(stream) /\ cache' = stream[1]
      /\ Len(stream') = Len(stream) - 1
      /\ \A i \in 1..(Len(stream) - 1) : stream'[i] = stream[i + 1]
  BY HeadTailProperties, LenProperties, EmptySeq DEF TypeOK, WatchEvent, Deliver
<1>2. \A i \in 1..Len(stream) : Before(i)' = stream[i]
  BY <1>1 DEF Before
<1>3. \A i \in 1..Len(stream) : Before(i + 1) = stream[i]
  BY <1>1 DEF Before
<1>4. (server = Before(Len(stream) + 1))'
  <2>1. Len(stream) \in 1..Len(stream)
    BY <1>1
  <2> QED BY <1>1, <1>2, <1>3, <2>1 DEF StreamTells, WatchEvent
<1>5. ASSUME NEW i \in 1..Len(stream'), ~ Good(stream'[i])
      PROVE  Enqueues(Before(i)', stream'[i])
  <2>1. i \in 1..Len(stream) /\ i + 1 \in 1..Len(stream) /\ stream'[i] = stream[i + 1]
    BY <1>1
  <2>2. Enqueues(Before(i + 1), stream[i + 1])
    BY <1>5, <2>1 DEF StreamTells
  <2> QED BY <1>2, <1>3, <2>1, <2>2
<1>6. StreamTells'
  BY <1>4, <1>5, <1>0 DEF StreamTells, Good, Clean, Enqueues
<1>7. Held' \subseteq Held
  BY <1>1 DEF Held, WatchEvent
<1>8. ASSUME ~queue' PROVE Good(cache')
  <2>1. ~ Enqueues(cache, stream[1])
    BY <1>1, <1>8 DEF WatchEvent, Deliver
  <2>2. 1 \in 1..Len(stream) /\ Before(1) = cache
    BY <1>1 DEF Before
  <2> QED BY <1>1, <2>1, <2>2 DEF StreamTells
<1> QED BY <1>6, <1>7, <1>8

-----------------------------------------------------------------------------
(* The induction *)

\* The inductive invariant holds in the beginning.
LEMMA InitInd == Init => IndInv
<1> SUFFICES ASSUME Init PROVE IndInv
  OBVIOUS
<1>1. TypeInv
  BY InitType
<1>2. Held = {}
  BY DEF Init, Held, NewJob
<1>3. VersionsUnique /\ RecordedGood
  BY <1>2 DEF VersionsUnique, RecordedGood, Init, NewState
<1>4. StreamTells
  BY DEF Init, StreamTells, Before
<1>5. NothingMissed
  BY DEF Init, NothingMissed, JobTells, Settled
<1> QED BY <1>1, <1>3, <1>4, <1>5 DEF IndInv

\* Only a relist uses up the budget for relists.
LEMMA UnmergedKept ==
  ASSUME TypeInv, NEW kind \in Kinds, Spend(kind)
  PROVE  IF kind = "relist" THEN ~ Unmerged' ELSE Unmerged' = Unmerged
<1>1. /\ left'[kind] < Budget[kind] /\ left'[kind] \in Nat /\ Budget[kind] \in Nat
      /\ \A k \in Kinds \ {kind} : left'[k] = left[k]
  BY SpendType, CacheBudgetAssumption
<1>2. "relist" \in Kinds
  BY DEF Kinds
<1> QED BY <1>1, <1>2 DEF Unmerged

\* A step that leaves the ConfigMap and its copies alone.
LEMMA StreamKept ==
  ASSUME StreamTells, UNCHANGED <<typed, object, cache>>, job'.existing \in {job.existing, None}
  PROVE  StreamTells' /\ Held' \subseteq Held
BY DEF StreamTells, Before, Held, object, Enqueues, Good, Clean

\* Reconcile reads the cache and knows by the recorded version whether it is good.
LEMMA ReconcileStartInd == IndInv /\ ReconcileStart => IndInv'
<1> SUFFICES ASSUME IndInv, ReconcileStart PROVE IndInv'
  OBVIOUS
<1>1. TypeInv'
  BY NextType DEF IndInv, Next, Reconcile
<1>2. rs'.cmrv = IF cache = None THEN 0 ELSE rs.cmrv
  BY DEF ReconcileStart, ResetVersion, IndInv, TypeInv, TypeOK
<1>3. job'.existing = cache /\ job'.should = ShouldReconcile(rs', cache)
  BY DEF ReconcileStart, NewJob
<1>4. StreamTells' /\ Held' \subseteq Held
  BY <1>3 DEF IndInv, ReconcileStart, StreamTells, Before, Held, object, Good, Clean, Enqueues
<1>5. VersionsUnique' /\ RecordedGood'
  BY <1>1, <1>2, <1>4, VersionsKept DEF IndInv, TypeInv, ReconcileStart, object
<1>6. ~ job'.should => Good(cache)
  <2> SUFFICES ASSUME ~ job'.should PROVE Good(cache)
    OBVIOUS
  <2>1. cache # None /\ cache.rv = rs.cmrv
    BY <1>2, <1>3 DEF ShouldReconcile
  <2>2. cache \in Held
    BY <2>1 DEF Held
  <2> QED BY <2>1, <2>2 DEF IndInv, RecordedGood, Good, Clean
<1>7. NothingMissed'
  BY <1>3, <1>6 DEF NothingMissed, JobTells, Settled, Good, Clean, ReconcileStart
<1> QED BY <1>1, <1>4, <1>5, <1>7 DEF IndInv

\* Leaving the reconcile with a retry.
LEMMA RetryInd ==
  ASSUME IndInv, TypeInv', Return(TRUE), UNCHANGED <<typed, object, cache, rs, queue>>
  PROVE  IndInv'
<1>1. StreamTells' /\ Held' \subseteq Held
  BY StreamKept DEF IndInv, Return, NewJob
<1>2. VersionsUnique' /\ RecordedGood'
  BY <1>1, VersionsKept DEF IndInv, TypeInv, object
<1>3. NothingMissed'
  BY DEF NothingMissed, JobTells, Settled, Return
<1> QED BY <1>1, <1>2, <1>3 DEF IndInv

\* Fetching ends with nothing to write, with data to write, or in a retry.
LEMMA PopulateSettingsInd == IndInv /\ PopulateSettings => IndInv'
<1> SUFFICES ASSUME IndInv, PopulateSettings PROVE IndInv'
  OBVIOUS
<1>1. TypeInv'
  BY NextType DEF IndInv, Next, Reconcile
<1>2. CASE Fails
  BY <1>1, <1>2, RetryInd DEF Fails
<1>3. CASE ~ Fails
  <2>1. /\ UNCHANGED <<refresh, typed, annotation, store, object, cache, rs, queue, delayed, left>>
        /\ pc = "fetch"
        /\ \/ job' = [job EXCEPT !.data = store] /\ pc' = "write"
           \/ ~job.should /\ job' = job /\ pc' = "finish"
    BY <1>3 DEF PopulateSettings
  <2>2. job'.existing = job.existing
    BY <2>1 DEF IndInv, TypeInv, TypeOK
  <2>3. StreamTells' /\ Held' \subseteq Held
    BY <2>1, <2>2, StreamKept DEF IndInv
  <2>4. VersionsUnique' /\ RecordedGood'
    BY <1>1, <2>1, <2>3, VersionsKept DEF IndInv, TypeInv, object
  <2>5. NothingMissed'
    BY <2>1, <2>2 DEF NothingMissed, JobTells, Settled, Unmerged, IndInv, Good, Clean, object
  <2> QED BY <1>1, <2>3, <2>4, <2>5 DEF IndInv
<1> QED BY <1>2, <1>3

\* A write that is skipped found the data in the existing ConfigMap.
LEMMA SkipWriteInd == IndInv /\ SkipWrite => IndInv'
<1> SUFFICES ASSUME IndInv, SkipWrite PROVE IndInv'
  OBVIOUS
<1>1. TypeInv'
  BY NextType DEF IndInv, Next, Reconcile
<1>2. StreamTells' /\ Held' \subseteq Held
  BY StreamKept DEF IndInv, SkipWrite
<1>3. job.existing \in Held /\ Clean(job.existing) /\ Good(job.existing)
  BY ContentsAssumption DEF IndInv, TypeInv, SkipWrite, ShouldWrite, Held, Good, Clean
<1>4. rs'.cmrv = job.existing.rv /\ rev' = rev /\ job' = job
  BY DEF IndInv, TypeInv, TypeOK, SkipWrite, object
<1>5. VersionsUnique'
  BY <1>2, <1>4 DEF IndInv, VersionsUnique
<1>6. RecordedGood'
  <2>1. rs'.cmrv <= rev'
    BY <1>3, <1>4 DEF IndInv, VersionsUnique, TypeInv, TypeOK
  <2>2. ASSUME NEW o \in Held', o.rv = rs'.cmrv PROVE Clean(o)
    BY <1>2, <1>3, <1>4, <2>2 DEF IndInv, VersionsUnique
  <2>3. UNCHANGED typed
    BY DEF SkipWrite
  <2> QED BY <2>1, <2>2, <2>3 DEF RecordedGood, Clean
<1>7. NothingMissed'
  BY <1>3 DEF NothingMissed, JobTells, Settled, Unmerged, IndInv, Good, Clean, object, SkipWrite
<1> QED BY <1>1, <1>2, <1>5, <1>6, <1>7 DEF IndInv

\* A write records the version it was given; one of a stale object is retried.
LEMMA CreateOrUpdateInd == IndInv /\ CreateOrUpdateConfigMap => IndInv'
<1> SUFFICES ASSUME IndInv, CreateOrUpdateConfigMap PROVE IndInv'
  OBVIOUS
<1>1. TypeInv'
  BY NextType DEF IndInv, Next, Reconcile
<1>2. CASE Fails
  BY <1>1, <1>2, RetryInd DEF Fails
<1>3. CASE ~ Fails /\ Refused
  BY <1>1, <1>3, RetryInd DEF CreateOrUpdateConfigMap
<1>4. CASE ~ Fails /\ ~ Refused
  <2>1. /\ server' = [rv |-> rev + 1, stamp |-> rev + 1, data |-> job.data,
                     extra |-> FALSE]
        /\ stream' = Append(stream, server')
        /\ rev' = rev + 1
        /\ rs' = [rs EXCEPT !.cmrv = rev + 1]
        /\ pc' = "finish"
        /\ UNCHANGED <<typed, cache, job, queue, delayed, left>>
        /\ job.data \in Contents
    BY <1>4, Zenon DEF CreateOrUpdateConfigMap, IndInv, TypeInv
  <2>2. server' \in Object /\ server'.rv = rev + 1 /\ Clean(server')
    BY <2>1, ContentsAssumption DEF Object, IndInv, TypeInv, TypeOK, Clean
  <2>3. Good(server')
    <3>1. server' # None
      BY <2>2, NoneAssumption
    <3> QED BY <2>2, <3>1 DEF Good, Clean
  <2>4. StreamTells' /\ Held' \subseteq Held \cup {server'} /\ stream' # <<>>
    BY <2>1, <2>2, <2>3, StreamAppended DEF IndInv, TypeInv
  <2>5. rs'.cmrv = rev + 1
    BY <2>1 DEF IndInv, TypeInv, TypeOK
  <2>6. VersionsUnique' /\ RecordedGood'
    BY <2>1, <2>2, <2>4, <2>5, VersionsGrow DEF IndInv, TypeInv
  <2>7. NothingMissed'
    BY <2>1, <2>4 DEF NothingMissed, JobTells, Settled
  <2> QED BY <1>1, <2>4, <2>6, <2>7 DEF IndInv
<1> QED BY <1>2, <1>3, <1>4

\* A reconcile ends.
LEMMA FinishInd == IndInv /\ Finish => IndInv'
<1> SUFFICES ASSUME IndInv, Finish PROVE IndInv'
  OBVIOUS
<1>1. TypeInv'
  BY NextType DEF IndInv, Next, Reconcile
<1>2. StreamTells' /\ Held' \subseteq Held
  BY StreamKept DEF IndInv, Finish, Return, NewJob
<1>3. rs'.cmrv = rs.cmrv
  BY DEF Finish, IndInv, TypeInv, TypeOK
<1>4. VersionsUnique' /\ RecordedGood'
  BY <1>1, <1>2, <1>3, VersionsKept DEF IndInv, TypeInv, object, Finish
<1>5. NothingMissed'
  BY DEF NothingMissed, JobTells, Settled, Unmerged, IndInv, Good, Clean, object, Finish, Return
<1> QED BY <1>1, <1>2, <1>4, <1>5 DEF IndInv

\* The cache takes the next change and may queue the provider.
LEMMA WatchEventInd == IndInv /\ WatchEvent => IndInv'
<1> SUFFICES ASSUME IndInv, WatchEvent PROVE IndInv'
  OBVIOUS
<1>1. TypeInv'
  BY NextType DEF IndInv, Next
<1>2. StreamTells' /\ Held' \subseteq Held /\ (~queue' => Good(cache'))
  BY StreamDelivered DEF IndInv, TypeInv
<1>3. VersionsUnique' /\ RecordedGood'
  BY <1>1, <1>2, VersionsKept DEF IndInv, TypeInv, WatchEvent
<1>4. NothingMissed'
  BY <1>2 DEF NothingMissed, JobTells, Settled, Unmerged, IndInv, Good, Clean, WatchEvent
<1> QED BY <1>1, <1>2, <1>3, <1>4 DEF IndInv

\* The delayed add queues the provider.
LEMMA RequeueFiresInd == IndInv /\ RequeueFires => IndInv'
<1> SUFFICES ASSUME IndInv, RequeueFires PROVE IndInv'
  OBVIOUS
<1>1. TypeInv'
  BY NextType DEF IndInv, Next
<1>2. StreamTells' /\ Held' \subseteq Held
  BY StreamKept DEF IndInv, RequeueFires
<1>3. VersionsUnique' /\ RecordedGood'
  BY <1>1, <1>2, VersionsKept DEF IndInv, TypeInv, object, RequeueFires
<1>4. NothingMissed'
  BY DEF NothingMissed, JobTells, Settled, Unmerged, IndInv, Good, Clean, RequeueFires
<1> QED BY <1>1, <1>2, <1>3, <1>4 DEF IndInv

\* A relist is the one event after which nothing is claimed.
LEMMA RelistInd == IndInv /\ Relist => IndInv'
<1> SUFFICES ASSUME IndInv, Relist PROVE IndInv'
  OBVIOUS
<1>1. TypeInv'
  BY NextType DEF IndInv, Next, Outside
<1>2. StreamTells' /\ Held' \subseteq Held
  BY StreamEmptied DEF IndInv, TypeInv, Relist, Deliver
<1>3. VersionsUnique' /\ RecordedGood'
  BY <1>1, <1>2, VersionsKept DEF IndInv, TypeInv, Relist
<1>4. NothingMissed'
  BY UnmergedKept DEF NothingMissed, IndInv, Relist, Kinds
<1> QED BY <1>1, <1>2, <1>3, <1>4 DEF IndInv

\* A change of the store or of the annotations.
LEMMA QuietInd ==
  ASSUME IndInv, TypeInv', NEW kind \in Kinds, kind # "relist", Spend(kind),
         UNCHANGED <<typed, object, cache, rs, pc, job, delayed>>, queue' = queue \/ queue' = TRUE
  PROVE  IndInv'
<1>1. StreamTells' /\ Held' \subseteq Held
  BY StreamKept DEF IndInv
<1>2. VersionsUnique' /\ RecordedGood'
  BY <1>1, VersionsKept DEF IndInv, TypeInv, object
<1>3. Unmerged' => Unmerged
  BY UnmergedKept DEF IndInv
<1>4. NothingMissed'
  BY <1>3 DEF NothingMissed, JobTells, Settled, IndInv, Good, Clean, object
<1> QED BY <1>1, <1>2, <1>4 DEF IndInv

\* A user's change of the ConfigMap will reach the controller.
LEMMA EditConfigMapInd == IndInv /\ EditConfigMap => IndInv'
<1> SUFFICES ASSUME IndInv, EditConfigMap PROVE IndInv'
  OBVIOUS
<1>1. TypeInv'
  BY NextType DEF IndInv, Next, Outside
<1>2. server' \in Object /\ server'.rv = rev + 1 /\ server'.stamp = server.stamp
  <2>1. server \in Object /\ rev + 1 \in Nat
    BY DEF EditConfigMap, IndInv, TypeInv, TypeOK
  <2>2. \/ server' = [server EXCEPT !.rv = rev + 1, !.data = Edited]
        \/ server' = [server EXCEPT !.rv = rev + 1, !.extra = TRUE]
    BY DEF EditConfigMap
  <2> QED BY <2>1, <2>2 DEF Object
<1>3. Enqueues(server, server')
  BY <1>2 DEF Enqueues, EditConfigMap
<1>4. StreamTells' /\ Held' \subseteq Held \cup {server'} /\ stream' # <<>>
  BY <1>2, <1>3, StreamAppended DEF IndInv, TypeInv, EditConfigMap
<1>5. VersionsUnique' /\ RecordedGood'
  BY <1>2, <1>4, VersionsGrow DEF IndInv, TypeInv, EditConfigMap
<1>6. Unmerged' => Unmerged
  BY UnmergedKept DEF IndInv, EditConfigMap, Kinds
<1>7. NothingMissed'
  BY <1>4, <1>6 DEF NothingMissed, JobTells, Settled, IndInv, Good, Clean, EditConfigMap
<1> QED BY <1>1, <1>4, <1>5, <1>7 DEF IndInv

\* A deletion will be seen.
LEMMA DeleteConfigMapInd == IndInv /\ DeleteConfigMap => IndInv'
<1> SUFFICES ASSUME IndInv, DeleteConfigMap PROVE IndInv'
  OBVIOUS
<1>1. TypeInv'
  BY NextType DEF IndInv, Next, Outside
<1>2. Enqueues(server, None)
  BY DEF Enqueues, DeleteConfigMap
<1>3. StreamTells' /\ Held' \subseteq Held \cup {None} /\ stream' # <<>>
  BY <1>2, StreamAppended DEF IndInv, TypeInv, DeleteConfigMap
<1>4. Held' \subseteq Held
  BY <1>3 DEF Held
<1>5. VersionsUnique' /\ RecordedGood'
  BY <1>1, <1>4, VersionsKept DEF IndInv, TypeInv, DeleteConfigMap
<1>6. Unmerged' => Unmerged
  BY UnmergedKept DEF IndInv, DeleteConfigMap, Kinds
<1>7. NothingMissed'
  BY <1>3, <1>6 DEF NothingMissed, JobTells, Settled, IndInv, Good, Clean, DeleteConfigMap
<1> QED BY <1>1, <1>3, <1>5, <1>7 DEF IndInv

\* A new process reconciles from scratch.
LEMMA CrashInd == IndInv /\ Crash => IndInv'
<1> SUFFICES ASSUME IndInv, Crash PROVE IndInv'
  OBVIOUS
<1>1. TypeInv'
  BY NextType DEF IndInv, Next, Outside
<1>2. StreamTells' /\ Held' \subseteq Held
  BY StreamEmptied DEF IndInv, TypeInv, Crash, NewJob
<1>3. VersionsUnique' /\ RecordedGood'
  BY <1>1, <1>2, VersionsKept DEF IndInv, TypeInv, Crash, NewState
<1>4. NothingMissed'
  BY DEF NothingMissed, JobTells, Settled, Crash
<1> QED BY <1>1, <1>2, <1>3, <1>4 DEF IndInv

\* Every step keeps the inductive invariant.
LEMMA NextInd == IndInv /\ [Next]_vars => IndInv'
<1> SUFFICES ASSUME IndInv, [Next]_vars PROVE IndInv'
  OBVIOUS
<1>1. TypeInv'
  BY NextType DEF IndInv
<1>2. CASE Reconcile
  BY <1>2, ReconcileStartInd, PopulateSettingsInd, SkipWriteInd, CreateOrUpdateInd,
     FinishInd DEF Reconcile
<1>3. CASE \E content \in Contents : ChangeStore(content)
  BY <1>1, <1>3, QuietInd DEF ChangeStore, Kinds
<1>4. CASE UpdateAnnotations
  BY <1>1, <1>4, QuietInd DEF UpdateAnnotations, Kinds
<1>5. CASE UNCHANGED vars
  <2>1. StreamTells' /\ Held' \subseteq Held
    BY <1>5, StreamKept DEF IndInv, vars, object
  <2>2. VersionsUnique' /\ RecordedGood'
    BY <1>1, <1>5, <2>1, VersionsKept DEF IndInv, TypeInv, vars
  <2>3. NothingMissed'
    BY <1>5 DEF NothingMissed, JobTells, Settled, Unmerged, IndInv, Good, Clean, vars
  <2> QED BY <1>1, <2>1, <2>2, <2>3 DEF IndInv
<1> QED BY <1>2, <1>3, <1>4, <1>5, WatchEventInd, RequeueFiresInd, RelistInd,
        EditConfigMapInd, DeleteConfigMapInd, CrashInd DEF Next, Outside

\* No deletion of the ConfigMap and no edit of its data, or of anything in a ConfigMap
\* that is not typed, survives at rest, for all contents,
\* all budgets and every delay of the cache, however often writes are refused,
\* skipped because of an old copy, or fail, and with crashes in between.
THEOREM NoEditSurvives == Spec => []NothingEditedAtRest
<1>1. IndInv => NothingEditedAtRest
  <2> SUFFICES ASSUME IndInv, AtRest, left["relist"] = Budget["relist"]
               PROVE  server # None /\ Clean(server)
    BY DEF NothingEditedAtRest
  <2>1. Good(cache)
    BY DEF IndInv, NothingMissed, Unmerged, Settled, AtRest
  <2>2. server = cache
    BY DEF IndInv, StreamTells, Before, AtRest
  <2> QED BY <2>1, <2>2 DEF Good, Clean
<1> QED BY <1>1, InitInd, NextInd, PTL DEF Spec
=============================================================================
