---------------------------- MODULE CachedTarget ----------------------------
(***************************************************************************)
(* The target ConfigMap as the controller sees it.  Reconcile, and the Get  *)
(* of CreateOrUpdate, read the informer cache, which trails the API server; *)
(* writes go to the API server, which refuses one based on an old version.  *)
(* Events reach the handlers when the cache takes a change in: one by one   *)
(* from the watch, or several changes at once after a relist.               *)
(*                                                                         *)
(* Reconciler models the whole reconcile against the API server itself;     *)
(* here one target, the recorded resource version and the page ETag are     *)
(* enough.  The store may return to an earlier content.                     *)
(***************************************************************************)
EXTENDS Naturals, Sequences

CONSTANTS
  None,      \* a missing object
  Contents,  \* contents of the key-values in the store
  Initial,   \* the one in the beginning
  Edited,    \* what a user leaves in the ConfigMap
  Refresh,   \* values of spec.configuration.refresh.enabled to look at
  Typed,     \* and of whether spec.target.configMapData is JSON or YAML
  Budget     \* how often each kind of outside event may happen

Kinds == {"store", "edit", "remove", "annotation", "relist", "fault", "crash"}

ASSUME ContentsAssumption == Initial \in Contents /\ Edited \notin Contents
ASSUME RefreshAssumption == Refresh # {} /\ Refresh \subseteq BOOLEAN
ASSUME TypedAssumption == Typed # {} /\ Typed \subseteq BOOLEAN
ASSUME CacheBudgetAssumption == Budget \in [Kinds -> Nat]

VARIABLES
  refresh,     \* spec.configuration.refresh.enabled, without sentinels
  typed,       \* the ConfigMap is to hold one JSON or YAML document
  annotation,  \* version of the provider's annotations
  store,       \* content of the key-values
  server,      \* the ConfigMap in the API server
  stream,      \* its later states that the cache has not taken in yet
  cache,       \* the informer's copy
  rev,         \* resource versions handed out so far
  rs,          \* ReconciliationState: recorded version, ETag and annotations
  pc, job,     \* the running reconcile
  queue, delayed,
  left

object == <<server, stream, rev>>
vars == <<refresh, typed, annotation, store, server, stream, cache, rev, rs, pc, job,
          queue, delayed, left>>

-----------------------------------------------------------------------------
(* Data *)

\* data is the document of a typed ConfigMap, the provider's keys of another; extra
\* says that there is a key beside them.
Object == [rv : Nat, stamp : Nat, data : Contents \cup {Edited}, extra : BOOLEAN]

ASSUME NoneAssumption == None \notin Object

NewState == [cmrv |-> 0, tag |-> None, annotation |-> 0]

\* existing is what the reconcile read at its start, data what it fetched.
NewJob == [existing |-> None, annotation |-> 0, should |-> FALSE, data |-> None]

Spend(kind) == /\ left[kind] > 0
               /\ left' = [left EXCEPT ![kind] = @ - 1]

-----------------------------------------------------------------------------
(* The cache and the event handler *)

\* A change the cache takes in queues the provider unless the object is new or
\* carries another LastReconcileTime.
Enqueues(old, new) ==
  old # None /\ (new # None => new.stamp = old.stamp)

Deliver(new, rest) ==
  /\ cache' = new
  /\ stream' = rest
  /\ queue' = (queue \/ Enqueues(cache, new))

WatchEvent ==
  /\ stream # <<>>
  /\ Deliver(Head(stream), Tail(stream))
  /\ UNCHANGED <<refresh, typed, annotation, store, server, rev, rs, pc, job, delayed,
                 left>>

\* The watch broke: the cache is filled from a list, what happened in between
\* is one event.
Relist ==
  /\ stream # <<>>
  /\ Spend("relist")
  /\ Deliver(server, <<>>)
  /\ UNCHANGED <<refresh, typed, annotation, store, server, rev, rs, pc, job, delayed>>

-----------------------------------------------------------------------------
(* The reconcile *)

\* Return from Reconcile; again is Result.RequeueAfter.
Return(again) ==
  /\ pc' = "idle"
  /\ job' = NewJob
  /\ delayed' = (delayed \/ again)

ShouldReconcileDespiteEdits(r, existing) == r.cmrv = 0 \/ annotation # r.annotation

ShouldReconcile(r, existing) ==
  \/ annotation # r.annotation
  \/ r.cmrv = 0
  \/ existing # None /\ r.cmrv # existing.rv

\* The version of a ConfigMap that is not there is forgotten.
ResetVersion(r) == [r EXCEPT !.cmrv = IF cache = None THEN 0 ELSE @]

\* Reconcile reads the ConfigMap from the cache.
ReconcileStart ==
  /\ pc = "idle"
  /\ queue
  /\ queue' = FALSE
  /\ rs' = ResetVersion(rs)
  /\ job' = [NewJob EXCEPT !.existing = cache, !.annotation = annotation,
                           !.should = ShouldReconcile(rs', cache)]
  /\ pc' = "fetch"
  /\ UNCHANGED <<refresh, typed, annotation, store, object, cache, delayed, left>>

\* The settings cannot be fetched, or a write fails: retry after 30 seconds.
Fails ==
  /\ Spend("fault")
  /\ Return(TRUE)
  /\ UNCHANGED <<refresh, typed, annotation, store, object, cache, rs, queue>>

\* Full reconcile, or refresh of changed key-values, or nothing to do.
PopulateSettings ==
  /\ pc = "fetch"
  /\ \/ Fails
     \/ /\ IF job.should \/ (refresh /\ rs.tag # store)
           THEN job' = [job EXCEPT !.data = store] /\ pc' = "write"
           ELSE pc' = "finish" /\ UNCHANGED job
        /\ UNCHANGED <<refresh, typed, annotation, store, object, cache, rs, queue,
                       delayed, left>>

\* shouldCreateOrUpdateConfigMap looks at all keys of the object read at the start,
\* or only at the document.
ShouldWrite ==
  job.existing # None =>
    \/ job.existing.data # job.data
    \/ job.existing.extra /\ ~typed

\* Nothing to write: the version of the object read at the start is recorded.
SkipWrite ==
  /\ pc = "write"
  /\ ~ShouldWrite
  /\ rs' = [rs EXCEPT !.cmrv = job.existing.rv]
  /\ pc' = "finish"
  /\ UNCHANGED <<refresh, typed, annotation, store, object, cache, job, queue, delayed,
                 left>>

\* CreateOrUpdate works on the cached object of this moment: the API server
\* refuses to create an object that exists and to update one that has changed.
Refused == cache # server

CreateOrUpdateConfigMap ==
  /\ pc = "write"
  /\ ShouldWrite
  /\ \/ Fails
     \/ /\ Refused
        /\ Return(TRUE)
        /\ UNCHANGED <<refresh, typed, annotation, store, object, cache, rs, queue, left>>
     \/ /\ ~Refused
        /\ server' = [rv |-> rev + 1, stamp |-> rev + 1, data |-> job.data,
                      extra |-> FALSE]
        /\ stream' = Append(stream, server')
        /\ rev' = rev + 1
        /\ rs' = [rs EXCEPT !.cmrv = rev + 1]
        /\ pc' = "finish"
        /\ UNCHANGED <<refresh, typed, annotation, store, cache, job, queue,
                       delayed, left>>

RequeuesAfterFetch == refresh /\ job.data # None

\* At least one dynamic feature is enabled.
Requeues == refresh

Finish ==
  /\ pc = "finish"
  /\ rs' = [rs EXCEPT !.annotation = job.annotation,
                      !.tag = IF job.data # None THEN job.data ELSE @]
  /\ Return(Requeues)
  /\ UNCHANGED <<refresh, typed, annotation, store, object, cache, queue, left>>

RequeueFires ==
  /\ delayed
  /\ delayed' = FALSE
  /\ queue' = TRUE
  /\ UNCHANGED <<refresh, typed, annotation, store, object, cache, rs, pc, job, left>>

-----------------------------------------------------------------------------
(* The store, the users and the process *)

ChangeStore(content) ==
  /\ content # store
  /\ Spend("store")
  /\ store' = content
  /\ UNCHANGED <<refresh, typed, annotation, object, cache, rs, pc, job, queue, delayed>>

\* A user changes the data, or adds a key beside them.
EditConfigMap ==
  /\ server # None
  /\ Spend("edit")
  /\ \/ server' = [server EXCEPT !.rv = rev + 1, !.data = Edited]
     \/ server' = [server EXCEPT !.rv = rev + 1, !.extra = TRUE]
  /\ stream' = Append(stream, server')
  /\ rev' = rev + 1
  /\ UNCHANGED <<refresh, typed, annotation, store, cache, rs, pc, job, queue, delayed>>

DeleteConfigMap ==
  /\ server # None
  /\ Spend("remove")
  /\ server' = None
  /\ stream' = Append(stream, None)
  /\ UNCHANGED <<refresh, typed, annotation, store, cache, rev, rs, pc, job, queue,
                 delayed>>

UpdateAnnotations ==
  /\ Spend("annotation")
  /\ annotation' = annotation + 1
  /\ queue' = TRUE
  /\ UNCHANGED <<refresh, typed, store, object, cache, rs, pc, job, delayed>>

\* After a restart the cache starts from a list and the provider is queued.
Crash ==
  /\ Spend("crash")
  /\ cache' = server
  /\ stream' = <<>>
  /\ rs' = NewState
  /\ pc' = "idle"
  /\ job' = NewJob
  /\ queue' = TRUE
  /\ delayed' = FALSE
  /\ UNCHANGED <<refresh, typed, annotation, store, server, rev>>

-----------------------------------------------------------------------------
(* The specification *)

Init ==
  /\ refresh \in Refresh
  /\ typed \in Typed
  /\ annotation = 0
  /\ store = Initial
  /\ server = None
  /\ stream = <<>>
  /\ cache = None
  /\ rev = 0
  /\ rs = NewState
  /\ pc = "idle"
  /\ job = NewJob
  /\ queue = TRUE
  /\ delayed = FALSE
  /\ left = Budget

Reconcile ==
  \/ ReconcileStart
  \/ PopulateSettings
  \/ SkipWrite
  \/ CreateOrUpdateConfigMap
  \/ Finish

Outside ==
  \/ Relist
  \/ \E content \in Contents : ChangeStore(content)
  \/ EditConfigMap
  \/ DeleteConfigMap
  \/ UpdateAnnotations
  \/ Crash

Next == Reconcile \/ WatchEvent \/ RequeueFires \/ Outside

\* The worker runs, the watch delivers, delayed adds fall due.
Fairness ==
  /\ WF_vars(Reconcile)
  /\ WF_vars(WatchEvent)
  /\ WF_vars(RequeueFires)

Spec == Init /\ [][Next]_vars /\ Fairness

-----------------------------------------------------------------------------
(* Properties *)

\* The variables range over their types.
TypeOK ==
  /\ refresh \in BOOLEAN
  /\ typed \in BOOLEAN
  /\ annotation \in Nat
  /\ store \in Contents
  /\ server \in Object \cup {None}
  /\ stream \in Seq(Object \cup {None})
  /\ cache \in Object \cup {None}
  /\ rev \in Nat
  /\ rs \in [cmrv : Nat, tag : Contents \cup {None}, annotation : Nat]
  /\ pc \in {"idle", "fetch", "write", "finish"}
  /\ job \in [existing : Object \cup {None}, annotation : Nat, should : BOOLEAN,
              data : Contents \cup {None}]
  /\ queue \in BOOLEAN
  /\ delayed \in BOOLEAN
  /\ left \in [Kinds -> Nat]

AtRest == pc = "idle" /\ ~queue /\ ~delayed /\ stream = <<>>

\* The data are the provider's, and nothing is beside them that it compares.
Clean(obj) == obj.data # Edited /\ (obj.extra => typed)

\* Unless a relist merged it with a write of the controller, an edit or a
\* deletion of the data does not survive: at rest, whatever old copies the
\* reconciles read and whatever writes were refused, the ConfigMap has contents of
\* the store and, unless it is typed, nothing else.  Beside the document of a JSON
\* or YAML ConfigMap a key that a user adds does survive: the comparison does not
\* see it, and the version of the object that has it is recorded.
NothingEditedAtRest ==
  AtRest /\ left["relist"] = Budget["relist"] => server # None /\ Clean(server)

\* With refresh enabled the data of the ConfigMap end up as the store's content for
\* good, though a reconcile may compare an old copy, skip the write and record an old
\* version, and a relist may swallow the event of an edit.
CacheConverges == <>[](refresh => server # None /\ server.data = store)
=============================================================================
