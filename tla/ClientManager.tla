---------------------------- MODULE ClientManager ----------------------------
(***************************************************************************)
(* The clients of one App Configuration store: the static client of the    *)
(* configured endpoint, the replicas found by SRV lookups, the back-off of  *)
(* each of them, and the failover policy that every request goes through.  *)
(*                                                                         *)
(* Clocks count down or up from the event they measure.  Only the sign of  *)
(* a negative FailedAttempts is ever looked at, and the back-off no longer  *)
(* grows after MaxFails failures in a row: both counts saturate.            *)
(***************************************************************************)
EXTENDS Integers, SequencesExt

CONSTANTS
  None,
  Primary,          \* the configured endpoint
  Replicas,         \* the endpoints SRV lookups may return
  Discovery,        \* spec.replicaDiscoveryEnabled
  LoadBalancing,    \* spec.loadBalancingEnabled
  MinBackoff, MaxBackoff,
  RefreshInterval,  \* MinimalClientRefreshInterval
  Expiry,           \* FallbackClientRefreshExpireInterval
  MaxFails,         \* saturation of FailedAttempts
  MaxFailures       \* how many calls may fail in all

Endpoints == {Primary} \cup Replicas

ASSUME EndpointsAssumption ==
  /\ IsFiniteSet(Replicas)
  /\ Primary \notin Replicas
  /\ None \notin Endpoints

ASSUME IntervalsAssumption ==
  /\ MinBackoff \in Nat \ {0}
  /\ MaxBackoff \in Nat
  /\ MinBackoff <= MaxBackoff
  /\ RefreshInterval \in Nat \ {0}
  /\ Expiry \in Nat
  /\ MaxFails \in Nat \ {0}
  /\ MinBackoff * 2^(MaxFails - 1) >= MaxBackoff
  /\ MaxFailures \in Nat

VARIABLES
  backoff,       \* time until BackOffEndTime
  fails,         \* FailedAttempts
  dynamic,       \* DynamicClientWrappers: None is nil
  sinceAttempt,  \* time since lastFallbackClientAttempt
  sinceRefresh,  \* time since lastFallbackClientRefresh
  lastOk,        \* lastSuccessfulEndpoint
  calls,         \* the clients the running request has not called yet
  result,        \* how the running or the last request stands
  failures       \* calls that failed so far

manager == <<backoff, fails, dynamic, sinceAttempt, sinceRefresh, lastOk>>
vars == <<manager, calls, result, failures>>

-----------------------------------------------------------------------------
(* Back-off *)

Smaller(a, b) == IF a < b THEN a ELSE b

\* calculateBackoffDuration: doubled with every failure up to the maximum, then
\* spread by a quarter in both directions.
BackoffDurations(attempts) ==
  IF attempts <= 1 THEN {MinBackoff}
  ELSE LET grown == MinBackoff * 2^(attempts - 1)
           d == IF grown > MaxBackoff \/ grown <= 0 THEN MaxBackoff ELSE grown
       IN  (d - d \div 4) .. (d + d \div 4)

Succeeded(e) ==
  /\ backoff' = [backoff EXCEPT ![e] = 0]
  /\ fails' = [fails EXCEPT ![e] = -1]

FailedFree(e) ==
  LET attempts == Smaller((IF fails[e] < 0 THEN 0 ELSE fails[e]) + 1, MaxFails)
  IN  /\ fails' = [fails EXCEPT ![e] = attempts]
      /\ backoff' = [backoff EXCEPT ![e] = IF attempts = 1 THEN 0 ELSE MaxBackoff]

Failed(e) ==
  LET attempts == Smaller((IF fails[e] < 0 THEN 0 ELSE fails[e]) + 1, MaxFails)
  IN  /\ fails' = [fails EXCEPT ![e] = attempts]
      /\ \E d \in BackoffDurations(attempts) : backoff' = [backoff EXCEPT ![e] = d]

-----------------------------------------------------------------------------
(* Discovery of the replicas *)

\* The replicas an SRV lookup may find, shuffled.
Found == UNION {SetToSeqs(S) : S \in SUBSET Replicas}

\* DiscoverFallbackClients: the lookup fails or times out and nothing changes,
\* or the replicas found get clients without back-off.
DiscoverFallbackClients ==
  /\ sinceAttempt' = 0
  /\ \/ UNCHANGED <<backoff, fails, dynamic, sinceRefresh>>
     \/ \E found \in Found :
          /\ dynamic' = found
          /\ sinceRefresh' = 0
          /\ backoff' = [e \in Endpoints |-> IF e = Primary THEN backoff[e] ELSE 0]
          /\ fails' = [e \in Endpoints |-> IF e = Primary THEN fails[e] ELSE 0]

\* RefreshClients: look the replicas up again when no client answered.
RefreshClients ==
  IF Discovery /\ sinceAttempt >= RefreshInterval
  THEN DiscoverFallbackClients
  ELSE UNCHANGED <<backoff, fails, dynamic, sinceAttempt, sinceRefresh>>

-----------------------------------------------------------------------------
(* Requests *)

DiscoveryDueAtOnce == Discovery /\ (dynamic = None \/ sinceRefresh >= Expiry)

DiscoveryDue ==
  /\ Discovery
  /\ sinceAttempt >= RefreshInterval
  /\ dynamic = None \/ sinceRefresh >= Expiry

\* The loop of GetClients: the first n clients without those that are not ready.
Kept(clients, ready) ==
  LET kept[n \in 0..Len(clients)] ==
        IF n = 0 THEN <<>>
        ELSE IF clients[n] \in ready THEN Append(kept[n - 1], clients[n])
        ELSE kept[n - 1]
  IN  kept

\* The static client comes first, then those of the replicas.
AllClients(replicas) ==
  <<Primary>> \o IF Discovery /\ replicas # None THEN replicas ELSE <<>>

AvailableReplicas(replicas, delay) ==
  LET clients == AllClients(replicas)
      ready == Replicas \cup {e \in Endpoints : delay[e] = 0}
  IN  Kept(clients, ready)[Len(clients)]

AvailableIfNeverFailed(replicas, delay) ==
  LET clients == AllClients(replicas)
      ready == {e \in Endpoints : delay[e] = 0 /\ fails[e] <= 0}
  IN  Kept(clients, ready)[Len(clients)]

\* GetClients: the clients that are not backing off.
Available(replicas, delay) ==
  LET clients == AllClients(replicas)
      ready == {e \in Endpoints : delay[e] = 0}
  IN  Kept(clients, ready)[Len(clients)]

RotateOverlapping(s, k) ==
  LET n == Len(s)
      r == Reverse(s)
  IN  Reverse(SubSeq(r, 1, n - k)) \o Reverse(SubSeq(r, n - k, n))

\* rotate: three reversals turn the slice to the left by k.
Rotate(s, k) ==
  LET n == Len(s)
      r == Reverse(s)
  IN  Reverse(SubSeq(r, 1, n - k)) \o Reverse(SubSeq(r, n - k + 1, n))

OrderFromLast(clients) ==
  LET position == {i \in 1..Len(clients) : clients[i] = lastOk}
      next == IF position = {} THEN Len(clients) ELSE Min(position) - 1
  IN  IF LoadBalancing /\ lastOk # None /\ Len(clients) > 1 /\ next < Len(clients)
      THEN Rotate(clients, next) ELSE clients

\* With load balancing, start after the client that answered last.
Order(clients) ==
  LET position == {i \in 1..Len(clients) : clients[i] = lastOk}
      next == IF position = {} THEN Len(clients) ELSE Min(position)
  IN  IF LoadBalancing /\ lastOk # None /\ Len(clients) > 1 /\ next < Len(clients)
      THEN Rotate(clients, next) ELSE clients

\* The head of ExecuteFailoverPolicy; there may be no client at all.
StartRequest ==
  /\ result # "pending"
  /\ IF DiscoveryDue THEN DiscoverFallbackClients
     ELSE UNCHANGED <<backoff, fails, dynamic, sinceAttempt, sinceRefresh>>
  /\ calls' = Order(Available(dynamic', backoff'))
  /\ result' = "pending"
  /\ UNCHANGED <<lastOk, failures>>

CallSucceeds ==
  /\ result = "pending"
  /\ calls # <<>>
  /\ Succeeded(Head(calls))
  /\ lastOk' = Head(calls)
  /\ calls' = <<>>
  /\ result' = "ok"
  /\ UNCHANGED <<dynamic, sinceAttempt, sinceRefresh, failures>>

\* A failed client backs off, whatever the error.  A failoverable one (a network
\* error, status 408, 429 or 5xx) leaves the rest of the clients to try.
CallFails ==
  /\ result = "pending"
  /\ calls # <<>>
  /\ failures < MaxFailures
  /\ failures' = failures + 1
  /\ Failed(Head(calls))
  /\ \/ calls' = Tail(calls) /\ UNCHANGED result
     \/ calls' = <<>> /\ result' = "fatal"
  /\ UNCHANGED <<dynamic, sinceAttempt, sinceRefresh, lastOk>>

\* All clients failed, or none was available.
AllFailed ==
  /\ result = "pending"
  /\ calls = <<>>
  /\ RefreshClients
  /\ result' = "exhausted"
  /\ UNCHANGED <<lastOk, calls, failures>>

-----------------------------------------------------------------------------
(* The specification *)

Tick ==
  /\ backoff' = [e \in Endpoints |-> IF backoff[e] > 0 THEN backoff[e] - 1 ELSE 0]
  /\ sinceAttempt' = Smaller(sinceAttempt + 1, RefreshInterval)
  /\ sinceRefresh' = Smaller(sinceRefresh + 1, Expiry)
  /\ <<backoff', sinceAttempt', sinceRefresh'>> # <<backoff, sinceAttempt, sinceRefresh>>
  /\ UNCHANGED <<fails, dynamic, lastOk, calls, result, failures>>

\* NewConfigurationClientManager; zero times are long ago.
Init ==
  /\ backoff = [e \in Endpoints |-> 0]
  /\ fails = [e \in Endpoints |-> 0]
  /\ dynamic = None
  /\ sinceAttempt = RefreshInterval
  /\ sinceRefresh = Expiry
  /\ lastOk = None
  /\ calls = <<>>
  /\ result = "idle"
  /\ failures = 0

Next ==
  \/ StartRequest
  \/ CallSucceeds
  \/ CallFails
  \/ AllFailed
  \/ Tick

Spec == Init /\ [][Next]_vars

\* Requests keep coming, every call returns, time passes.
Fairness ==
  /\ WF_vars(StartRequest)
  /\ WF_vars(CallSucceeds \/ CallFails \/ AllFailed)
  /\ WF_vars(Tick)

FairSpec == Spec /\ Fairness

-----------------------------------------------------------------------------
(* Properties *)

\* The variables range over their types.
TypeOK ==
  /\ backoff \in [Endpoints -> 0..(MaxBackoff + MaxBackoff \div 4)]
  /\ fails \in [Endpoints -> -1..MaxFails]
  /\ dynamic = None \/ dynamic \in Found
  /\ sinceAttempt \in 0..RefreshInterval
  /\ sinceRefresh \in 0..Expiry
  /\ lastOk \in Endpoints \cup {None}
  /\ calls \in Seq(Endpoints) /\ IsInjective(calls)
  /\ result \in {"idle", "pending", "ok", "fatal", "exhausted"}
  /\ failures \in 0..MaxFailures

\* The clients a request still has to call are not backing off, however long it
\* has been running and whatever the earlier ones answered.
BackoffHonoured == \A i \in 1..Len(calls) : backoff[calls[i]] = 0

\* SRV lookups are at least RefreshInterval apart, though a request may ask for
\* one at its start and one at its end, also when it finds no client to call.
LookupsSpaced ==
  [][sinceAttempt' < sinceAttempt => sinceAttempt = RefreshInterval]_vars

\* With load balancing, two requests in a row that both have a choice and both
\* succeed at once do not go to the same client.
LoadSpread ==
  [][LoadBalancing /\ result # "pending" /\ result' = "pending" /\ Len(calls') > 1
       => Head(calls') # lastOk]_vars

\* The clients that are not backing off.
Ready == {e \in {Primary} \cup IF Discovery /\ dynamic # None THEN ToSet(dynamic) ELSE {} :
            backoff[e] = 0}

\* A request tries the available clients as FailoverPolicy says: the order,
\* the rotation and the lookups lose none and repeat none, and a client that
\* failed is not available to the next request.
Policy == INSTANCE FailoverPolicy WITH untried <- ToSet(calls), ready <- Ready
ImplementsPolicy == Policy!Spec

\* However many calls failed, once calls no longer fail requests succeed again:
\* no back-off and no lost lookup leaves the manager without clients for good.
Recovers == []<>(result = "ok")
=============================================================================
