-------------------------- MODULE MCRefreshSchedule --------------------------
(* Small instance of RefreshSchedule for TLC. *)
EXTENDS RefreshSchedule

Every(enabled, interval) == [enabled |-> enabled, interval |-> interval]

AllKeys == [key |-> TRUE, snapshot |-> FALSE, label |-> None, tags |-> FALSE]
NoAuth == [principal |-> FALSE, clientId |-> None, workload |-> None]

Base ==
  [endpoint |-> "https", connection |-> FALSE, auth |-> None,
   data |-> [type |-> "json", key |-> TRUE, separator |-> FALSE],
   selectors |-> <<AllKeys>>,
   flag |-> [selectors |-> <<AllKeys>>, refresh |-> Every(TRUE, 2)],
   secret |-> [auth |-> None, refresh |-> Every(TRUE, 5), data |-> None],
   refresh |-> [enabled |-> TRUE, interval |-> 1, sentinels |-> None]]

\* Intervals shortened, below the minimum, of no duration, and features off.
ScheduleSpecs ==
  {Base,
   [Base EXCEPT !.secret.refresh.interval = 3],
   [Base EXCEPT !.secret.refresh.interval = 1],
   [Base EXCEPT !.flag.refresh.interval = NotDuration],
   [Base EXCEPT !.refresh.enabled = FALSE, !.flag = None],
   [Base EXCEPT !.secret.refresh.enabled = FALSE]}

Quiet == [Base EXCEPT !.flag.refresh = None, !.secret = None, !.refresh = None]

Workloads == {None} \cup [clientId : {None, "uuid", "text"}, reference : BOOLEAN,
                          account : BOOLEAN]
Auths == {None} \cup [principal : BOOLEAN, clientId : {None, "uuid"},
                      workload : Workloads]
Labels == {None} \cup UNION {[1..n -> Characters] : n \in 0..3}

AuthSpecs ==
  {[Quiet EXCEPT !.endpoint = e, !.connection = c, !.auth = a] :
     e \in Urls, c \in BOOLEAN, a \in Auths}
SelectorSpecs ==
  {[Quiet EXCEPT !.selectors = <<AllKeys, [key |-> k, snapshot |-> s, label |-> l,
                                           tags |-> t]>>] :
     k \in BOOLEAN, s \in BOOLEAN, l \in Labels, t \in BOOLEAN}
DataSpecs ==
  {[Base EXCEPT !.data = d, !.secret = None, !.refresh = None] :
     d \in {None} \cup [type : DataTypes, key : BOOLEAN, separator : BOOLEAN]}
VaultSpecs ==
  {[Quiet EXCEPT !.secret =
      [auth |-> [default |-> d, vaults |-> <<[uri |-> u, auth |-> a]>>],
       refresh |-> None, data |-> None]] :
     d \in {None, NoAuth}, u \in Urls, a \in Auths}
SentinelSpecs ==
  {[Quiet EXCEPT !.refresh = [enabled |-> FALSE, interval |-> None,
                              sentinels |-> <<[key |-> "a", label |-> l],
                                              [key |-> "a", label |-> m]>>]] :
     l \in {None, "x"}, m \in {None, "x"}}

AllVariants ==
  AuthSpecs \cup SelectorSpecs \cup DataSpecs \cup VaultSpecs \cup SentinelSpecs

\* The environment matters to the specs with an auth object only.
Environments(s) ==
  IF s \in AuthSpecs \cup VaultSpecs
  THEN [workload : BOOLEAN, global : BOOLEAN]
  ELSE {[workload |-> TRUE, global |-> TRUE]}

ScheduleBudget == [k \in Kinds |-> 1]
=============================================================================
