--------------------------- MODULE FailoverPolicy ---------------------------
(***************************************************************************)
(* What a request to App Configuration promises its caller: it is tried    *)
(* with all the clients that are ready when it starts, each of them at     *)
(* most once and in any order, until one answers or one fails for good; a  *)
(* client that fails is no longer ready; and the request reports that all  *)
(* clients failed only when none is left untried.                          *)
(***************************************************************************)
CONSTANT Endpoints

VARIABLES untried, ready, result

vars == <<untried, ready, result>>

Init == untried = {} /\ ready \in SUBSET Endpoints /\ result = "idle"

\* A lookup at the start of a request may replace the replicas.  Perhaps nobody is
\* ready.
Start ==
  /\ result # "pending"
  /\ ready' \in SUBSET Endpoints
  /\ untried' = ready'
  /\ result' = "pending"

Answered(e) ==
  /\ result = "pending"
  /\ e \in untried
  /\ untried' = {}
  /\ result' = "ok"
  /\ UNCHANGED ready

Refused(e) ==
  /\ result = "pending"
  /\ e \in untried
  /\ untried' = {}
  /\ result' = "fatal"
  /\ ready' = ready \ {e}

FailedOver(e) ==
  /\ result = "pending"
  /\ e \in untried
  /\ untried' = untried \ {e}
  /\ ready' = ready \ {e}
  /\ UNCHANGED result

\* Nobody is left; a lookup may help the next request.
GiveUp ==
  /\ result = "pending"
  /\ untried = {}
  /\ result' = "exhausted"
  /\ ready' \in SUBSET Endpoints
  /\ UNCHANGED untried

\* Clients become ready again as time passes.
Wait ==
  /\ ready' \in {S \in SUBSET Endpoints : ready \subseteq S}
  /\ UNCHANGED <<untried, result>>

Next ==
  \/ Start
  \/ \E e \in Endpoints : Answered(e) \/ Refused(e) \/ FailedOver(e)
  \/ GiveUp
  \/ Wait

Spec == Init /\ [][Next]_vars
=============================================================================
