---------------------------- MODULE MCReconciler ----------------------------
(* Small instances of Reconciler for TLC. *)
EXTENDS Reconciler

CONSTANTS e1, e2, target, other, tls

NoEvents == [k \in Kinds |-> 0]

Plain == [valid |-> TRUE, endpoint |-> e1, secret |-> None, keyValue |-> "off",
          flag |-> "none", rotate |-> FALSE]

Refreshing == [Plain EXCEPT !.keyValue = "page", !.flag = "refresh"]
Static == [Plain EXCEPT !.flag = "static", !.secret = target]
Rotating == [Plain EXCEPT !.keyValue = "page", !.secret = target, !.rotate = TRUE]
Moved == [Rotating EXCEPT !.secret = other, !.endpoint = e2, !.rotate = FALSE]
Bare == [Plain EXCEPT !.keyValue = "page"]
Invalid == [Plain EXCEPT !.valid = FALSE]
Watching == [Plain EXCEPT !.keyValue = "sentinel"]

PlainSpecs == {Plain}
StaticSpecs == {Static}
RefreshSpecs == {Refreshing, Watching}
SecretSpecs == {Rotating}
SentinelSpecs == {Watching}
MovingSpecs == {Rotating, Moved, Bare, Invalid}
MixedSpecs == {Refreshing, Static}

NoRefs == {{}}
TlsRefs == {{}, {tls}}

RefreshBudget ==
  [NoEvents EXCEPT !["keyValue"] = 1, !["sentinel"] = 2, !["flag"] = 1,
                   !["edit"] = 1, !["fault"] = 1]
SecretBudget ==
  [NoEvents EXCEPT !["keyValue"] = 1, !["vault"] = 1, !["fault"] = 2,
                   !["crash"] = 1]
MovingBudget ==
  [NoEvents EXCEPT !["spec"] = 2, !["edit"] = 1, !["fault"] = 1]
OwnershipBudget ==
  [NoEvents EXCEPT !["delete"] = 1, !["create"] = 1, !["foreign"] = 1,
                   !["keyValue"] = 1, !["annotation"] = 1, !["panic"] = 1]
SentinelBudget == [NoEvents EXCEPT !["keyValue"] = 1, !["sentinel"] = 1]
StaleSecretBudget ==
  [NoEvents EXCEPT !["keyValue"] = 1, !["edit"] = 1, !["fault"] = 1]
PanicBudget == [NoEvents EXCEPT !["panic"] = 1]
=============================================================================
