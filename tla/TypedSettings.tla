--------------------------- MODULE TypedSettings ---------------------------
(***************************************************************************)
(* The data of a ConfigMap or a Secret: one key per setting, or a single    *)
(* document.  With a separator the document of JSON or YAML is hierarchical: *)
(* the keys, split at it, and the values that are JSON themselves go into a  *)
(* tree, whose nodes become objects, arrays or values.                      *)
(*                                                                         *)
(* A setting is [key, text, json]: its key as a sequence of segments, its   *)
(* text, and what json.Unmarshal makes of it, None if the content type or    *)
(* the text is not JSON (a text with comments is parsed a second time, but   *)
(* the result is not used).  A JSON value is the function from the paths of  *)
(* its leaves to these: <<>> :> v for a scalar, the empty function for an    *)
(* empty object or array.                                                   *)
(***************************************************************************)
EXTENDS Integers, Sequences, SequencesExt, FiniteSets, FiniteSetsExt

CONSTANTS
  None,     \* a nil pointer, a missing setting or object
  Atoi(_)   \* number that a segment denotes, None if there is none

Document == <<>>  \* the key of the document; no setting has the empty key

NoData == [x \in {} |-> None]

\* Resolved secrets as the data of the target Secret.
CreateTypedSecrets(type, values) ==
  IF values = NoData \/ type = "default" THEN values ELSE Document :> values

-----------------------------------------------------------------------------
(* The tree.  Its nodes are the paths to them. *)

EmptyTree == [nodes |-> {<<>>}, value |-> NoData]

Paths(path) == {SubSeq(path, 1, n) : n \in 0..Len(path)}

Value(setting) ==
  IF setting.json # None THEN setting.json ELSE <<>> :> setting.text

Insert(tree, setting) ==
  LET leaves == {setting.key \o p : p \in DOMAIN Value(setting)}
      rest(p) == SubSeq(p, Len(setting.key) + 1, Len(p))
  IN  [nodes |-> tree.nodes \cup UNION {Paths(p) : p \in leaves \cup {setting.key}},
       value |-> [p \in leaves |-> Value(setting)[rest(p)]] @@ tree.value]

Children(tree, node) ==
  {p \in tree.nodes : Len(p) = Len(node) + 1 /\ IsPrefix(node, p)}

Index(p) == Atoi(Last(p))

IsArrayIfNumbered(tree, node) ==
  /\ node # <<>>
  /\ Children(tree, node) # {}
  /\ \A p \in Children(tree, node) : Index(p) # None

\* The children have indices below their number.  The root is an object.
IsArray(tree, node) ==
  LET size == Cardinality(Children(tree, node))
  IN  /\ node # <<>>
      /\ size > 0
      /\ \A p \in Children(tree, node) :
           Index(p) # None /\ Index(p) >= 0 /\ Index(p) < size

\* A place of the array that no child takes is a nil pointer.
UnflattenPanics(tree) ==
  \E node \in tree.nodes :
    /\ IsArray(tree, node)
    /\ {Index(p) : p \in Children(tree, node)}
         # 0..(Cardinality(Children(tree, node)) - 1)

\* Where a path of the tree is in the document.
Place(tree, path) ==
  [n \in DOMAIN path |-> IF IsArray(tree, SubSeq(path, 1, n - 1))
                         THEN Atoi(path[n]) ELSE path[n]]

\* The places of the document that are no objects or arrays, with their values.
\* A node with children loses its value, one without either is null.
Unflatten(tree) ==
  LET leaves == {p \in tree.nodes \ {<<>>} : Children(tree, p) = {}}
  IN  {<<Place(tree, p), IF p \in DOMAIN tree.value THEN tree.value[p] ELSE None>> :
         p \in leaves}

-----------------------------------------------------------------------------
(* What a hierarchical document should be *)

\* The tree after the settings, in the order of a sequence.
Built(settings) == FoldLeft(Insert, EmptyTree, settings)

\* Every value with its full path; an empty object or array is null.
Given(setting) ==
  IF Value(setting) = NoData THEN {<<setting.key, None>>}
  ELSE {<<setting.key \o p, Value(setting)[p]>> : p \in DOMAIN Value(setting)}

\* A value stands where another one, or a part of it, should be.
Overlap(settings) ==
  \E i, j \in DOMAIN settings :
    i # j /\ \E x \in Given(settings[i]), y \in Given(settings[j]) : IsPrefix(x[1], y[1])

\* Segments under the same parent that denote the same number, "1" and "01".
Twins(nodes) ==
  \E p, q \in nodes \ {<<>>} :
    p # q /\ Front(p) = Front(q) /\ Index(p) # None /\ Index(p) = Index(q)

\* Siblings numbered from 0 without a gap are an array, others an object.
ReferencePlace(nodes, path) ==
  LET siblings(n) == {p \in nodes : Len(p) = n /\ IsPrefix(SubSeq(path, 1, n - 1), p)}
      numbers(n) == {Index(p) : p \in siblings(n)}
  IN  [n \in DOMAIN path |->
         IF n > 1 /\ numbers(n) = 0..(Cardinality(siblings(n)) - 1)
         THEN Atoi(path[n]) ELSE path[n]]

\* A hierarchical document (Tree.insert, Tree.unflatten) has every value of every
\* setting at its place and nothing else, in whatever order the settings are
\* iterated over and whatever numbers the segments are, unless a setting stands
\* where another one should be.  Only twins make it panic.
FaithfulDocument(settings) ==
  LET given == UNION {Given(settings[i]) : i \in DOMAIN settings}
      nodes == UNION {Paths(x[1]) : x \in given}
  IN  ~Twins(nodes) =>
        /\ ~UnflattenPanics(Built(settings))
        /\ ~Overlap(settings) =>
              Unflatten(Built(settings)) = {<<ReferencePlace(nodes, x[1]), x[2]>> : x \in given}
=============================================================================
