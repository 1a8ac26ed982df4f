--------------------------- MODULE MCSettingLoader ---------------------------
(* Small instances of SettingLoader for TLC. *)
EXTENDS SettingLoader

Entry(key, label, flag) ==
  [key |-> key, label |-> label, tags |-> IF label = NoLabel THEN {} ELSE {"t"},
   flag |-> flag]

\* The prefix "p" is trimmed, so that the first two entries have the same key.
SomeEntries ==
  << Entry(<<"a">>, NoLabel, FALSE), Entry(<<"p", "a">>, NoLabel, FALSE),
     Entry(<<"a">>, "prod", FALSE), Entry(<<"f">>, NoLabel, TRUE),
     Entry(<<"f">>, "prod", TRUE), Entry(<<"g">>, NoLabel, TRUE),
     Entry(<<"z">>, NoLabel, FALSE) >>

Plain(v) == [kind |-> "plain", value |-> v]
Flag(v) == [kind |-> "flag", value |-> v]
Reference(kind, version) == [kind |-> kind, value |-> [secret |-> "s", version |-> version]]
Snapshot(name) == [kind |-> "snapshot", value |-> name]

SomeSettings(i) ==
  CASE i = 1 -> {Plain("v1")}
    [] i = 2 -> {Reference("ref", None)}
    [] i = 3 -> {Plain("v3")}
    [] i \in 4..6 -> {Flag(i)}
    [] i = 7 -> {Reference("ref", 1), Reference("tls", None), Snapshot("snap")}

SomeSnapshots ==
  "snap" :> << [entry |-> 1, setting |-> Plain("old")],
               [entry |-> 7, setting |-> Snapshot("snap")] >>

Filter(keys, label, tags) ==
  [keys |-> keys, label |-> label, tags |-> tags, snapshot |-> None]
SnapshotFilter(name) ==
  [keys |-> None, label |-> None, tags |-> <<>>, snapshot |-> name]

AllKeys == {SomeEntries[i].key : i \in DOMAIN SomeEntries}

\* The last filter equals the first one.
SomeSelections(f) ==
  { <<Filter(AllKeys, None, <<>>), Filter(AllKeys, "prod", <<"t", "t">>),
      Filter(AllKeys, NoLabel, <<>>)>> }
  \cup IF f = "flag" THEN {}
       ELSE { <<>>, <<SnapshotFilter("snap"), Filter({<<"z">>}, None, <<>>)>>,
              <<SnapshotFilter("none")>> }

Initially(p) ==
  [i \in DOMAIN SomeEntries |->
     IF i \in p THEN CHOOSE s \in SomeSettings(i) : TRUE ELSE None]
SomeContents == {Initially({1, 6, 7})}

TrimP == << <<"p">> >>
TwoClients == <<"primary", "replica">>

\* Settings to build documents of.
Text(key) == [key |-> key, text |-> "text", json |-> None]
Json(key, json) == [key |-> key, text |-> "text", json |-> json]
DocumentSettings ==
  {Text(k) : k \in { <<"l">>, <<"l", "0">>, <<"l", "1">>, <<"l", "01">>, <<"l", "a">>,
                     <<"0">>, <<"1">>, <<"l", "0", "0">> }}
  \cup {Json(<<"l">>, <<"0">> :> "x"), Json(<<"l">>, NoData), Json(<<"l", "0">>, <<>> :> "x"),
        Json(<<"l", "1">>, <<"0">> :> "x" @@ <<"1">> :> "y")}
DocumentInputs ==
  {s \in UNION {[1..n -> DocumentSettings] : n \in 1..3} :
     \A i, j \in DOMAIN s : s[i].key = s[j].key => i = j}
SomeAtoi(s) == CASE s = "0" -> 0 [] s \in {"1", "01"} -> 1 [] OTHER -> None

AllFaithful == \A settings \in DocumentInputs : FaithfulDocument(settings)

\* createTypedSettings, called when settings are published, makes a faithful document
\* of all these inputs, in every order (FaithfulDocument).
DocumentsFaithful == pc = "publish" => AllFaithful

LoaderBudget == [k \in Kinds |-> IF k = "store" THEN 2 ELSE 1]
=============================================================================
