------------------------------- MODULE RuleSet -------------------------------
(***************************************************************************)
(* RuleSet (guardian_diff/ruleset.py) and the rules in rules/default.yml.  *)
(* A rule has an id, the kind of change it is for, a verdict and, as its   *)
(* glob, the set of locations it is limited to, or Anywhere. The id of a   *)
(* default rule is written as its kind, of which each has one.             *)
(***************************************************************************)
EXTENDS Naturals, Sequences, SequencesExt

CONSTANT Anywhere

Rule(id, kind, verdict, glob) ==
  [id |-> id, kind |-> kind, verdict |-> verdict, glob |-> glob]

default_yml == <<
  <<"path", "added", "additive">>,
  <<"path", "removed", "breaking">>,
  <<"operation", "added", "additive">>,
  <<"operation", "removed", "breaking">>,
  <<"parameter", "added.optional", "additive">>,
  <<"parameter", "added.required", "breaking">>,
  <<"parameter", "removed", "behavioral">>,
  <<"parameter", "required.increased", "breaking">>,
  <<"parameter", "required.decreased", "additive">>,
  <<"parameter", "type_changed", "breaking">>,
  <<"request_body", "property.added.optional", "additive">>,
  <<"request_body", "property.added.required", "breaking">>,
  <<"request_body", "property.removed", "breaking">>,
  <<"request_body", "property.type_changed", "breaking">>,
  <<"request_body", "property.required.increased", "breaking">>,
  <<"request_body", "property.required.decreased", "additive">>,
  <<"response", "added", "behavioral">>,
  <<"response", "removed", "breaking">>,
  <<"response", "property.added", "additive">>,
  <<"response", "property.removed", "breaking">>,
  <<"response", "property.type_changed", "breaking">>,
  <<"enum.value", "added", "behavioral">>,
  <<"enum.value", "removed", "breaking">>,
  <<"proto.message", "added", "additive">>,
  <<"proto.message", "removed", "breaking">>,
  <<"proto.field", "added", "additive">>,
  <<"proto.field", "removed", "breaking">>,
  <<"proto.field", "number_changed", "breaking">>,
  <<"proto.field", "type_changed", "breaking">>,
  <<"proto.field", "label_changed", "breaking">>,
  <<"proto.field", "renamed", "behavioral">>,
  <<"proto.service", "added", "additive">>,
  <<"proto.service", "removed", "breaking">>,
  <<"proto.rpc", "added", "additive">>,
  <<"proto.rpc", "removed", "breaking">>,
  <<"proto.rpc", "request_type_changed", "breaking">>,
  <<"proto.rpc", "response_type_changed", "breaking">> >>

DefaultRule(row) ==
  LET kind == <<row[1], row[2]>> IN Rule(kind, kind, row[3], Anywhere)
load_default_rules == [i \in DOMAIN default_yml |-> DefaultRule(default_yml[i])]

Matches(rule, change) ==
  /\ rule.kind = change.kind
  /\ rule.glob = Anywhere \/ change.location \in rule.glob

\* The last match decides; what no rule matches is left to a human.
classify(rules, change) ==
  LET hits == {i \in DOMAIN rules : Matches(rules[i], change)}
  IN IF hits = {} THEN "behavioral" ELSE rules[Max(hits)].verdict

\* A plausible slip: the override is appended and the rule it replaces stays.
MergeAppended(rules, override) == rules \o override

\* A rule with a known id takes the place of that rule, any other comes last.
Override(merged, rule) ==
  LET same == {i \in DOMAIN merged : merged[i].id = rule.id}
  IN IF same = {} THEN Append(merged, rule) ELSE [merged EXCEPT ![Max(same)] = rule]

\* The rules of override take effect one after the other.
merge(rules, override) ==
  LET merged[k \in 0..Len(override)] ==
        IF k = 0 THEN rules ELSE Override(merged[k - 1], override[k])
  IN merged[Len(override)]
=============================================================================
