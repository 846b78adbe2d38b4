--------------------------- MODULE SpecDiffProofs ---------------------------
(***************************************************************************)
(* What holds of every report of POST /diff and of the command, whatever   *)
(* the contracts, the custom rules and the calls that were mined.          *)
(***************************************************************************)
EXTENDS SpecDiff, FiniteSetTheorems, WellFoundedInduction, TLAPS

-----------------------------------------------------------------------------
(* The walker of protobuf contracts.                                       *)

\* A message without changes is the same message. The step that needs the
\* names to be unique is a field that is gone: if its name is found again, it
\* is at a number that both versions use, and there it had to be renamed.
LEMMA SilentMessage ==
  ASSUME NEW name, NEW before, NEW after, IsMessage(before), IsMessage(after),
         DiffMessage(name, before, after) = {}
  PROVE  before = after
<1> DEFINE new == DOMAIN after \ DOMAIN before
           gone == DOMAIN before \ DOMAIN after
           kept == DOMAIN before \cap DOMAIN after
           moved == {n \in new : Named(before, after[n].name)}
<1>1. new = {}
  <2>1. {FieldChange("number_changed", name, after[n]) : n \in moved} = {}
    BY DEF DiffMessage
  <2>2. {FieldChange("added", name, after[n]) : n \in new \ moved} = {}
    BY DEF DiffMessage
  <2> QED BY <2>1, <2>2
<1>2. \A n \in kept : before[n].name = after[n].name
  <2>1. {FieldChange("renamed", name, before[n]) :
           n \in {k \in kept : before[k].name # after[k].name}} = {}
    BY DEF DiffMessage
  <2> QED BY <2>1
<1>3. \A n \in kept : before[n].type = after[n].type
  <2>1. {FieldChange("type_changed", name, before[n]) :
           n \in {k \in kept : before[k].type # after[k].type}} = {}
    BY DEF DiffMessage
  <2> QED BY <2>1
<1>4. \A n \in kept : before[n].label = after[n].label
  <2>1. {FieldChange("label_changed", name, before[n]) :
           n \in {k \in kept : before[k].label # after[k].label}} = {}
    BY DEF DiffMessage
  <2> QED BY <2>1
<1>5. gone = {}
  <2>1. \A g \in gone : Named(after, before[g].name)
    <3>1. {FieldChange("removed", name, before[n]) :
             n \in {g \in gone : ~Named(after, before[g].name)}} = {}
      BY DEF DiffMessage
    <3> QED BY <3>1
  <2>2. SUFFICES ASSUME NEW g \in gone PROVE FALSE
    OBVIOUS
  <2>3. PICK m \in DOMAIN after : after[m].name = before[g].name
    BY <2>1 DEF Named
  <2>4. m \in kept
    BY <1>1
  <2>5. before[m].name = before[g].name
    BY <1>2, <2>3, <2>4
  <2>6. m = g
    BY <2>4, <2>5 DEF IsMessage
  <2> QED BY <2>4, <2>6
<1>6. DOMAIN before = DOMAIN after
  BY <1>1, <1>5
<1>7. \A n \in DOMAIN before : before[n] = after[n]
  BY <1>2, <1>3, <1>4, <1>6 DEF IsMessage
<1> QED BY <1>6, <1>7 DEF IsMessage

\* The same for a service, method by method.
LEMMA SilentService ==
  ASSUME NEW name, NEW before, NEW after, IsService(before), IsService(after),
         DiffService(name, before, after) = {}
  PROVE  before = after
<1> DEFINE kept == DOMAIN before \cap DOMAIN after
<1>1. DOMAIN before = DOMAIN after
  <2>1. {RpcChange("added", name, m) : m \in DOMAIN after \ DOMAIN before} = {}
    BY DEF DiffService
  <2>2. {RpcChange("removed", name, m) : m \in DOMAIN before \ DOMAIN after} = {}
    BY DEF DiffService
  <2> QED BY <2>1, <2>2
<1>2. \A m \in kept : before[m].input_type = after[m].input_type
  <2>1. {RpcChange("request_type_changed", name, m) :
           m \in {k \in kept : before[k].input_type # after[k].input_type}} = {}
    BY DEF DiffService
  <2> QED BY <2>1
<1>3. \A m \in kept : before[m].output_type = after[m].output_type
  <2>1. {RpcChange("response_type_changed", name, m) :
           m \in {k \in kept : before[k].output_type # after[k].output_type}} = {}
    BY DEF DiffService
  <2> QED BY <2>1
<1>4. \A m \in DOMAIN before : before[m] = after[m]
  BY <1>1, <1>2, <1>3 DEF IsService
<1> QED BY <1>1, <1>4 DEF IsService

\* No names came or went if no change says so.
LEMMA SilentSurface ==
  ASSUME NEW part, NEW root, NEW before, NEW after,
         Surface(part, root, before, after) = {}
  PROVE  DOMAIN before = DOMAIN after
<1>1. {Change(part, "added", <<root, n>>, NoValue, {}) :
         n \in DOMAIN after \ DOMAIN before} = {}
  BY DEF Surface
<1>2. {Change(part, "removed", <<root, n>>, NoValue, {}) :
         n \in DOMAIN before \ DOMAIN after} = {}
  BY DEF Surface
<1> QED BY <1>1, <1>2

\* And for the whole contract.
LEMMA SilentContract ==
  ASSUME NEW before, NEW after, IsProtoContract(before), IsProtoContract(after),
         DiffProto(before, after) = {}
  PROVE  before = after
<1>1. DOMAIN before.messages = DOMAIN after.messages
  <2>1. Surface("proto.message", "messages", before.messages, after.messages) = {}
    BY DEF DiffProto
  <2> QED BY <2>1, SilentSurface
<1>2. DOMAIN before.services = DOMAIN after.services
  <2>1. Surface("proto.service", "services", before.services, after.services) = {}
    BY DEF DiffProto
  <2> QED BY <2>1, SilentSurface
<1>3. ASSUME NEW n \in DOMAIN before.messages
      PROVE  before.messages[n] = after.messages[n]
  <2>1. DiffMessage(n, before.messages[n], after.messages[n]) = {}
    BY <1>1 DEF DiffProto
  <2>2. IsMessage(before.messages[n]) /\ IsMessage(after.messages[n])
    BY <1>1 DEF IsProtoContract
  <2> QED BY <2>1, <2>2, SilentMessage
<1>4. ASSUME NEW n \in DOMAIN before.services
      PROVE  before.services[n] = after.services[n]
  <2>1. DiffService(n, before.services[n], after.services[n]) = {}
    BY <1>2 DEF DiffProto
  <2>2. IsService(before.services[n]) /\ IsService(after.services[n])
    BY <1>2 DEF IsProtoContract
  <2> QED BY <2>1, <2>2, SilentService
<1>5. before.messages = after.messages
  BY <1>1, <1>3 DEF IsProtoContract
<1>6. before.services = after.services
  BY <1>2, <1>4 DEF IsProtoContract
<1> QED BY <1>5, <1>6 DEF IsProtoContract

\* The kinds of change that proto.py:5-11 calls breaking.
WireBreaks == {"removed", "number_changed", "type_changed", "label_changed"}

\* Of any two messages, either what was encoded under the one decodes alike
\* under the other, or _diff_message reports a break of the wire format, or a
\* field moved onto a number that another field had: the one thing it misses.
THEOREM WireBreaksAreReported ==
  ASSUME NEW name, NEW before, NEW after, IsMessage(before), IsMessage(after)
  PROVE  \/ DecodesAlike(before, after)
         \/ \E c \in DiffMessage(name, before, after) : c.kind[2] \in WireBreaks
         \/ MovesOntoUsedNumber(before, after)
<1> DEFINE new == DOMAIN after \ DOMAIN before
           gone == DOMAIN before \ DOMAIN after
           kept == DOMAIN before \cap DOMAIN after
<1>1. SUFFICES ASSUME NEW n \in DOMAIN before,
                      ~ /\ n \in DOMAIN after
                        /\ after[n].type = before[n].type
                        /\ after[n].label = before[n].label
               PROVE  \/ \E c \in DiffMessage(name, before, after) :
                           c.kind[2] \in WireBreaks
                      \/ MovesOntoUsedNumber(before, after)
  BY DEF DecodesAlike
<1>2. \A event, field : event \in WireBreaks =>
        FieldChange(event, name, field).kind[2] \in WireBreaks
  BY DEF FieldChange, Change
<1>3. CASE n \in kept /\ before[n].type # after[n].type
  <2>1. FieldChange("type_changed", name, before[n]) \in DiffMessage(name, before, after)
    BY <1>3 DEF DiffMessage
  <2> QED BY <1>2, <2>1 DEF WireBreaks
<1>4. CASE n \in kept /\ before[n].label # after[n].label
  <2>1. FieldChange("label_changed", name, before[n]) \in DiffMessage(name, before, after)
    BY <1>4 DEF DiffMessage
  <2> QED BY <1>2, <2>1 DEF WireBreaks
<1>5. CASE n \in gone /\ ~Named(after, before[n].name)
  <2>1. FieldChange("removed", name, before[n]) \in DiffMessage(name, before, after)
    BY <1>5 DEF DiffMessage
  <2> QED BY <1>2, <2>1 DEF WireBreaks
<1>6. CASE n \in gone /\ Named(after, before[n].name)
  <2>1. PICK m \in DOMAIN after : after[m].name = before[n].name
    BY <1>6 DEF Named
  <2>2. CASE m \in kept
    BY <1>6, <2>1, <2>2 DEF MovesOntoUsedNumber
  <2>3. CASE m \in new
    <3>1. Named(before, after[m].name)
      BY <2>1 DEF Named
    <3>2. FieldChange("number_changed", name, after[m])
            \in DiffMessage(name, before, after)
      BY <2>3, <3>1 DEF DiffMessage
    <3> QED BY <1>2, <3>2 DEF WireBreaks
  <2> QED BY <2>1, <2>2, <2>3
<1> QED BY <1>1, <1>3, <1>4, <1>5, <1>6

-----------------------------------------------------------------------------
(* The default rules.                                                      *)

\* Of each kind of change the table has at most one row.
LEMMA DefaultTable ==
  /\ DOMAIN default_yml = 1..37
  /\ \A i, j \in 1..37 :
       default_yml[i][1] = default_yml[j][1] /\ default_yml[i][2] = default_yml[j][2]
         => i = j
  BY DEF default_yml

\* What load_default_rules makes of the table.
LEMMA DefaultRules ==
  /\ load_default_rules \in Seq(Range(load_default_rules))
  /\ DOMAIN load_default_rules = 1..37
  /\ Len(load_default_rules) = 37
  /\ \A i \in 1..37 : /\ load_default_rules[i].id = <<default_yml[i][1], default_yml[i][2]>>
                      /\ load_default_rules[i].kind = load_default_rules[i].id
                      /\ load_default_rules[i].verdict = default_yml[i][3]
                      /\ load_default_rules[i].glob = Anywhere
<1>1. DOMAIN load_default_rules = 1..37
  BY DefaultTable DEF load_default_rules
<1>2. load_default_rules = [i \in 1..37 |-> load_default_rules[i]]
  BY DefaultTable DEF load_default_rules
<1>3. load_default_rules \in Seq(Range(load_default_rules))
  BY <1>1, <1>2 DEF Range
<1>4. Len(load_default_rules) = 37
  BY <1>1, <1>3
<1>5. ASSUME NEW i \in 1..37
      PROVE  /\ load_default_rules[i].id = <<default_yml[i][1], default_yml[i][2]>>
             /\ load_default_rules[i].kind = load_default_rules[i].id
             /\ load_default_rules[i].verdict = default_yml[i][3]
             /\ load_default_rules[i].glob = Anywhere
  BY DefaultTable DEF load_default_rules, DefaultRule, Rule
<1> QED BY <1>1, <1>3, <1>4, <1>5

\* No two default rules share an id.
LEMMA DefaultIdsAreUnique ==
  \A i, j \in DOMAIN load_default_rules :
    load_default_rules[i].id = load_default_rules[j].id => i = j
<1>1. ASSUME NEW i \in 1..37, NEW j \in 1..37,
             load_default_rules[i].id = load_default_rules[j].id
      PROVE  i = j
  <2>1. <<default_yml[i][1], default_yml[i][2]>> = <<default_yml[j][1], default_yml[j][2]>>
    BY <1>1, DefaultRules
  <2>2. default_yml[i][1] = default_yml[j][1] /\ default_yml[i][2] = default_yml[j][2]
    BY <2>1
  <2> QED BY <2>2, DefaultTable
<1> QED BY <1>1, DefaultRules

\* One rule matches a change, and it decides.
LEMMA DefaultVerdict ==
  ASSUME NEW change, NEW i \in 1..37,
         change.kind = load_default_rules[i].kind
  PROVE  classify(load_default_rules, change) = load_default_rules[i].verdict
<1>1. {k \in DOMAIN load_default_rules : Matches(load_default_rules[k], change)} = {i}
  <2>1. Matches(load_default_rules[i], change)
    BY DefaultRules DEF Matches
  <2>2. ASSUME NEW k \in 1..37, Matches(load_default_rules[k], change) PROVE k = i
    <3>1. load_default_rules[k].id = load_default_rules[i].id
      BY <2>2, DefaultRules DEF Matches
    <3> QED BY <3>1, DefaultIdsAreUnique, DefaultRules
  <2> QED BY <2>1, <2>2, DefaultRules
<1>2. Max({i}) = i
  BY DEF Max
<1> QED BY <1>1, <1>2, DefaultRules DEF classify

\* The kinds of change that default.yml calls breaking.
BreakingKinds == {
  <<"path", "removed">>, <<"operation", "removed">>,
  <<"parameter", "added.required">>, <<"parameter", "required.increased">>,
  <<"parameter", "type_changed">>, <<"request_body", "property.added.required">>,
  <<"request_body", "property.removed">>, <<"request_body", "property.type_changed">>,
  <<"request_body", "property.required.increased">>, <<"response", "removed">>,
  <<"response", "property.removed">>, <<"response", "property.type_changed">>,
  <<"enum.value", "removed">>, <<"proto.message", "removed">>,
  <<"proto.field", "removed">>, <<"proto.field", "number_changed">>,
  <<"proto.field", "type_changed">>, <<"proto.field", "label_changed">>,
  <<"proto.service", "removed">>, <<"proto.rpc", "removed">>,
  <<"proto.rpc", "request_type_changed">>, <<"proto.rpc", "response_type_changed">>}

\* The default rules do call them so.
LEMMA BreakingIsClassified ==
  \A change :
    change.kind \in BreakingKinds => classify(load_default_rules, change) = "breaking"
<1>1. \A kind \in BreakingKinds : \E i \in 1..37 :
        default_yml[i] = <<kind[1], kind[2], "breaking">>
  BY DEF BreakingKinds, default_yml
<1>2. \A kind \in BreakingKinds : kind = <<kind[1], kind[2]>>
  BY DEF BreakingKinds
<1>3. ASSUME NEW change, change.kind \in BreakingKinds
      PROVE  classify(load_default_rules, change) = "breaking"
  <2>1. PICK i \in 1..37 :
          default_yml[i] = <<change.kind[1], change.kind[2], "breaking">>
    BY <1>1, <1>3
  <2>2. change.kind = <<default_yml[i][1], default_yml[i][2]>>
    BY <1>2, <1>3, <2>1
  <2>3. /\ change.kind = load_default_rules[i].kind
        /\ load_default_rules[i].verdict = "breaking"
    <3>1. change.kind = load_default_rules[i].kind
      BY <2>2, DefaultRules
    <3>2. load_default_rules[i].verdict = default_yml[i][3]
      BY DefaultRules
    <3>3. default_yml[i][3] = "breaking"
      BY <2>1
    <3> QED BY <3>1, <3>2, <3>3
  <2> QED BY <2>3, DefaultVerdict
<1> QED BY <1>3

-----------------------------------------------------------------------------
(* Custom rules.                                                           *)

\* Induction on the natural numbers, for a set instead of a predicate.
LEMMA Induction ==
  ASSUME NEW T, 0 \in T, \A n \in Nat : n \in T => n + 1 \in T
  PROVE  Nat \subseteq T
<1> SUFFICES ASSUME Nat \ T # {} PROVE FALSE
  OBVIOUS
<1>1. PICK n \in Nat \ T : \A k \in Nat \ T : ~(<<k, n>> \in OpToRel(<, Nat))
  BY WFMin, NatLessThanWellFounded
<1>2. n # 0 /\ n - 1 \in Nat
  OBVIOUS
<1>3. <<n - 1, n>> \in OpToRel(<, Nat)
  BY <1>2 DEF OpToRel
<1>4. n - 1 \in T
  BY <1>1, <1>2, <1>3
<1>5. (n - 1) + 1 = n
  BY <1>2
<1> QED BY <1>2, <1>4, <1>5

\* A set of places in a list has a last one.
LEMMA MaxOfFew ==
  ASSUME NEW n \in Nat, NEW S, S \subseteq 1..n, S # {}
  PROVE  Max(S) \in S /\ \A y \in S : y <= Max(S)
<1> DEFINE T == {m \in Nat : \A R : R \subseteq 1..m /\ R # {} =>
                               \E x \in R : \A y \in R : x >= y}
<1>1. 0 \in T
  OBVIOUS
<1>2. ASSUME NEW m \in Nat, m \in T PROVE m + 1 \in T
  <2> SUFFICES ASSUME NEW R, R \subseteq 1..(m + 1), R # {}
               PROVE  \E x \in R : \A y \in R : x >= y
    OBVIOUS
  <2>1. CASE m + 1 \in R
    BY <2>1
  <2>2. CASE m + 1 \notin R
    <3>1. R \subseteq 1..m
      BY <2>2
    <3> QED BY <1>2, <3>1
  <2> QED BY <2>1, <2>2
<1> HIDE DEF T
<1>3. n \in T
  BY <1>1, <1>2, Induction
<1>4. \E x \in S : \A y \in S : x >= y
  BY <1>3 DEF T
<1>5. Max(S) \in S /\ \A y \in S : Max(S) >= y
  BY <1>4 DEF Max
<1> QED BY <1>5

\* Of a single place that place is the last.
LEMMA MaxOfOne == \A n \in Int : Max({n}) = n
  BY DEF Max

\* The recursive function of merge: the list after each of the overrides.
Merging(rules, override, n, g) ==
  g = [k \in 0..n |-> IF k = 0 THEN rules ELSE Override(g[k - 1], override[k])]

\* There is one, of any length.
LEMMA MergingExists ==
  ASSUME NEW rules, NEW override, NEW n \in Nat
  PROVE  \E g : Merging(rules, override, n, g)
<1> DEFINE T == {m \in Nat : \E g : Merging(rules, override, m, g)}
<1>1. 0 \in T
  <2>1. Merging(rules, override, 0, [k \in 0..0 |-> rules])
    BY DEF Merging
  <2> QED BY <2>1
<1>2. ASSUME NEW m \in Nat, m \in T PROVE m + 1 \in T
  <2>1. PICK g : Merging(rules, override, m, g)
    BY <1>2
  <2> DEFINE h == [k \in 0..(m + 1) |-> IF k = m + 1 THEN Override(g[m], override[m + 1])
                                        ELSE g[k]]
  <2>2. \A k \in 0..m : g[k] = IF k = 0 THEN rules ELSE Override(g[k - 1], override[k])
    BY <2>1 DEF Merging
  <2>3. ASSUME NEW k \in 0..(m + 1)
        PROVE  h[k] = IF k = 0 THEN rules ELSE Override(h[k - 1], override[k])
    <3>1. CASE k = m + 1
      <4>1. h[k - 1] = g[m]
        BY <3>1
      <4> QED BY <3>1, <4>1
    <3>2. CASE k \in 0..m
      <4>1. k # 0 => h[k - 1] = g[k - 1]
        BY <3>2
      <4>2. h[k] = g[k]
        BY <3>2
      <4> QED BY <2>2, <3>2, <4>1, <4>2
    <3> QED BY <3>1, <3>2
  <2> HIDE DEF h
  <2>4. h = [k \in 0..(m + 1) |-> IF k = 0 THEN rules ELSE Override(h[k - 1], override[k])]
    <3>1. h = [k \in 0..(m + 1) |-> h[k]]
      BY DEF h
    <3> QED BY <2>3, <3>1
  <2> QED BY <2>4 DEF Merging
<1> HIDE DEF T
<1>3. n \in T
  BY <1>1, <1>2, Induction
<1> QED BY <1>3 DEF T

\* Its last value is what merge returns.
LEMMA MergingMerges ==
  ASSUME NEW rules, NEW override, Len(override) \in Nat
  PROVE  \E g : Merging(rules, override, Len(override), g)
                  /\ merge(rules, override) = g[Len(override)]
<1> DEFINE g == CHOOSE g : Merging(rules, override, Len(override), g)
<1>1. Merging(rules, override, Len(override), g)
  BY MergingExists
<1>2. merge(rules, override) = g[Len(override)]
  BY DEF merge, Merging
<1> QED BY <1>1, <1>2

\* Without custom rules the default ones stay as they are.
LEMMA MergeNothing == \A rules : merge(rules, <<>>) = rules
<1> TAKE rules
<1>1. Len(<<>>) = 0
  OBVIOUS
<1>2. PICK g : Merging(rules, <<>>, 0, g) /\ merge(rules, <<>>) = g[0]
  BY <1>1, MergingMerges
<1> QED BY <1>2 DEF Merging

RulesOf(custom) == Range(load_default_rules) \cup Range(custom)

\* What has become of the default rules after the first k custom rules: ids are
\* unique, the default ones keep their places, and each rule is a default rule
\* whose id nobody took, or the last custom rule so far with its id.
UniqueIds(rules) == \A i, j \in DOMAIN rules : rules[i].id = rules[j].id => i = j
DefaultsFirst(merged) ==
  /\ Len(merged) >= 37
  /\ \A i \in 1..37 : merged[i].id = load_default_rules[i].id
StillDefault(merged, custom, k, i) ==
  /\ i \in 1..37
  /\ merged[i] = load_default_rules[i]
  /\ \A j \in 1..k : custom[j].id # merged[i].id
LastOfItsId(merged, custom, k, i) ==
  \E j \in 1..k : /\ merged[i] = custom[j]
                  /\ \A l \in 1..k : l > j => custom[l].id # custom[j].id
MergedInv(merged, custom, k) ==
  /\ merged \in Seq(RulesOf(custom))
  /\ UniqueIds(merged)
  /\ DefaultsFirst(merged)
  /\ \A i \in DOMAIN merged :
       StillDefault(merged, custom, k, i) \/ LastOfItsId(merged, custom, k, i)
  /\ \A j \in 1..k : \E i \in DOMAIN merged : merged[i].id = custom[j].id

\* One more override keeps all of this, whether it is appended or takes a place.
LEMMA OverrideKeepsInv ==
  ASSUME NEW custom, custom \in Seq(Range(custom)), NEW k \in Nat, k + 1 <= Len(custom),
         NEW merged, MergedInv(merged, custom, k)
  PROVE  MergedInv(Override(merged, custom[k + 1]), custom, k + 1)
<1> DEFINE rule == custom[k + 1]
           same == {i \in DOMAIN merged : merged[i].id = rule.id}
           next == Override(merged, rule)
<1>1. rule \in RulesOf(custom)
  BY DEF RulesOf, Range
<1>2. merged \in Seq(RulesOf(custom))
  BY DEF MergedInv
<1>3. UniqueIds(merged) /\ DefaultsFirst(merged)
  BY DEF MergedInv
<1>4. \A i \in DOMAIN merged :
        StillDefault(merged, custom, k, i) \/ LastOfItsId(merged, custom, k, i)
  BY DEF MergedInv
<1>5. \A j \in 1..k : \E i \in DOMAIN merged : merged[i].id = custom[j].id
  BY DEF MergedInv
<1>6. 1..37 \subseteq DOMAIN merged
  <2>1. DOMAIN merged = 1..Len(merged) /\ Len(merged) \in Nat
    BY <1>2
  <2>2. Len(merged) >= 37
    BY <1>3 DEF DefaultsFirst
  <2> QED BY <2>1, <2>2
<1>7. ASSUME NEW i \in DOMAIN merged, next[i] = merged[i], merged[i].id # rule.id
      PROVE  StillDefault(next, custom, k + 1, i) \/ LastOfItsId(next, custom, k + 1, i)
  <2> HIDE DEF next
  <2>1. CASE StillDefault(merged, custom, k, i)
    <3>1. \A j \in 1..(k + 1) : custom[j].id # merged[i].id
      BY <1>7, <2>1 DEF StillDefault
    <3>2. StillDefault(next, custom, k + 1, i)
      BY <1>7, <2>1, <3>1 DEF StillDefault
    <3> QED BY <3>2
  <2>2. CASE LastOfItsId(merged, custom, k, i)
    <3>1. PICK j \in 1..k : /\ merged[i] = custom[j]
                            /\ \A l \in 1..k : l > j => custom[l].id # custom[j].id
      BY <2>2 DEF LastOfItsId
    <3>2. \A l \in 1..(k + 1) : l > j => custom[l].id # custom[j].id
      BY <1>7, <3>1
    <3>3. j \in 1..(k + 1) /\ next[i] = custom[j]
      BY <1>7, <3>1
    <3>4. LastOfItsId(next, custom, k + 1, i)
      BY <3>2, <3>3 DEF LastOfItsId
    <3> QED BY <3>4
  <2> QED BY <1>4, <2>1, <2>2
<1>8. ASSUME NEW i, next[i] = rule PROVE LastOfItsId(next, custom, k + 1, i)
  <2> HIDE DEF next
  <2>1. k + 1 \in 1..(k + 1) /\ \A l \in 1..(k + 1) : ~(l > k + 1)
    OBVIOUS
  <2> QED BY <1>8, <2>1 DEF LastOfItsId
<1>9. CASE same = {}
  <2>1. next = Append(merged, rule)
    BY <1>9 DEF Override
  <2>2. next \in Seq(RulesOf(custom))
    BY <1>1, <1>2, <2>1
  <2>3. /\ DOMAIN merged = 1..Len(merged) /\ Len(merged) \in Nat
        /\ DOMAIN next = 1..(Len(merged) + 1) /\ Len(next) = Len(merged) + 1
        /\ next[Len(merged) + 1] = rule
        /\ \A i \in DOMAIN merged : next[i] = merged[i]
    BY <1>1, <1>2, <2>1
  <2>4. \A i \in DOMAIN merged : merged[i].id # rule.id
    BY <1>9
  <2>5. DOMAIN next = DOMAIN merged \cup {Len(merged) + 1}
    BY <2>3
  <2> HIDE DEF next, rule
  <2>6. UniqueIds(next)
    BY <1>3, <2>3, <2>4, <2>5 DEF UniqueIds
  <2>7. DefaultsFirst(next)
    <3>1. Len(next) >= 37
      BY <1>3, <2>3 DEF DefaultsFirst
    <3> QED BY <1>3, <1>6, <2>3, <3>1 DEF DefaultsFirst
  <2>8. \A i \in DOMAIN next :
          StillDefault(next, custom, k + 1, i) \/ LastOfItsId(next, custom, k + 1, i)
    BY <1>7, <1>8, <2>3, <2>4, <2>5
  <2>9. ASSUME NEW j \in 1..(k + 1) PROVE \E i \in DOMAIN next : next[i].id = custom[j].id
    <3>1. CASE j = k + 1
      BY <2>3, <2>5, <3>1 DEF rule
    <3>2. CASE j \in 1..k
      <4>1. PICK i \in DOMAIN merged : merged[i].id = custom[j].id
        BY <1>5, <3>2
      <4> QED BY <2>3, <2>5, <4>1
    <3> QED BY <3>1, <3>2
  <2>10. MergedInv(next, custom, k + 1)
    BY <2>2, <2>6, <2>7, <2>8, <2>9 DEF MergedInv
  <2> QED BY <2>10 DEF next, rule
<1>10. CASE same # {}
  <2>1. PICK p \in DOMAIN merged : merged[p].id = rule.id
    BY <1>10
  <2>2. same = {p}
    BY <1>3, <2>1 DEF UniqueIds
  <2>3. Max(same) = p
    <3>1. p \in Int
      BY <1>2, <2>1
    <3> QED BY <2>2, <3>1, MaxOfOne
  <2>4. next = [merged EXCEPT ![p] = rule]
    BY <1>10, <2>3 DEF Override
  <2>5. next \in Seq(RulesOf(custom)) /\ Len(next) = Len(merged)
    BY <1>1, <1>2, <2>1, <2>4
  <2>6. /\ DOMAIN next = DOMAIN merged
        /\ next[p] = rule
        /\ \A i \in DOMAIN merged : i # p => next[i] = merged[i]
    BY <1>2, <2>1, <2>4
  <2> HIDE DEF next, rule
  <2>7. \A i \in DOMAIN merged : next[i].id = merged[i].id
    BY <2>1, <2>6
  <2>8. UniqueIds(next)
    BY <1>3, <2>6, <2>7 DEF UniqueIds
  <2>9. DefaultsFirst(next)
    BY <1>3, <1>6, <2>5, <2>7 DEF DefaultsFirst
  <2>10. ASSUME NEW i \in DOMAIN next
         PROVE  StillDefault(next, custom, k + 1, i) \/ LastOfItsId(next, custom, k + 1, i)
    <3>1. CASE i = p
      BY <1>8, <2>6, <3>1
    <3>2. CASE i # p
      <4>1. merged[i].id # rule.id
        BY <1>3, <2>1, <2>6, <3>2 DEF UniqueIds
      <4> QED BY <1>7, <2>6, <3>2, <4>1
    <3> QED BY <3>1, <3>2
  <2>11. ASSUME NEW j \in 1..(k + 1) PROVE \E i \in DOMAIN next : next[i].id = custom[j].id
    <3>1. CASE j = k + 1
      BY <2>1, <2>6, <2>7, <3>1 DEF rule
    <3>2. CASE j \in 1..k
      <4>1. PICK i \in DOMAIN merged : merged[i].id = custom[j].id
        BY <1>5, <3>2
      <4> QED BY <2>6, <2>7, <4>1
    <3> QED BY <3>1, <3>2
  <2>12. MergedInv(next, custom, k + 1)
    BY <2>5, <2>8, <2>9, <2>10, <2>11 DEF MergedInv
  <2> QED BY <2>12 DEF next, rule
<1> QED BY <1>9, <1>10

\* So it holds of the merged rules, by induction on the number of overrides.
LEMMA MergeKeepsInv ==
  ASSUME NEW custom, custom \in Seq(Range(custom))
  PROVE  MergedInv(merge(load_default_rules, custom), custom, Len(custom))
<1>1. Len(custom) \in Nat
  OBVIOUS
<1>2. PICK g : /\ Merging(load_default_rules, custom, Len(custom), g)
               /\ merge(load_default_rules, custom) = g[Len(custom)]
  BY <1>1, MergingMerges
<1> DEFINE T == {k \in Nat : k <= Len(custom) => MergedInv(g[k], custom, k)}
<1>3. 0 \in T
  <2>1. g[0] = load_default_rules
    BY <1>1, <1>2 DEF Merging
  <2>2. load_default_rules \in Seq(RulesOf(custom))
    <3>1. Range(load_default_rules) \subseteq RulesOf(custom)
      BY DEF RulesOf
    <3>2. \A A, B : A \subseteq B => Seq(A) \subseteq Seq(B)
      OBVIOUS
    <3> HIDE DEF RulesOf
    <3> QED BY <3>1, <3>2, DefaultRules
  <2>3. UniqueIds(load_default_rules)
    BY DefaultIdsAreUnique DEF UniqueIds
  <2>4. DefaultsFirst(load_default_rules)
    BY DefaultRules DEF DefaultsFirst
  <2>5. \A i \in DOMAIN load_default_rules : StillDefault(load_default_rules, custom, 0, i)
    BY DefaultRules DEF StillDefault
  <2>6. MergedInv(load_default_rules, custom, 0)
    BY <2>2, <2>3, <2>4, <2>5 DEF MergedInv
  <2> QED BY <2>1, <2>6
<1>4. ASSUME NEW k \in Nat, k \in T PROVE k + 1 \in T
  <2>1. SUFFICES ASSUME k + 1 <= Len(custom) PROVE MergedInv(g[k + 1], custom, k + 1)
    OBVIOUS
  <2>2. g[k + 1] = Override(g[k], custom[k + 1])
    BY <1>1, <1>2, <2>1 DEF Merging
  <2>3. MergedInv(g[k], custom, k)
    BY <1>1, <1>4, <2>1
  <2> QED BY <2>1, <2>2, <2>3, OverrideKeepsInv
<1> HIDE DEF T
<1>5. Len(custom) \in T
  BY <1>1, <1>3, <1>4, Induction
<1> QED BY <1>2, <1>5 DEF T

\* The verdict of the merged rules, said without the merge. A default rule that
\* nobody took is only reached if no custom rule at a later place matches.
LEMMA MergedDecides ==
  ASSUME NEW S, NEW custom \in Seq(S), NEW change
  PROVE  Decided(custom, change, classify(merge(load_default_rules, custom), change))
<1> DEFINE merged == merge(load_default_rules, custom)
           n == Len(custom)
           live == {i \in DOMAIN custom :
                      \A j \in DOMAIN custom : j > i => custom[j].id # custom[i].id}
           taken == \E i \in live : custom[i].id = change.kind
           hits == {i \in live : /\ Matches(custom[i], change)
                                 /\ taken \/ ~Earlier(custom[i].id, change.kind)}
           matching == {p \in DOMAIN merged : Matches(merged[p], change)}
           verdict == classify(merged, change)
<1>1. n \in Nat /\ DOMAIN custom = 1..n
  OBVIOUS
<1> HIDE DEF merged
<1>2. MergedInv(merged, custom, n)
  <2>1. custom \in Seq(Range(custom))
    BY <1>1 DEF Range
  <2> QED BY <2>1, MergeKeepsInv DEF merged
<1>3. UniqueIds(merged) /\ DefaultsFirst(merged)
  BY <1>2 DEF MergedInv
<1>4. /\ Len(merged) \in Nat /\ DOMAIN merged = 1..Len(merged)
      /\ 1..37 \subseteq DOMAIN merged
  <2>1. Len(merged) \in Nat /\ DOMAIN merged = 1..Len(merged)
    BY <1>2 DEF MergedInv
  <2>2. Len(merged) >= 37
    BY <1>3 DEF DefaultsFirst
  <2> QED BY <2>1, <2>2
<1>5. \A p \in 1..37 : merged[p].id = load_default_rules[p].id
  BY <1>3 DEF DefaultsFirst
\* A place of the merged list holds a default rule nobody replaced, or a live one.
<1>6. ASSUME NEW p \in DOMAIN merged, ~StillDefault(merged, custom, n, p)
      PROVE  \E i \in live : merged[p] = custom[i]
  <2>1. LastOfItsId(merged, custom, n, p)
    BY <1>2, <1>6 DEF MergedInv
  <2> QED BY <1>1, <2>1 DEF LastOfItsId
<1>7. ASSUME NEW p \in DOMAIN merged, StillDefault(merged, custom, n, p)
      PROVE  p \in 1..37 /\ merged[p] = load_default_rules[p]
               /\ \A i \in live : custom[i].id # merged[p].id
  BY <1>1, <1>7 DEF StillDefault
\* And every live rule has a place.
<1>8. ASSUME NEW i \in live PROVE \E p \in DOMAIN merged : merged[p] = custom[i]
  <2>1. PICK p \in DOMAIN merged : merged[p].id = custom[i].id
    BY <1>1, <1>2 DEF MergedInv
  <2>2. ~StillDefault(merged, custom, n, p)
    BY <1>7, <2>1
  <2>3. PICK j \in live : merged[p] = custom[j]
    BY <1>6, <2>2
  <2>4. custom[j].id = custom[i].id
    BY <2>1, <2>3
  <2>5. i = j
    BY <1>1, <2>4
  <2> QED BY <2>3, <2>5
<1>9. CASE matching = {}
  <2>1. verdict = "behavioral"
    BY <1>9 DEF classify
  <2>2. hits = {}
    BY <1>8, <1>9
  <2>3. ~taken => verdict = classify(load_default_rules, change)
    <3>1. SUFFICES ASSUME ~taken, NEW d \in 1..37, Matches(load_default_rules[d], change)
                   PROVE  FALSE
      BY <2>1, DefaultRules DEF classify
    <3>2. d \in DOMAIN merged /\ merged[d].id = change.kind
      BY <1>4, <1>5, <3>1, DefaultRules DEF Matches
    <3>3. StillDefault(merged, custom, n, d)
      BY <1>6, <3>1, <3>2
    <3> QED BY <1>7, <1>9, <3>1, <3>2, <3>3
  <2> HIDE DEF verdict, merged
  <2>4. Decided(custom, change, verdict)
    BY <2>1, <2>2, <2>3 DEF Decided
  <2> QED BY <2>4 DEF verdict, merged
<1>10. CASE matching # {}
  <2> DEFINE last == Max(matching)
  <2>1. last \in matching /\ \A p \in matching : p <= last
    BY <1>4, <1>10, MaxOfFew
  <2>2. verdict = merged[last].verdict
    BY <1>10 DEF classify
  <2>5. ASSUME NEW p \in matching, p # last, last \in 1..37
        PROVE  p < last /\ p \in 1..37
    <3>1. p \in 1..Len(merged) /\ p <= last
      BY <1>4, <2>1
    <3>2. \A size \in Nat, y \in 1..37 : \A x \in 1..size :
             x <= y /\ x # y => x < y /\ x \in 1..37
      OBVIOUS
    <3>3. Len(merged) \in Nat
      BY <1>4
    <3> HIDE DEF last, matching
    <3> QED BY <2>5, <3>1, <3>2, <3>3
  <2> HIDE DEF last, verdict
  <2>3. CASE StillDefault(merged, custom, n, last)
    <3>1. last \in 1..37 /\ merged[last] = load_default_rules[last]
            /\ \A i \in live : custom[i].id # merged[last].id
      BY <1>7, <2>1, <2>3
    <3>2. change.kind = load_default_rules[last].kind /\ change.kind = merged[last].id
      BY <2>1, <3>1, DefaultRules DEF Matches
    <3>3. verdict = classify(load_default_rules, change)
      BY <2>2, <3>1, <3>2, DefaultVerdict
    <3>4. ~taken
      BY <3>1, <3>2
    <3>5. ASSUME NEW i \in hits PROVE FALSE
      <4>1. PICK p \in DOMAIN merged : merged[p] = custom[i]
        BY <1>8, <3>5
      <4>2. p \in matching
        BY <3>5, <4>1
      <4>3. p # last
        BY <3>1, <3>5, <4>1
      <4>4. p < last /\ p \in 1..37
        BY <2>5, <3>1, <4>2, <4>3
      <4>5. load_default_rules[p].id = custom[i].id
        BY <1>5, <4>1, <4>4
      <4>6. load_default_rules[last].id = change.kind
        BY <3>1, <3>2
      <4>7. Earlier(custom[i].id, change.kind)
        BY <3>1, <4>4, <4>5, <4>6, DefaultRules DEF Earlier
      <4> QED BY <3>4, <3>5, <4>7
    <3>6. Decided(custom, change, verdict)
      BY <3>3, <3>4, <3>5 DEF Decided
    <3> QED BY <3>6 DEF verdict, merged
  <2>4. CASE ~StillDefault(merged, custom, n, last)
    <3>1. PICK i \in live : merged[last] = custom[i]
      BY <1>6, <2>1, <2>4
    <3>2. Matches(custom[i], change) /\ verdict = custom[i].verdict
      BY <2>1, <2>2, <3>1
    <3>3. ASSUME ~taken, Earlier(custom[i].id, change.kind) PROVE FALSE
      <4>1. PICK a \in 1..37, b \in 1..37 :
              /\ a < b
              /\ load_default_rules[a].id = custom[i].id
              /\ load_default_rules[b].id = change.kind
        BY <3>3, DefaultRules DEF Earlier
      <4>2. a = last
        <5>1. merged[a].id = merged[last].id
          BY <1>5, <3>1, <4>1
        <5> QED BY <1>3, <1>4, <2>1, <5>1 DEF UniqueIds
      <4>3. b \in DOMAIN merged /\ merged[b].id = change.kind
        BY <1>4, <1>5, <4>1
      <4>4. StillDefault(merged, custom, n, b)
        BY <1>6, <3>3, <4>3
      <4>5. merged[b] = load_default_rules[b]
        BY <1>7, <4>3, <4>4
      <4>6. b \in matching
        BY <4>1, <4>3, <4>5, DefaultRules DEF Matches
      <4> QED BY <2>1, <4>1, <4>2, <4>6
    <3>4. i \in hits
      BY <3>2, <3>3
    <3>5. Decided(custom, change, verdict)
      BY <3>2, <3>4 DEF Decided
    <3> QED BY <3>5 DEF verdict, merged
  <2> QED BY <2>3, <2>4
<1> QED BY <1>9, <1>10 DEF merged

-----------------------------------------------------------------------------
(* The walker of OpenAPI specifications.                                   *)

\* Where the walker is when it compares an operation, and all below it.
Located(location, path, method) ==
  /\ \E S : location \in Seq(S)
  /\ Len(location) >= 3
  /\ location[1] = "paths" /\ location[2] = path /\ location[3] = method

\* A longer location is still in the operation.
LEMMA LocatedBelow ==
  ASSUME NEW location, NEW path, NEW method, Located(location, path, method),
         NEW T, NEW rest \in Seq(T)
  PROVE  Located(location \o rest, path, method)
<1>1. PICK S : location \in Seq(S)
  BY DEF Located
<1> DEFINE U == S \cup T
<1>2. location \in Seq(U) /\ rest \in Seq(U)
  BY <1>1
<1> HIDE DEF U
<1>3. location \o rest \in Seq(U)
  BY <1>2
<1>4. /\ Len(location \o rest) >= 3
      /\ \A i \in 1..3 : (location \o rest)[i] = location[i]
  BY <1>2 DEF Located
<1> QED BY <1>3, <1>4 DEF Located

\* The operation is located at itself.
LEMMA LocatedAtOperation ==
  ASSUME NEW path, NEW method PROVE Located(<<"paths", path, method>>, path, method)
<1> DEFINE location == <<"paths", path, method>>
<1>1. /\ location \in Seq({"paths", path, method})
      /\ Len(location) = 3
      /\ location[1] = "paths" /\ location[2] = path /\ location[3] = method
  OBVIOUS
<1> HIDE DEF location
<1>2. Located(location, path, method)
  BY <1>1 DEF Located
<1> QED BY <1>2 DEF location

\* A breaking change that is about a call, and shown to whoever makes it.
Tells(change, call) ==
  /\ change.kind \in BreakingKinds
  /\ change.calls = {} \/ call \in change.calls
  /\ Concerns([change |-> change], call)

\* A breaking change in an operation is about the call of that operation.
LEMMA TellsOfOperation ==
  ASSUME NEW location, NEW path, NEW method, Located(location, path, method),
         NEW part, NEW event, <<part, event>> \in BreakingKinds,
         NEW value, NEW calls \in {{}, {Call(method, <<path>>)}}
  PROVE  Tells(Change(part, event, location, value, calls), Call(method, <<path>>))
<1> DEFINE change == Change(part, event, location, value, calls)
           call == Call(method, <<path>>)
<1>1. change.kind = <<part, event>> /\ change.location = location /\ change.calls = calls
  BY DEF Change
<1>2. call.path[1] = path /\ call.method = method
  BY DEF Call
<1> HIDE DEF change, call
<1>3. Concerns([change |-> change], call)
  BY <1>1, <1>2 DEF Concerns, Located
<1> QED BY <1>1, <1>3 DEF Tells, change, call

\* A specification serves the methods of its paths.
LEMMA ServedCalls ==
  ASSUME NEW spec, NEW path, NEW method
  PROVE  Call(method, <<path>>) \in Served(spec)
           <=> path \in DOMAIN spec.paths /\ method \in DOMAIN spec.paths[path]
<1>1. \A m, p : Call(m, <<p>>) = Call(method, <<path>>) => m = method /\ p = path
  <2>1. \A m, p : /\ Call(m, <<p>>).method = m
                  /\ Call(m, <<p>>).path[1] = p
    BY DEF Call
  <2> QED BY <2>1
<1>2. ASSUME Call(method, <<path>>) \in Served(spec)
      PROVE  path \in DOMAIN spec.paths /\ method \in DOMAIN spec.paths[path]
  <2>1. PICK p \in DOMAIN spec.paths : Call(method, <<path>>) \in Calls(spec, p)
    BY <1>2 DEF Served
  <2>2. PICK m \in DOMAIN spec.paths[p] : Call(method, <<path>>) = Call(m, <<p>>)
    BY <2>1 DEF Calls
  <2> QED BY <1>1, <2>1, <2>2
<1>3. ASSUME path \in DOMAIN spec.paths, method \in DOMAIN spec.paths[path]
      PROVE  Call(method, <<path>>) \in Served(spec)
  <2>1. Call(method, <<path>>) \in Calls(spec, path)
    BY <1>3 DEF Calls
  <2> QED BY <1>3, <2>1 DEF Served
<1> QED BY <1>2, <1>3

\* A call that is no longer served.
LEMMA RemovalIsTold ==
  ASSUME NEW old, NEW new, NEW path, NEW method,
         Call(method, <<path>>) \in Served(old), Call(method, <<path>>) \notin Served(new)
  PROVE  \E c \in DiffOpenapi(old, new) : Tells(c, Call(method, <<path>>))
<1> DEFINE call == Call(method, <<path>>)
<1>1. path \in DOMAIN old.paths /\ method \in DOMAIN old.paths[path]
  BY ServedCalls
<1>2. CASE path \notin DOMAIN new.paths
  <2> DEFINE change == Change("path", "removed", <<"paths", path>>, NoValue,
                             Calls(old, path))
  <2>1. change \in DiffOpenapi(old, new)
    BY <1>1, <1>2 DEF DiffOpenapi, DiffPaths
  <2>2. call \in Calls(old, path)
    BY <1>1 DEF Calls
  <2>3. /\ change.kind = <<"path", "removed">> /\ change.calls = Calls(old, path)
        /\ change.location = <<"paths", path>> /\ call.path[1] = path
    BY DEF Change, Call
  <2> HIDE DEF change, call
  <2>4. Concerns([change |-> change], call)
    BY <2>3 DEF Concerns
  <2>5. <<"path", "removed">> \in BreakingKinds
    BY DEF BreakingKinds
  <2>6. Tells(change, call)
    BY <2>2, <2>3, <2>4, <2>5 DEF Tells
  <2> QED BY <2>1, <2>6 DEF call
<1>3. CASE path \in DOMAIN new.paths
  <2> DEFINE change == Change("operation", "removed", <<"paths", path, method>>, NoValue,
                             {call})
  <2>1. method \notin DOMAIN new.paths[path]
    BY <1>3, ServedCalls
  <2>2. change \in DiffPathItem(old, new, path)
    BY <1>1, <2>1 DEF DiffPathItem
  <2>3. change \in DiffOpenapi(old, new)
    BY <1>1, <1>3, <2>2 DEF DiffOpenapi, DiffPaths
  <2>4. <<"operation", "removed">> \in BreakingKinds
    BY DEF BreakingKinds
  <2>5. Tells(change, call)
    BY <2>4, LocatedAtOperation, TellsOfOperation
  <2> QED BY <2>3, <2>5
<1> QED BY <1>2, <1>3

\* What both versions serve is compared.
LEMMA OperationIsWalked ==
  ASSUME NEW old, NEW new, NEW path, NEW method,
         Call(method, <<path>>) \in Served(old), Call(method, <<path>>) \in Served(new)
  PROVE  DiffOperation(old, new, path, method) \subseteq DiffOpenapi(old, new)
<1>1. /\ path \in DOMAIN old.paths /\ method \in DOMAIN old.paths[path]
      /\ path \in DOMAIN new.paths /\ method \in DOMAIN new.paths[path]
  BY ServedCalls
<1>2. DiffOperation(old, new, path, method) \subseteq DiffPathItem(old, new, path)
  BY <1>1 DEF DiffPathItem
<1>3. DiffPathItem(old, new, path) \subseteq DiffOpenapi(old, new)
  BY <1>1 DEF DiffOpenapi, DiffPaths
<1> QED BY <1>2, <1>3

\* What a request says to a server that both versions of it serve, part by part.
ParametersFit(spec, request) ==
  \A p \in DOMAIN spec.paths[request.path][request.method].parameters :
    LET parameter == spec.paths[request.path][request.method].parameters[p]
    IN IF p \in DOMAIN request.parameters
       THEN Type(parameter) \in {NoType, request.parameters[p]}
       ELSE ~parameter.required

BodyFits(spec, schema, body) ==
  /\ Required(schema) \subseteq DOMAIN body
  /\ DOMAIN body \subseteq DOMAIN Properties(schema)
  /\ \A n \in DOMAIN body : Satisfies(spec, Properties(schema)[n], body[n])

\* A server accepts what fits in all parts.
LEMMA AcceptsParts ==
  ASSUME NEW spec, NEW request
  PROVE  Accepts(spec, request) <=>
           /\ Call(request.method, <<request.path>>) \in Served(spec)
           /\ ParametersFit(spec, request)
           /\ request.body = {} =>
                ~spec.paths[request.path][request.method].bodyRequired
           /\ \A body \in request.body :
                BodyFits(spec, Resolve(spec, spec.paths[request.path][request.method].body),
                         body)
  BY DEF Accepts, ParametersFit, BodyFits

\* A parameter that turns a request away was added, or got required, or changed
\* its type: parameters that go away are ignored by the server.
LEMMA ParameterIsTold ==
  ASSUME NEW location, NEW path, NEW method, Located(location, path, method),
         NEW before, NEW after, NEW sent, DOMAIN sent \subseteq DOMAIN before,
         \A p \in DOMAIN before :
           IF p \in DOMAIN sent THEN Type(before[p]) \in {NoType, sent[p]}
           ELSE ~before[p].required,
         NEW p \in DOMAIN after,
         ~ (IF p \in DOMAIN sent THEN Type(after[p]) \in {NoType, sent[p]}
            ELSE ~after[p].required)
  PROVE  \E c \in DiffParameters(location, {Call(method, <<path>>)}, before, after) :
           Tells(c, Call(method, <<path>>))
<1> DEFINE call == Call(method, <<path>>)
           change(event) == Change("parameter", event, location \o <<"parameters", p>>,
                                   NoValue, {call})
           changes == DiffParameters(location, {call}, before, after)
<1>1. ASSUME NEW event,
             event \in {"added.required", "required.increased", "type_changed"}
      PROVE  Tells(change(event), call)
  <2>1. <<"parameters", p>> \in Seq({"parameters", p})
    OBVIOUS
  <2>2. Located(location \o <<"parameters", p>>, path, method)
    BY <2>1, LocatedBelow
  <2>3. <<"parameter", event>> \in BreakingKinds
    BY <1>1 DEF BreakingKinds
  <2>4. {call} \in {{}, {call}}
    OBVIOUS
  <2> QED BY <2>2, <2>3, <2>4, TellsOfOperation
<1>2. \E event \in {"added.required", "required.increased", "type_changed"} :
        change(event) \in changes
  <2>1. CASE p \notin DOMAIN before
    <3>1. after[p].required
      BY <2>1
    <3>2. change("added.required") \in changes
      BY <2>1, <3>1 DEF DiffParameters
    <3> QED BY <3>2
  <2>2. CASE p \in DOMAIN before /\ p \notin DOMAIN sent
    <3>1. after[p].required /\ ~before[p].required
      BY <2>2
    <3>2. change("required.increased") \in changes
      BY <2>2, <3>1 DEF DiffParameters
    <3> QED BY <3>2
  <2>3. CASE p \in DOMAIN before /\ p \in DOMAIN sent
    <3>1. Type(after[p]) # Type(before[p])
      BY <2>3
    <3>2. change("type_changed") \in changes
      BY <2>3, <3>1 DEF DiffParameters
    <3> QED BY <3>2
  <2> QED BY <2>1, <2>2, <2>3
<1> HIDE DEF change, call
<1>3. PICK event \in {"added.required", "required.increased", "type_changed"} :
        change(event) \in changes
  BY <1>2
<1>4. Tells(change(event), call)
  BY <1>1, <1>3
<1> HIDE DEF changes
<1>5. \E c \in changes : Tells(c, call)
  BY <1>3, <1>4
<1> QED BY <1>5 DEF call, changes

\* In DiffSchema, each way in which a body stops to fit has its change, outside
\* of the blind spots.
LEMMA SchemaIsTold ==
  ASSUME NEW location, NEW path, NEW method, Located(location, path, method),
         NEW old, NEW new, NEW before, NEW after, NEW body,
         Required(after) \subseteq DOMAIN Properties(after),
         \A n \in DOMAIN Properties(before) \cap DOMAIN Properties(after) :
           Compared(old, new, Properties(before)[n], Properties(after)[n]),
         BodyFits(old, before, body), ~BodyFits(new, after, body)
  PROVE  \/ \E c \in DiffSchema(location, before, after, "request_body") :
              /\ c.kind \in BreakingKinds
              /\ c.calls = {}
              /\ Located(c.location, path, method)
         \/ \E c \in DiffComponents(old, new) :
              /\ c.kind \in BreakingKinds
              /\ c.calls = {}
              /\ c.location[1] = "components"
<1> DEFINE olds == Properties(before)
           news == Properties(after)
           both == DOMAIN olds \cap DOMAIN news
           changes == DiffSchema(location, before, after, "request_body")
           change(event, n) ==
             Change("request_body", event, location \o <<"properties", n>>, NoValue, {})
           told == \E c \in changes : /\ c.kind \in BreakingKinds
                                      /\ c.calls = {}
                                      /\ Located(c.location, path, method)
<1>1. ASSUME NEW n, NEW event,
             event \in {"property.added.required", "property.removed",
                        "property.type_changed", "property.required.increased"},
             change(event, n) \in changes
      PROVE  told
  <2>1. <<"properties", n>> \in Seq({"properties", n})
    OBVIOUS
  <2>2. Located(location \o <<"properties", n>>, path, method)
    BY <2>1, LocatedBelow
  <2>3. <<"request_body", event>> \in BreakingKinds
    BY <1>1 DEF BreakingKinds
  <2>4. /\ change(event, n).kind = <<"request_body", event>>
        /\ change(event, n).calls = {}
        /\ change(event, n).location = location \o <<"properties", n>>
    BY DEF Change
  <2> HIDE DEF change, changes
  <2> QED BY <1>1, <2>2, <2>3, <2>4
<1>2. DOMAIN body \subseteq DOMAIN olds /\ Required(before) \subseteq DOMAIN body
  BY DEF BodyFits
<1>3. CASE ~ (DOMAIN body \subseteq DOMAIN news)
  <2>1. PICK n \in DOMAIN olds : n \notin DOMAIN news
    BY <1>2, <1>3
  <2>2. change("property.removed", n) \in changes
    BY <2>1 DEF DiffSchema
  <2> QED BY <1>1, <2>2
<1>4. CASE ~ (Required(after) \subseteq DOMAIN body)
  <2>1. PICK n \in DOMAIN news : n \in Required(after) /\ n \notin DOMAIN body
    BY <1>4
  <2>2. CASE n \notin DOMAIN olds
    <3>1. change("property.added.required", n) \in changes
      BY <2>1, <2>2 DEF DiffSchema
    <3> QED BY <1>1, <3>1
  <2>3. CASE n \in DOMAIN olds
    <3>1. n \notin Required(before)
      BY <1>2, <2>1
    <3>2. change("property.required.increased", n) \in changes
      BY <2>1, <2>3, <3>1 DEF DiffSchema
    <3> QED BY <1>1, <3>2
  <2> QED BY <2>2, <2>3
<1>5. CASE \E n \in DOMAIN body : n \in DOMAIN news /\ ~Satisfies(new, news[n], body[n])
  <2>1. PICK n \in DOMAIN body : n \in DOMAIN news /\ ~Satisfies(new, news[n], body[n])
    BY <1>5
  <2>2. /\ n \in both
        /\ Satisfies(old, olds[n], body[n])
        /\ Compared(old, new, olds[n], news[n])
    BY <1>2, <2>1 DEF BodyFits
  <2> DEFINE a == olds[n]
             b == news[n]
             x == Resolve(old, a)
             y == Resolve(new, b)
  <2>3. CASE Type(a) # Type(b)
    <3>1. change("property.type_changed", n) \in changes
      BY <2>2, <2>3 DEF DiffSchema
    <3> QED BY <1>1, <3>1
  <2>4. CASE Type(a) = Type(b)
    <3>1. "ref" \notin DOMAIN a /\ "ref" \notin DOMAIN b => x = a /\ y = b
      BY DEF Resolve
    <3>2. "ref" \in DOMAIN a \cup DOMAIN b =>
            /\ "ref" \in DOMAIN a \cap DOMAIN b /\ a.ref = b.ref /\ Type(x) = Type(y)
      BY <2>2 DEF Compared
    <3>3. Type(x) = Type(y)
      BY <2>4, <3>1, <3>2
    <3>4. "enum" \in DOMAIN y => "enum" \in DOMAIN x
      BY <2>2 DEF Compared
    <3> HIDE DEF x, y
    <3>5. "enum" \in DOMAIN y /\ body[n].member \notin y.enum
      BY <2>1, <2>2, <3>3 DEF Satisfies, x, y
    <3>6. "enum" \in DOMAIN x /\ body[n].member \in x.enum
      BY <2>2, <3>4, <3>5 DEF Satisfies, x
    <3>7. CASE "ref" \in DOMAIN a \cup DOMAIN b
      <4> DEFINE value == Change("enum.value", "removed",
                                 <<"components", a.ref, "enum">>, body[n].member, {})
      <4>1. "enum" \notin DOMAIN EmptySchema
        BY DEF EmptySchema
      <4>2. a.ref \in DOMAIN old.components /\ x = old.components[a.ref]
        BY <3>2, <3>6, <3>7, <4>1 DEF x, Resolve, Get
      <4>3. a.ref \in DOMAIN new.components /\ y = new.components[a.ref]
        BY <3>2, <3>5, <3>7, <4>1 DEF y, Resolve, Get
      <4>4. value \in DiffEnum(<<"components", a.ref, "enum">>, x, y)
        BY <3>5, <3>6 DEF DiffEnum
      <4>5. value \in DiffComponents(old, new)
        BY <4>2, <4>3, <4>4 DEF DiffComponents
      <4>6. /\ value.kind = <<"enum.value", "removed">> /\ value.calls = {}
            /\ value.location[1] = "components"
        BY DEF Change
      <4>7. value.kind \in BreakingKinds
        BY <4>6 DEF BreakingKinds
      <4> QED BY <4>5, <4>6, <4>7
    <3>8. CASE "ref" \notin DOMAIN a \cup DOMAIN b
      <4> DEFINE rest == <<"properties", n, "enum">>
                 value == Change("enum.value", "removed", location \o rest,
                                 body[n].member, {})
      <4>1. value \in DiffEnum(location \o rest, a, b)
        BY <3>1, <3>5, <3>6, <3>8 DEF DiffEnum
      <4>2. value \in changes
        BY <2>2, <4>1 DEF DiffSchema
      <4>3. rest \in Seq({"properties", n, "enum"})
        OBVIOUS
      <4>4. Located(location \o rest, path, method)
        BY <4>3, LocatedBelow
      <4>5. /\ value.kind = <<"enum.value", "removed">> /\ value.calls = {}
            /\ value.location = location \o rest
        BY DEF Change
      <4>6. value.kind \in BreakingKinds
        BY <4>5 DEF BreakingKinds
      <4> HIDE DEF value, changes
      <4>7. \E c \in changes : /\ c.kind \in BreakingKinds
                              /\ c.calls = {}
                              /\ Located(c.location, path, method)
        BY <4>2, <4>4, <4>5, <4>6
      <4> QED BY <4>7 DEF changes
    <3> QED BY <3>7, <3>8
  <2> QED BY <2>3, <2>4
<1> QED BY <1>2, <1>3, <1>4, <1>5 DEF BodyFits

\* A request that the new specification turns away, although the old one
\* documents it, has a breaking change that is about its call, unless it lies in
\* a blind spot of the walker.
LEMMA BreaksAreTold ==
  ASSUME NEW old, NEW new, NEW request, Sends(old, request), ~Accepts(new, request),
         Call(request.method, <<request.path>>) \in Served(new) =>
           SeesBody(old, new, request.path, request.method)
  PROVE  \E c \in DiffOpenapi(old, new) :
           Tells(c, Call(request.method, <<request.path>>))
<1> DEFINE path == request.path
           method == request.method
           call == Call(method, <<path>>)
           before == old.paths[path][method]
           after == new.paths[path][method]
           location == <<"paths", path, method>>
<1>1. /\ call \in Served(old)
      /\ ParametersFit(old, request)
      /\ request.body = {} => ~before.bodyRequired
      /\ \A body \in request.body : BodyFits(old, Resolve(old, before.body), body)
  BY AcceptsParts DEF Sends
<1>2. DOMAIN request.parameters \subseteq DOMAIN before.parameters
  BY DEF Sends
<1>3. CASE call \notin Served(new)
  BY <1>1, <1>3, RemovalIsTold
<1>4. CASE call \in Served(new)
  <2>1. DiffOperation(old, new, path, method) \subseteq DiffOpenapi(old, new)
    BY <1>1, <1>4, OperationIsWalked
  <2>2. Located(location, path, method)
    BY LocatedAtOperation
  <2>3. CASE ~ParametersFit(new, request)
    <3>1. PICK p \in DOMAIN after.parameters :
            ~ (IF p \in DOMAIN request.parameters
               THEN Type(after.parameters[p]) \in {NoType, request.parameters[p]}
               ELSE ~after.parameters[p].required)
      BY <2>3 DEF ParametersFit
    <3>2. \A q \in DOMAIN before.parameters :
            IF q \in DOMAIN request.parameters
            THEN Type(before.parameters[q]) \in {NoType, request.parameters[q]}
            ELSE ~before.parameters[q].required
      BY <1>1 DEF ParametersFit
    <3> DEFINE sent == request.parameters
               olds == before.parameters
               news == after.parameters
    <3> HIDE DEF sent, olds, news, location
    <3>3. \E c \in DiffParameters(location, {Call(method, <<path>>)}, olds, news) :
            Tells(c, Call(method, <<path>>))
      <4>1. /\ DOMAIN sent \subseteq DOMAIN olds
            /\ \A q \in DOMAIN olds :
                 IF q \in DOMAIN sent THEN Type(olds[q]) \in {NoType, sent[q]}
                 ELSE ~olds[q].required
            /\ p \in DOMAIN news
            /\ ~ (IF p \in DOMAIN sent THEN Type(news[p]) \in {NoType, sent[p]}
                  ELSE ~news[p].required)
        BY <1>2, <3>1, <3>2 DEF sent, olds, news
      <4> HIDE DEF path, method
      <4> QED BY <2>2, <4>1, ParameterIsTold
    <3>4. DiffParameters(location, {call}, olds, news)
            \subseteq DiffOperation(old, new, path, method)
      BY DEF DiffOperation, olds, news, location
    <3> QED BY <2>1, <3>3, <3>4
  <2>4. CASE request.body = {} /\ after.bodyRequired
    <3> DEFINE change == Change("request_body", "property.required.increased",
                                location \o <<"requestBody">>, NoValue, {call})
    <3>1. change \in DiffOperation(old, new, path, method)
      <4>1. change \in DiffBody(location, {call}, old, new, before, after)
        BY <1>1, <2>4 DEF DiffBody
      <4> QED BY <4>1 DEF DiffOperation
    <3>2. <<"requestBody">> \in Seq({"requestBody"})
      OBVIOUS
    <3>3. <<"request_body", "property.required.increased">> \in BreakingKinds
      BY DEF BreakingKinds
    <3> HIDE DEF location
    <3>4. Located(location \o <<"requestBody">>, path, method)
      BY <2>2, <3>2, LocatedBelow
    <3>5. Tells(change, call)
      BY <3>3, <3>4, TellsOfOperation
    <3> QED BY <2>1, <3>1, <3>5
  <2>5. ASSUME NEW body \in request.body, ~BodyFits(new, Resolve(new, after.body), body)
        PROVE  \E c \in DiffOpenapi(old, new) : Tells(c, call)
    <3> DEFINE olds == Resolve(old, before.body)
               news == Resolve(new, after.body)
               at == location \o <<"requestBody">>
    <3>1. <<"requestBody">> \in Seq({"requestBody"})
      OBVIOUS
    <3>2. Located(at, path, method)
      <4> HIDE DEF location
      <4> QED BY <2>2, <3>1, LocatedBelow
    <3>3. /\ Required(news) \subseteq DOMAIN Properties(news)
          /\ \A n \in DOMAIN Properties(olds) \cap DOMAIN Properties(news) :
               Compared(old, new, Properties(olds)[n], Properties(news)[n])
      BY <1>4 DEF SeesBody
    <3>4. DiffSchema(at, olds, news, "request_body")
            \subseteq DiffOperation(old, new, path, method)
      <4>1. DiffSchema(at, olds, news, "request_body")
              \subseteq DiffBody(location, {call}, old, new, before, after)
        BY DEF DiffBody
      <4> QED BY <4>1 DEF DiffOperation
    <3>5. BodyFits(old, olds, body) /\ ~BodyFits(new, news, body)
      BY <1>1, <2>5
    <3>6. DiffComponents(old, new) \subseteq DiffOpenapi(old, new)
      BY DEF DiffOpenapi
    <3> HIDE DEF olds, news, at, location
    <3>7. \/ \E c \in DiffSchema(at, olds, news, "request_body") :
              /\ c.kind \in BreakingKinds
              /\ c.calls = {}
              /\ Located(c.location, path, method)
          \/ \E c \in DiffComponents(old, new) :
              /\ c.kind \in BreakingKinds
              /\ c.calls = {}
              /\ c.location[1] = "components"
      <4> HIDE DEF path, method
      <4> QED BY <3>2, <3>3, <3>5, SchemaIsTold
    <3>8. call.path[1] = path /\ call.method = method
      BY DEF Call
    <3> HIDE DEF call, path, method
    <3>9. PICK c \in DiffOpenapi(old, new) :
            /\ c.kind \in BreakingKinds
            /\ c.calls = {}
            /\ Located(c.location, path, method) \/ c.location[1] = "components"
      BY <2>1, <3>4, <3>6, <3>7
    <3>10. Concerns([change |-> c], call)
      BY <3>8, <3>9 DEF Concerns, Located
    <3>11. Tells(c, call)
      BY <3>9, <3>10 DEF Tells
    <3> QED BY <3>11
  <2>6. \/ ~ParametersFit(new, request)
        \/ request.body = {} /\ after.bodyRequired
        \/ \E body \in request.body : ~BodyFits(new, Resolve(new, after.body), body)
    BY <1>4, AcceptsParts
  <2> QED BY <2>3, <2>4, <2>5, <2>6
<1> QED BY <1>3, <1>4

-----------------------------------------------------------------------------
(* The services of protobuf contracts.                                     *)

\* A method that is gone, or has other types.
Lost(old, new, s, m) ==
  /\ s \in DOMAIN old.services
  /\ m \in DOMAIN old.services[s]
  /\ s \in DOMAIN new.services =>
       m \notin DOMAIN new.services[s] \/ new.services[s][m] # old.services[s][m]

\* A breaking change of a service or of one of its methods.
TellsOfRpc(change, s, m) ==
  /\ change.kind \in BreakingKinds
  /\ \/ change.calls = {} /\ change.location = <<"services", s>>
     \/ /\ change.calls = {Call("POST", <<s, m>>)}
        /\ change.kind[1] = "proto.rpc" /\ change.location = <<s, m>>

\* Its service or it itself has a breaking change.
LEMMA RpcBreakIsReported ==
  ASSUME NEW old, NEW new, IsProtoContract(old), IsProtoContract(new),
         NEW s, NEW m, Lost(old, new, s, m)
  PROVE  \E c \in DiffProto(old, new) : TellsOfRpc(c, s, m)
<1> USE DEF Lost, TellsOfRpc
<1>1. CASE s \notin DOMAIN new.services
  <2> DEFINE change == Change("proto.service", "removed", <<"services", s>>, NoValue, {})
  <2>1. change \in DiffProto(old, new)
    BY <1>1 DEF DiffProto, Surface
  <2>2. /\ change.kind = <<"proto.service", "removed">> /\ change.calls = {}
        /\ change.location = <<"services", s>>
    BY DEF Change
  <2> HIDE DEF change
  <2> QED BY <2>1, <2>2 DEF BreakingKinds
<1>2. CASE s \in DOMAIN new.services
  <2> DEFINE before == old.services[s]
             after == new.services[s]
  <2>1. IsService(before) /\ IsService(after)
    BY <1>2 DEF IsProtoContract
  <2>2. DiffService(s, before, after) \subseteq DiffProto(old, new)
    BY <1>2 DEF DiffProto
  <2>3. \E event \in {"removed", "request_type_changed", "response_type_changed"} :
          RpcChange(event, s, m) \in DiffService(s, before, after)
    <3>1. CASE m \notin DOMAIN after
      <4>1. RpcChange("removed", s, m) \in DiffService(s, before, after)
        BY <3>1 DEF DiffService
      <4> QED BY <4>1
    <3>2. CASE m \in DOMAIN after
      <4>1. \/ before[m].input_type # after[m].input_type
            \/ before[m].output_type # after[m].output_type
        BY <1>2, <2>1, <3>2 DEF IsService
      <4>2. before[m].input_type # after[m].input_type =>
              RpcChange("request_type_changed", s, m) \in DiffService(s, before, after)
        BY <3>2 DEF DiffService
      <4>3. before[m].output_type # after[m].output_type =>
              RpcChange("response_type_changed", s, m) \in DiffService(s, before, after)
        BY <3>2 DEF DiffService
      <4> QED BY <4>1, <4>2, <4>3
    <3> QED BY <3>1, <3>2
  <2>4. PICK event \in {"removed", "request_type_changed", "response_type_changed"} :
          RpcChange(event, s, m) \in DiffService(s, before, after)
    BY <2>3
  <2>5. /\ RpcChange(event, s, m).kind = <<"proto.rpc", event>>
        /\ RpcChange(event, s, m).calls = {Call("POST", <<s, m>>)}
        /\ RpcChange(event, s, m).location = <<s, m>>
    BY DEF RpcChange, Change
  <2>6. <<"proto.rpc", event>> \in BreakingKinds
    BY <2>4 DEF BreakingKinds
  <2> HIDE DEF before, after
  <2> QED BY <2>2, <2>4, <2>5, <2>6
<1> QED BY <1>1, <1>2

-----------------------------------------------------------------------------
(* What is stored.                                                         *)

Mined == SUBSET [repo : Repos, call : MinedCalls]
StoredRows ==
  {[comparison |-> c, mined |-> m, report |-> ChangeReport(PostedRules(c), c, m)] :
     c \in Comparisons, m \in Mined}
PrintedRuns ==
  {[comparison |-> c, mined |-> m, report |-> ChangeReport(GateRules(c), c, m),
    accept_breaking |-> a, exit_code |-> ExitCode(ChangeReport(GateRules(c), c, m), a)] :
     c \in Comparisons, m \in Mined, a \in BOOLEAN}

\* The miner's rows are of known clients, and a stored or printed report is the
\* one that its comparison, its rules and the rows of its time give.
StoredInv ==
  /\ inferred_endpoints \in Mined
  /\ contract_diffs \in Seq(StoredRows)
  /\ gate_runs \subseteq PrintedRuns

\* Every step keeps it: rows are only ever added.
LEMMA StoredInvariant == Spec => []StoredInv
<1>1. Init => StoredInv
  BY DEF Init, StoredInv, Mined
<1>2. StoredInv /\ [Next]_vars => StoredInv'
  <2> SUFFICES ASSUME StoredInv, [Next]_vars PROVE StoredInv'
    OBVIOUS
  <2> USE DEF StoredInv
  <2>1. CASE UNCHANGED vars
    BY <2>1 DEF vars
  <2>2. ASSUME NEW repo \in Repos, NEW calls \in SUBSET MinedCalls,
               PersistCallSites(repo, calls)
        PROVE  StoredInv'
    <3>1. [repo : {repo}, call : calls] \subseteq [repo : Repos, call : MinedCalls]
      OBVIOUS
    <3> QED BY <2>2, <3>1 DEF PersistCallSites, Mined
  <2>3. ASSUME NEW comparison \in Comparisons, PostDiff(comparison)
        PROVE  StoredInv'
    <3>1. [comparison |-> comparison, mined |-> inferred_endpoints,
           report |-> ChangeReport(PostedRules(comparison), comparison,
                                   inferred_endpoints)] \in StoredRows
      BY DEF StoredRows
    <3> QED BY <2>3, <3>1 DEF PostDiff
  <2>4. ASSUME NEW check \in GateChecks, GuardianDiff(check)
        PROVE  StoredInv'
    <3>1. check.comparison \in Comparisons /\ check.accept_breaking \in BOOLEAN
      BY SpecDiffAssumption
    <3>2. {} \in Mined
      BY DEF Mined
    <3>3. gate_runs' \subseteq PrintedRuns
      <4> DEFINE c == check.comparison
                 accept == check.accept_breaking
                 run(m) == [comparison |-> c, mined |-> m,
                            report |-> ChangeReport(GateRules(c), c, m),
                            accept_breaking |-> accept,
                            exit_code |-> ExitCode(ChangeReport(GateRules(c), c, m),
                                                   accept)]
      <4>1. \A m \in Mined : run(m) \in PrintedRuns
        BY <3>1 DEF PrintedRuns
      <4>2. gate_runs' \in {gate_runs \cup {run(inferred_endpoints)},
                            gate_runs \cup {run({})}}
        BY <2>4 DEF GuardianDiff
      <4> HIDE DEF run
      <4> QED BY <3>2, <4>1, <4>2
    <3> QED BY <2>4, <3>3 DEF GuardianDiff
  <2> QED BY <2>1, <2>2, <2>3, <2>4 DEF Next
<1> QED BY <1>1, <1>2, PTL DEF Spec

\* What a stored row holds.
LEMMA PostedRows ==
  ASSUME StoredInv, NEW row \in Posted
  PROVE  /\ row.comparison \in Comparisons
         /\ row.mined \in Mined
         /\ row.report = ChangeReport(PostedRules(row.comparison), row.comparison,
                                      row.mined)
<1>1. row \in StoredRows
  BY DEF StoredInv, Posted
<1> QED BY <1>1 DEF StoredRows

\* What a run of the command came to.
LEMMA RunsOfTheCommand ==
  ASSUME StoredInv, NEW run \in gate_runs
  PROVE  /\ run.comparison \in Comparisons
         /\ run.mined \in Mined
         /\ run.report = ChangeReport(GateRules(run.comparison), run.comparison,
                                      run.mined)
         /\ run.exit_code = ExitCode(run.report, run.accept_breaking)
<1>1. run \in PrintedRuns
  BY DEF StoredInv
<1> QED BY <1>1 DEF PrintedRuns

\* A summary that counts no breaking change stands for a list without one.
LEMMA PassingReports ==
  ASSUME NEW comparison \in Comparisons, NEW rules, NEW mined,
         Passes(ChangeReport(rules, comparison, mined))
  PROVE  \A change \in diff_contracts(comparison) : classify(rules, change) # "breaking"
<1> DEFINE changes == diff_contracts(comparison)
           records == {ChangeRecord(rules, mined, c) : c \in changes}
           breaking == {r \in records : r.verdict = "breaking"}
           f == [c \in changes |-> ChangeRecord(rules, mined, c)]
<1>1. IsFiniteSet(records)
  <2>1. IsFiniteSet(changes)
    BY ReportsAreFinite
  <2>2. f \in Surjection(changes, records)
    BY DEF Surjection
  <2> HIDE DEF f, changes, records
  <2> QED BY <2>1, <2>2, FS_Surjection
<1>2. IsFiniteSet(breaking)
  <2>1. breaking \subseteq records
    OBVIOUS
  <2> HIDE DEF breaking, records
  <2> QED BY <1>1, <2>1, FS_Subset
<1>3. ChangeReport(rules, comparison, mined).summary["breaking"] = Cardinality(breaking)
  BY DEF ChangeReport, Summary, Verdicts
<1>4. breaking = {}
  BY <1>2, <1>3, FS_EmptySet DEF Passes
<1>5. ASSUME NEW change \in changes PROVE classify(rules, change) # "breaking"
  <2>1. ChangeRecord(rules, mined, change).verdict = classify(rules, change)
    BY DEF ChangeRecord
  <2>2. ChangeRecord(rules, mined, change) \in records
    BY <1>5
  <2> QED BY <1>4, <2>1, <2>2
<1> QED BY <1>5

\* What a gate let pass has none of the breaking changes.
LEMMA PassedHasNoBreak ==
  ASSUME StoredInv, NEW kind, NEW row \in Passed(kind)
  PROVE  /\ row.comparison \in Comparisons
         /\ row.comparison.kind = kind
         /\ \A change \in diff_contracts(row.comparison) : change.kind \notin BreakingKinds
<1>1. row.comparison.kind = kind /\ row.comparison.rules = <<>>
  BY DEF Passed, Default
<1>2. /\ row.comparison \in Comparisons
      /\ row.report = ChangeReport(load_default_rules, row.comparison, row.mined)
      /\ Passes(row.report)
  <2>1. CASE row \in Posted /\ Passes(row.report)
    BY <1>1, <2>1, PostedRows, MergeNothing DEF PostedRules
  <2>2. CASE row \in gate_runs /\ row.exit_code = 0 /\ ~row.accept_breaking
    <3>1. row.exit_code = ExitCode(row.report, row.accept_breaking)
      BY <2>2, RunsOfTheCommand
    <3>2. Passes(row.report)
      BY <2>2, <3>1 DEF ExitCode
    <3> QED BY <1>1, <2>2, <3>2, RunsOfTheCommand DEF GateRules
  <2>3. \/ row \in Posted /\ Passes(row.report)
        \/ row \in gate_runs /\ row.exit_code = 0 /\ ~row.accept_breaking
    BY DEF Passed, Default
  <2> QED BY <2>1, <2>2, <2>3
<1>3. \A change \in diff_contracts(row.comparison) :
        classify(load_default_rules, change) # "breaking"
  BY <1>2, PassingReports
<1> QED BY <1>1, <1>2, <1>3, BreakingIsClassified

\* A breaking change of a report made with the default rules is in the guide of
\* a client that it names, and in all guides if it names nobody.
LEMMA BreaksAreShown ==
  ASSUME StoredInv, NEW row \in Posted, row.comparison.rules = <<>>,
         NEW change \in diff_contracts(row.comparison), change.kind \in BreakingKinds,
         NEW repo,
         \/ affected_clients(row.mined, change) = {}
         \/ repo \in affected_clients(row.mined, change)
  PROVE  \E r \in GuideChanges(row, repo) : r.verdict = "breaking" /\ r.change = change
<1> DEFINE record == ChangeRecord(load_default_rules, row.mined, change)
<1>1. row.report = ChangeReport(load_default_rules, row.comparison, row.mined)
  BY PostedRows, MergeNothing DEF PostedRules
<1>2. record \in row.report.changes
  BY <1>1 DEF ChangeReport
<1>3. /\ record.verdict = "breaking"
      /\ record.change = change
      /\ record.affected_clients = affected_clients(row.mined, change)
  BY BreakingIsClassified DEF ChangeRecord
<1> HIDE DEF record
<1>4. record \in GuideChanges(row, repo)
  BY <1>2, <1>3 DEF GuideChanges
<1> QED BY <1>3, <1>4

-----------------------------------------------------------------------------
(* The theorems.                                                           *)

\* diff_proto misses nothing: whatever the contracts, the mined clients and the
\* rules, a stored or printed report without changes compares a contract with
\* itself.
THEOREM ReportsMissNothing == Spec => []NoChangeIsSilent
<1>1. StoredInv => NoChangeIsSilent
  <2> SUFFICES ASSUME StoredInv, NEW row \in Posted \cup gate_runs,
                      row.comparison.kind = "proto", row.report.changes = {}
               PROVE  Old(row) = New(row)
    BY DEF NoChangeIsSilent
  <2> DEFINE c == row.comparison
  <2>1. /\ c \in Comparisons
        /\ \E rules : row.report = ChangeReport(rules, c, row.mined)
    BY PostedRows, RunsOfTheCommand
  <2>2. DiffProto(c.before, c.after) = {}
    <3>1. PICK rules : row.report = ChangeReport(rules, c, row.mined)
      BY <2>1
    <3>2. row.report.changes =
            {ChangeRecord(rules, row.mined, x) : x \in diff_contracts(c)}
      BY <3>1 DEF ChangeReport
    <3> QED BY <3>2 DEF diff_contracts
  <2> QED BY <2>1, <2>2, SpecDiffAssumption, SilentContract DEF Old, New
<1> QED BY <1>1, StoredInvariant, PTL

\* The gate is sound for protobuf, but for the field that takes the number of
\* another one: what it let pass reads the payloads of the clients before it.
THEOREM PayloadsSurviveOpenGate == Spec => []OpenGateKeepsPayloads
<1>1. StoredInv => OpenGateKeepsPayloads
  <2> SUFFICES ASSUME StoredInv, NEW row \in Passed("proto"),
                      NEW name \in DOMAIN Old(row).messages
               PROVE  /\ name \in DOMAIN New(row).messages
                      /\ \/ DecodesAlike(Old(row).messages[name], New(row).messages[name])
                         \/ MovesOntoUsedNumber(Old(row).messages[name],
                                                New(row).messages[name])
    BY DEF OpenGateKeepsPayloads
  <2> DEFINE old == Old(row)
             new == New(row)
  <2>1. /\ \A change \in DiffProto(old, new) : change.kind \notin BreakingKinds
        /\ IsProtoContract(old) /\ IsProtoContract(new)
    <3>1. row.comparison \in Comparisons /\ row.comparison.kind = "proto"
      BY PassedHasNoBreak
    <3>2. diff_contracts(row.comparison) = DiffProto(old, new)
      BY <3>1 DEF diff_contracts, Old, New
    <3> QED BY <3>1, <3>2, PassedHasNoBreak, SpecDiffAssumption DEF Old, New
  <2> HIDE DEF old, new
  <2>2. name \in DOMAIN old.messages
    BY DEF old
  <2>3. name \in DOMAIN new.messages
    <3>1. SUFFICES ASSUME name \notin DOMAIN new.messages PROVE FALSE
      OBVIOUS
    <3>2. Change("proto.message", "removed", <<"messages", name>>, NoValue, {})
            \in DiffProto(old, new)
      BY <2>2, <3>1 DEF DiffProto, Surface
    <3> QED BY <2>1, <3>2 DEF Change, BreakingKinds
  <2>4. \A c \in DiffMessage(name, old.messages[name], new.messages[name]) :
          c \in DiffProto(old, new)
    BY <2>2, <2>3 DEF DiffProto
  <2>5. IsMessage(old.messages[name]) /\ IsMessage(new.messages[name])
    BY <2>1, <2>2, <2>3 DEF IsProtoContract
  <2>6. ASSUME NEW c \in DiffMessage(name, old.messages[name], new.messages[name]),
               c.kind[2] \in WireBreaks
        PROVE  c.kind \in BreakingKinds
    <3>1. c.kind = <<"proto.field", c.kind[2]>>
      BY DEF DiffMessage, FieldChange, Change
    <3> QED BY <2>6, <3>1 DEF BreakingKinds, WireBreaks
  <2>7. \/ DecodesAlike(old.messages[name], new.messages[name])
        \/ MovesOntoUsedNumber(old.messages[name], new.messages[name])
    BY <2>1, <2>4, <2>5, <2>6, WireBreaksAreReported
  <2> QED BY <2>3, <2>7 DEF old, new
<1> QED BY <1>1, StoredInvariant, PTL

\* It is sound for the requests over HTTP: what it let pass accepts all that the
\* clients before it send, outside of the blind spots.
THEOREM RequestsSurviveOpenGate == Spec => []OpenGateKeepsRequests
<1>1. StoredInv => OpenGateKeepsRequests
  <2> SUFFICES ASSUME StoredInv, NEW row \in Passed("openapi"),
                      NEW request \in ClientRequests, Breaks(row, request)
               PROVE  FALSE
    BY DEF OpenGateKeepsRequests
  <2>1. /\ row.comparison.kind = "openapi"
        /\ \A change \in diff_contracts(row.comparison) : change.kind \notin BreakingKinds
    BY PassedHasNoBreak
  <2>2. diff_contracts(row.comparison) = DiffOpenapi(Old(row), New(row))
    BY <2>1 DEF diff_contracts, Old, New
  <2>3. \E c \in DiffOpenapi(Old(row), New(row)) :
          Tells(c, Call(request.method, <<request.path>>))
    BY BreaksAreTold DEF Breaks
  <2> QED BY <2>1, <2>2, <2>3 DEF Tells
<1> QED BY <1>1, StoredInvariant, PTL

\* And for the answers: a property that is gone or changed its type, and one that
\* went with its status, its operation or its path, are all breaking.
THEOREM ReadersSurviveOpenGate == Spec => []OpenGateKeepsReaders
<1>1. StoredInv => OpenGateKeepsReaders
  <2> SUFFICES ASSUME StoredInv, NEW row \in Passed("openapi"),
                      NEW path \in DOMAIN Old(row).paths,
                      NEW method \in DOMAIN Old(row).paths[path]
               PROVE  Reads(Old(row), path, method) \subseteq Reads(New(row), path, method)
    BY DEF OpenGateKeepsReaders
  <2> DEFINE old == Old(row)
             new == New(row)
             call == Call(method, <<path>>)
             before == old.paths[path][method].responses
             after == new.paths[path][method].responses
             location == <<"paths", path, method>>
             at(code) == location \o <<"responses", code>>
  <2>1. \A c \in DiffOpenapi(old, new) : c.kind \notin BreakingKinds
    <3>1. row.comparison.kind = "openapi"
      BY PassedHasNoBreak
    <3>2. diff_contracts(row.comparison) = DiffOpenapi(old, new)
      BY <3>1 DEF diff_contracts, Old, New
    <3> QED BY <3>2, PassedHasNoBreak
  <2>2. call \in Served(old)
    BY ServedCalls
  <2>3. call \in Served(new)
    BY <2>1, <2>2, RemovalIsTold DEF Tells
  <2>4. \A c \in DiffOperation(old, new, path, method) : c.kind \notin BreakingKinds
    BY <2>1, <2>2, <2>3, OperationIsWalked
  <2>5. \A c \in DiffResponses(location, {call}, old, new, before, after) :
          c.kind \notin BreakingKinds
    BY <2>4 DEF DiffOperation
  <2>6. \A event, where, value, calls :
          event \in {"removed", "property.removed", "property.type_changed"} =>
            Change("response", event, where, value, calls).kind \in BreakingKinds
    BY DEF Change, BreakingKinds
  <2> HIDE DEF old, new, before, after, location
  <2>7. ASSUME NEW code \in DOMAIN before PROVE code \in DOMAIN after
    <3>1. SUFFICES ASSUME code \notin DOMAIN after PROVE FALSE
      OBVIOUS
    <3>2. Change("response", "removed", at(code), NoValue, {call})
            \in DiffResponses(location, {call}, old, new, before, after)
      BY <2>7, <3>1 DEF DiffResponses
    <3> QED BY <2>5, <2>6, <3>2
  <2>8. ASSUME NEW code \in DOMAIN before,
               NEW n \in DOMAIN Properties(Resolve(old, before[code]))
        PROVE  /\ n \in DOMAIN Properties(Resolve(new, after[code]))
               /\ Type(Properties(Resolve(new, after[code]))[n])
                    = Type(Properties(Resolve(old, before[code]))[n])
    <3> DEFINE x == Resolve(old, before[code])
               y == Resolve(new, after[code])
               change(event) ==
                 Change("response", event, at(code) \o <<"properties", n>>, NoValue, {})
    <3>1. \A c \in DiffSchema(at(code), x, y, "response") : c.kind \notin BreakingKinds
      BY <2>5, <2>7 DEF DiffResponses
    <3>2. n \notin DOMAIN Properties(y) =>
            change("property.removed") \in DiffSchema(at(code), x, y, "response")
      BY DEF DiffSchema
    <3>3. n \in DOMAIN Properties(y) /\ Type(Properties(x)[n]) # Type(Properties(y)[n]) =>
            change("property.type_changed") \in DiffSchema(at(code), x, y, "response")
      BY DEF DiffSchema
    <3> QED BY <2>6, <3>1, <3>2, <3>3
  <2>9. Reads(old, path, method) \subseteq Reads(new, path, method)
    <3> SUFFICES ASSUME NEW code \in DOMAIN before,
                        NEW n \in DOMAIN Properties(Resolve(old, before[code]))
                 PROVE  <<code, n, Type(Properties(Resolve(old, before[code]))[n])>>
                          \in Reads(new, path, method)
      BY DEF Reads, before
    <3>1. code \in DOMAIN after
      BY <2>7
    <3>2. <<code, n, Type(Properties(Resolve(new, after[code]))[n])>>
            \in Reads(new, path, method)
      BY <2>8, <3>1 DEF Reads, after
    <3> QED BY <2>8, <3>2
  <2> QED BY <2>9 DEF old, new
<1> QED BY <1>1, StoredInvariant, PTL

\* A client's guide names each call of its own that breaks. Over HTTP the change
\* names the call, or nobody; an RPC is never found among the mined calls, so its
\* change is in all guides.
THEOREM GuidesNameAllThatBreaks == Spec => []GuidesNameWhatBreaks
<1>1. StoredInv => GuidesNameWhatBreaks
  <2> SUFFICES ASSUME StoredInv,
                      NEW row \in Default(Posted, "openapi") \cup Default(Posted, "proto"),
                      NEW e \in row.mined,
                      IF row.comparison.kind = "openapi"
                      THEN \E request \in ClientRequests :
                             /\ e.call = Call(request.method, <<request.path>>)
                             /\ Breaks(row, request)
                      ELSE RpcBreaks(row, e.call)
               PROVE  \E r \in GuideChanges(row, e.repo) :
                        r.verdict = "breaking" /\ Concerns(r, e.call)
    BY DEF GuidesNameWhatBreaks
  <2>1. /\ row \in Posted /\ row.comparison.rules = <<>>
        /\ row.comparison.kind \in {"openapi", "proto"}
    BY DEF Default
  <2>2. row.comparison \in Comparisons /\ row.mined \in Mined
    BY <2>1, PostedRows
  <2>3. SUFFICES \E c \in diff_contracts(row.comparison) :
                   /\ c.kind \in BreakingKinds
                   /\ \/ affected_clients(row.mined, c) = {}
                      \/ e.repo \in affected_clients(row.mined, c)
                   /\ Concerns([change |-> c], e.call)
    <3>1. PICK c \in diff_contracts(row.comparison) :
                   /\ c.kind \in BreakingKinds
                   /\ \/ affected_clients(row.mined, c) = {}
                      \/ e.repo \in affected_clients(row.mined, c)
                   /\ Concerns([change |-> c], e.call)
      BY <2>3
    <3>2. PICK r \in GuideChanges(row, e.repo) : r.verdict = "breaking" /\ r.change = c
      BY <2>1, <3>1, BreaksAreShown
    <3>3. Concerns(r, e.call)
      BY <3>1, <3>2 DEF Concerns
    <3> QED BY <3>2, <3>3
  <2>4. CASE row.comparison.kind = "openapi"
    <3>1. PICK request \in ClientRequests :
            /\ e.call = Call(request.method, <<request.path>>)
            /\ Breaks(row, request)
      BY <2>4
    <3>2. PICK c \in DiffOpenapi(Old(row), New(row)) : Tells(c, e.call)
      BY <3>1, BreaksAreTold DEF Breaks
    <3>3. c \in diff_contracts(row.comparison)
      BY <2>4 DEF diff_contracts, Old, New
    <3>4. c.calls = {} => affected_clients(row.mined, c) = {}
      BY DEF affected_clients
    <3>5. e.call \in c.calls => e.repo \in affected_clients(row.mined, c)
      BY DEF affected_clients
    <3> QED BY <3>2, <3>3, <3>4, <3>5 DEF Tells
  <2>5. CASE row.comparison.kind = "proto"
    <3> DEFINE old == Old(row)
               new == New(row)
    <3>1. PICK s, m : e.call = Call("RPC", <<s, m>>) /\ Lost(old, new, s, m)
      BY <2>5 DEF RpcBreaks, Lost
    <3>2. IsProtoContract(old) /\ IsProtoContract(new)
      BY <2>2, <2>5, SpecDiffAssumption DEF Old, New
    <3>3. PICK c \in DiffProto(old, new) : TellsOfRpc(c, s, m)
      <4> HIDE DEF old, new
      <4> QED BY <3>1, <3>2, RpcBreakIsReported
    <3>4. c \in diff_contracts(row.comparison)
      BY <2>5 DEF diff_contracts, Old, New
    <3>5. affected_clients(row.mined, c) = {}
      <4>1. Call("POST", <<s, m>>) \notin MinedCalls
        <5>1. /\ Call("POST", <<s, m>>).method = "POST"
              /\ Len(Call("POST", <<s, m>>).path) = 2
          BY DEF Call
        <5> QED BY <5>1, SpecDiffAssumption
      <4>2. \A r \in row.mined : r.call \in MinedCalls
        BY <2>2 DEF Mined
      <4>3. {r \in row.mined : r.call \in c.calls} = {}
        BY <3>3, <4>1, <4>2 DEF TellsOfRpc
      <4> QED BY <4>3 DEF affected_clients
    <3>6. Concerns([change |-> c], e.call)
      <4>1. e.call.path = <<s, m>> /\ e.call.path[1] = s
        BY <3>1 DEF Call
      <4> QED BY <3>3, <4>1 DEF Concerns, TellsOfRpc
    <3> QED BY <3>3, <3>4, <3>5, <3>6 DEF TellsOfRpc
  <2> QED BY <2>1, <2>4, <2>5
<1> QED BY <1>1, StoredInvariant, PTL

\* In a stored report the verdicts are those of Decided, however many custom rules
\* there are, with whatever ids.
THEOREM CustomRulesDecideAll == Spec => []CustomRulesDecide
<1>1. StoredInv => CustomRulesDecide
  <2> SUFFICES ASSUME StoredInv, NEW row \in Posted, NEW r \in row.report.changes
               PROVE  Decided(row.comparison.rules, r.change, r.verdict)
    BY DEF CustomRulesDecide
  <2> DEFINE rules == row.comparison.rules
  <2>1. row.report = ChangeReport(PostedRules(row.comparison), row.comparison, row.mined)
    BY PostedRows
  <2>2. r.verdict = classify(merge(load_default_rules, rules), r.change)
    BY <2>1 DEF ChangeReport, ChangeRecord, PostedRules
  <2>3. rules \in Seq(Range(rules))
    BY PostedRows, SpecDiffAssumption
  <2> HIDE DEF rules
  <2>4. Decided(rules, r.change, r.verdict)
    BY <2>2, <2>3, MergedDecides
  <2> QED BY <2>4 DEF rules
<1> QED BY <1>1, StoredInvariant, PTL
=============================================================================
