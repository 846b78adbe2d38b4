------------------------------ MODULE SpecDiff ------------------------------
(***************************************************************************)
(* POST /diff (apps/api/routes/diff.py), the command "guardian diff"       *)
(* (apps/cli/main.py), and what becomes of their reports: the changes      *)
(* between two contracts are classified by the rules and joined with the   *)
(* calls mined from the clients (guardian_diff/engine.py and clients.py).  *)
(* The route stores the report, for the gate of the GitHub App to look at  *)
(* its summary and a client's migration guide at its changes; the command  *)
(* is the gate of the GitHub action, by its exit code.                     *)
(***************************************************************************)
EXTENDS OpenApiDiff, ProtoDiff, RuleSet

CONSTANTS
  Comparisons,   \* bodies of POST /diff: kind, before, after, rules
  GateChecks,    \* runs of the command: a comparison and accept_breaking
  Repos,         \* client repositories
  MinedCalls,    \* calls the miner may find in one
  ClientRequests,\* HTTP requests a client may send
  MaxDiffs       \* posts and runs of the command

ASSUME SpecDiffAssumption ==
  /\ \A c \in Comparisons :
       /\ c.kind = "proto" => IsProtoContract(c.before) /\ IsProtoContract(c.after)
       /\ c.rules \in Seq(Range(c.rules))
  \* The path of a call over HTTP is one template, the name of an RPC has two parts.
  /\ \A call \in MinedCalls : Len(call.path) = 2 => call.method = "RPC"
  /\ GateChecks \subseteq [comparison : Comparisons, accept_breaking : BOOLEAN]
  /\ MaxDiffs \in Nat

VARIABLES
  inferred_endpoints,  \* rows the miner stored: a repository and a call
  contract_diffs,      \* the stored reports, in the order of the posts
  gate_runs            \* history: what the runs of the command came to

vars == <<inferred_endpoints, contract_diffs, gate_runs>>

Verdicts == {"additive", "behavioral", "breaking"}

-----------------------------------------------------------------------------
(* The report. A set stands for the list of its changes: no two of them    *)
(* agree in all they say.                                                  *)

diff_contracts(comparison) ==
  IF comparison.kind = "openapi"
  THEN DiffOpenapi(comparison.before, comparison.after)
  ELSE DiffProto(comparison.before, comparison.after)

\* The documents are finite, and so is the list of their differences.
ASSUME ReportsAreFinite == \A c \in Comparisons : IsFiniteSet(diff_contracts(c))

affected_clients(endpoints, change) ==
  {e.repo : e \in {r \in endpoints : r.call \in change.calls}}

ChangeRecord(rules, endpoints, change) ==
  [verdict |-> classify(rules, change),
   affected_clients |-> affected_clients(endpoints, change),
   change |-> change]

Summary(records) ==
  [v \in Verdicts |-> Cardinality({r \in records : r.verdict = v})]

ChangeReport(rules, comparison, endpoints) ==
  LET records == {ChangeRecord(rules, endpoints, c) : c \in diff_contracts(comparison)}
  IN [changes |-> records, summary |-> Summary(records)]

\* The route puts the custom rules over the default ones; the command takes
\* them instead.
PostedRules(comparison) == merge(load_default_rules, comparison.rules)
GateRules(comparison) ==
  IF comparison.rules = <<>> THEN load_default_rules ELSE comparison.rules

\* The GitHub App fails the check of a report with a breaking change, and the
\* command exits with 2, unless breaking changes are accepted.
Passes(report) == report.summary["breaking"] = 0
ExitCode(report, accept_breaking) == IF Passes(report) \/ accept_breaking THEN 0 ELSE 2

\* A plausible slip: a client is shown only what names it.
GuideChangesNamed(row, client) ==
  {r \in row.report.changes :
     r.verdict \in {"behavioral", "breaking"} /\ client \in r.affected_clients}

\* What GuideService shows the language model of a report for one client. A
\* change that names no clients may concern anyone.
GuideChanges(row, client) ==
  {r \in row.report.changes :
     /\ r.verdict \in {"behavioral", "breaking"}
     /\ r.affected_clients = {} \/ client \in r.affected_clients}

-----------------------------------------------------------------------------
Init ==
  /\ inferred_endpoints = {}
  /\ contract_diffs = <<>>
  /\ gate_runs = {}

\* persist_call_sites only ever adds rows. Calls of older commits stay.
PersistCallSites(repo, calls) ==
  /\ inferred_endpoints' = inferred_endpoints \cup [repo : {repo}, call : calls]
  /\ UNCHANGED <<contract_diffs, gate_runs>>

\* The request is handled in one transaction. What was posted, and what was
\* mined by then, are history. Requests that are answered 400 or 422 store nothing.
PostDiff(comparison) ==
  /\ Len(contract_diffs) + Cardinality(gate_runs) < MaxDiffs
  /\ contract_diffs' =
       Append(contract_diffs,
              [comparison |-> comparison, mined |-> inferred_endpoints,
               report |-> ChangeReport(PostedRules(comparison), comparison,
                                       inferred_endpoints)])
  /\ UNCHANGED <<inferred_endpoints, gate_runs>>

\* The command stores nothing. Without a database it names no clients.
GuardianDiff(check) ==
  /\ Len(contract_diffs) + Cardinality(gate_runs) < MaxDiffs
  /\ \E endpoints \in {inferred_endpoints, {}} :
       LET comparison == check.comparison
           report == ChangeReport(GateRules(comparison), comparison, endpoints)
       IN gate_runs' = gate_runs \cup
            {[comparison |-> comparison, mined |-> endpoints, report |-> report,
              accept_breaking |-> check.accept_breaking,
              exit_code |-> ExitCode(report, check.accept_breaking)]}
  /\ UNCHANGED <<inferred_endpoints, contract_diffs>>

Next ==
  \/ \E repo \in Repos, calls \in SUBSET MinedCalls : PersistCallSites(repo, calls)
  \/ \E comparison \in Comparisons : PostDiff(comparison)
  \/ \E check \in GateChecks : GuardianDiff(check)

Spec == Init /\ [][Next]_vars

Posted == {contract_diffs[i] : i \in DOMAIN contract_diffs}

-----------------------------------------------------------------------------
(* What a report promises. Custom rules may say anything, so the gate is   *)
(* judged by the reports made with the default rules.                      *)

Default(rows, kind) ==
  {row \in rows : row.comparison.kind = kind /\ row.comparison.rules = <<>>}

\* What a gate let pass, and nobody accepted.
Passed(kind) ==
  Default({row \in Posted : Passes(row.report)}
            \cup {run \in gate_runs : run.exit_code = 0 /\ ~run.accept_breaking}, kind)

Old(row) == row.comparison.before
New(row) == row.comparison.after

\* A request that the new specification turns away, although a client wrote it
\* to the old one, and nothing of it lies in a blind spot of the walker.
Breaks(row, request) ==
  /\ Sends(Old(row), request)
  /\ ~Accepts(New(row), request)
  /\ Call(request.method, <<request.path>>) \in Served(New(row)) =>
       SeesBody(Old(row), New(row), request.path, request.method)

\* The deploy gate is sound for requests: as long as no change is breaking,
\* the server that follows accepts all that the clients before it sent. This
\* relates the walkers, the verdicts and the meaning of a specification.
OpenGateKeepsRequests ==
  \A row \in Passed("openapi") : \A request \in ClientRequests : ~Breaks(row, request)

\* It is sound for answers as well: a property that clients read from the answer
\* with some status is still there, under that status and with its type.
OpenGateKeepsReaders ==
  \A row \in Passed("openapi") :
    \A path \in DOMAIN Old(row).paths :
      \A method \in DOMAIN Old(row).paths[path] :
        Reads(Old(row), path, method) \subseteq Reads(New(row), path, method)

\* And for protobuf: what was encoded under the old messages decodes to the
\* same values. It fails for exactly one reason, a field that takes the number
\* of another field, which is reported as renamed, although proto.py:135-140
\* says that its move was reported.
OpenGateKeepsPayloads ==
  \A row \in Passed("proto") :
    \A name \in DOMAIN Old(row).messages :
      /\ name \in DOMAIN New(row).messages
      /\ LET before == Old(row).messages[name]
             after == New(row).messages[name]
         IN DecodesAlike(before, after) \/ MovesOntoUsedNumber(before, after)

\* No difference between two protobuf contracts goes without any change, neither
\* in a stored report nor in one that the command prints: no message, field,
\* label, type, number, service or method (proto.py:105-290).
NoChangeIsSilent ==
  \A row \in Posted \cup gate_runs :
    row.comparison.kind = "proto" /\ row.report.changes = {} => Old(row) = New(row)

\* Where a record says that a call broke: at its operation, its path or a
\* component; at its RPC or its service.
Concerns(record, call) ==
  LET location == record.change.location
  IN \/ /\ location[1] = "paths"
        /\ location[2] = call.path[1]
        /\ Len(location) > 2 => location[3] = call.method
     \/ location[1] = "components"
     \/ location[1] = "services" /\ location[2] = call.path[1]
     \/ record.change.kind[1] = "proto.rpc" /\ location = call.path

RpcBreaks(row, call) ==
  \E s \in DOMAIN Old(row).services : \E m \in DOMAIN Old(row).services[s] :
    /\ call = Call("RPC", <<s, m>>)
    /\ s \in DOMAIN New(row).services =>
         m \notin DOMAIN New(row).services[s]
           \/ New(row).services[s][m] # Old(row).services[s][m]

\* A client's guide tells it of every call of its own that breaks, if the call
\* was mined when the report was made: the join with the mined calls, which
\* most kinds of change escape, and the filter of the guide leave out no such
\* change.
GuidesNameWhatBreaks ==
  \A row \in Default(Posted, "openapi") \cup Default(Posted, "proto") :
    \A e \in row.mined :
      (IF row.comparison.kind = "openapi"
       THEN \E request \in ClientRequests :
              /\ e.call = Call(request.method, <<request.path>>)
              /\ Breaks(row, request)
       ELSE RpcBreaks(row, e.call))
      => \E r \in GuideChanges(row, e.repo) :
           r.verdict = "breaking" /\ Concerns(r, e.call)

\* The place of a default rule with the one id is before that with the other.
Earlier(id, other) ==
  \E a, b \in DOMAIN load_default_rules :
    a < b /\ load_default_rules[a].id = id /\ load_default_rules[b].id = other

\* What custom rules, of which the last with an id counts, may make of a change.
Decided(custom, change, verdict) ==
  LET live == {i \in DOMAIN custom :
                 \A j \in DOMAIN custom : j > i => custom[j].id # custom[i].id}
      taken == \E i \in live : custom[i].id = change.kind
      hits == {i \in live : /\ Matches(custom[i], change)
                            /\ taken \/ ~Earlier(custom[i].id, change.kind)}
  IN IF hits # {} THEN \E i \in hits : verdict = custom[i].verdict
     ELSE IF taken THEN verdict = "behavioral"
     ELSE verdict = classify(load_default_rules, change)

\* Custom rules decide on the changes they match: all of them if the id of the
\* default rule is taken, else those that come after it. What they do not match
\* keeps the verdict of the default rule, unless its id was taken: then nothing
\* classifies the change, and a breaking one passes the gate.
CustomRulesDecide ==
  \A row \in Posted : \A r \in row.report.changes :
    Decided(row.comparison.rules, r.change, r.verdict)
=============================================================================
