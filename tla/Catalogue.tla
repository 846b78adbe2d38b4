----------------------------- MODULE Catalogue -----------------------------
(***************************************************************************)
(* What the guardian knows of the callers of an API: the call sites that   *)
(* "guardian mine" (apps/cli/main.py, mining/repo_scanner.py) stores of    *)
(* the clients' repositories, the endpoints that their traffic is counted  *)
(* under (traffic/url_match.py), and the join of a change with the call    *)
(* sites (guardian_diff/clients.py). All three name an operation by its    *)
(* method and path template, and must come to the same name for it.        *)
(*                                                                         *)
(* Scans read a checkout that is edited meanwhile, and overlap. Each is    *)
(* one transaction on PostgreSQL. A repository holds one file. What the    *)
(* visitors find in a file and what its calls do are parameters, for which *)
(* CallSites and ClientCalls have the definitions.                         *)
(***************************************************************************)
EXTENDS RouteTree

CONSTANTS
  Repos,        \* client repositories
  Files,        \* what may be checked out
  Scans,        \* processes that run the command
  Situations,   \* a first file, and the specification of the API
  Requests,     \* what clients may send: a method and a URL
  Ignored,      \* repositories checked out under an ignored directory's name
  Mined(_),     \* the call sites that the visitors find in a file
  Sent(_, _),   \* the requests that a call of a file makes when it runs
  MadeFor(_, _),  \* whether it is a call that the visitors are made for
  MaxEdits, MaxScans, MaxObserved   \* bounds

Operations(paths) ==
  UNION {[method : paths[i].methods, path : {paths[i].template}] : i \in DOMAIN paths}

Names(found, method, template) ==
  found.site.method = method /\ found.site.path_template = template

ASSUME CatalogueAssumption ==
  /\ \A s \in Situations :
       s.file \in Files /\ s.spec \in Seq([template : Paths, methods : SUBSET STRING])
  /\ \A request \in Requests : _strip_to_path(request.url) \in Paths
  /\ Ignored \subseteq Repos
  /\ MaxEdits \in Nat /\ MaxScans \in Nat /\ MaxObserved \in Nat

\* Of one file the visitors find the calls that they are made for, and what they
\* find besides is due to a call that they are not made for.
ASSUME VisitorsAssumption ==
  \A file \in Files : \A s \in Situations : \A op \in Operations(s.spec) :
    LET found == \E f \in Mined(file) : Names(f, op.method, op.path)
    IN /\ (\E call \in Range(file.calls) : MadeFor(file, call) /\ op \in Sent(file, call)) => found
       /\ found => \E call \in Range(file.calls) : op \in Sent(file, call) \/ ~MadeFor(file, call)

VARIABLES
  spec,                \* the latest specification; it does not move here
  checkout,            \* of each repository: its file and its HEAD
  scan,                \* what each process holds
  inferred_endpoints,  \* rows: repository, commit, and call site
  observed,            \* rows of the traffic: a request and its template
  edits, begun,        \* how often a checkout was edited, a scan begun
  scanned              \* history: what the scans that succeeded had read

tables == <<inferred_endpoints, observed>>
vars == <<spec, checkout, scan, tables, edits, begun, scanned>>

IdleScan == [pc |-> "idle"]

Init ==
  /\ \E s \in Situations :
       /\ spec = s.spec
       /\ checkout = [r \in Repos |-> [file |-> s.file, head |-> 0]]
  /\ scan = [p \in Scans |-> IdleScan]
  /\ inferred_endpoints = {}
  /\ observed = {}
  /\ edits = 0
  /\ begun = 0
  /\ scanned = {}

-----------------------------------------------------------------------------
\* The client changes its code, and commits it or not. Outside a repository
\* HEAD is "unknown" and never moves.
Edit(repo, file) ==
  /\ edits < MaxEdits
  /\ edits' = edits + 1
  /\ \E head \in {checkout[repo].head, edits + 1} :
       checkout' = [checkout EXCEPT ![repo] = [file |-> file, head |-> head]]
  /\ UNCHANGED <<spec, scan, tables, begun, scanned>>

\* The command looks HEAD up first.
DetectCommit(p, repo) ==
  /\ scan[p].pc = "idle"
  /\ begun < MaxScans
  /\ begun' = begun + 1
  /\ scan' = [scan EXCEPT ![p] =
       [pc |-> "mine", repo |-> repo, commit_sha |-> checkout[repo].head]]
  /\ UNCHANGED <<spec, checkout, tables, edits, scanned>>

\* Directories are ignored by any part of their path, that of the checkout
\* itself included.
mine_repo(repo, file) == IF repo \in Ignored THEN {} ELSE Mined(file)

\* Without a call site there is nothing to store, and no transaction.
MineRepo(p) ==
  /\ scan[p].pc = "mine"
  /\ LET repo  == scan[p].repo
         sites == mine_repo(repo, checkout[repo].file)
         read  == [repo |-> repo, commit_sha |-> scan[p].commit_sha,
                   file |-> checkout[repo].file]
     IN IF sites = {}
        THEN /\ scan' = [scan EXCEPT ![p] = IdleScan]
             /\ scanned' = scanned \cup {read}
        ELSE /\ scan' = [scan EXCEPT ![p] =
                  [pc |-> "lookup", read |-> read, sites |-> sites]]
             /\ UNCHANGED scanned
  /\ UNCHANGED <<spec, checkout, tables, edits, begun>>

Rows(read, sites) ==
  [repo : {read.repo}, commit_sha : {read.commit_sha}, found : sites]

\* Rows that are there already are skipped. The read takes no lock.
LookupRows(p) ==
  /\ scan[p].pc = "lookup"
  /\ scan' = [scan EXCEPT ![p] = [pc |-> "persist", read |-> @.read,
       new |-> Rows(@.read, @.sites) \ inferred_endpoints]]
  /\ UNCHANGED <<spec, checkout, tables, edits, begun, scanned>>

PersistRows(p) ==
  /\ scan[p].pc = "persist"
  /\ scan[p].new \cap inferred_endpoints = {}
  /\ inferred_endpoints' = inferred_endpoints \cup scan[p].new
  /\ scanned' = scanned \cup {scan[p].read}
  /\ scan' = [scan EXCEPT ![p] = IdleScan]
  /\ UNCHANGED <<spec, checkout, observed, edits, begun>>

\* The unique key is violated: nothing is stored and the command fails.
ScanConflict(p) ==
  /\ scan[p].pc = "persist"
  /\ scan[p].new \cap inferred_endpoints # {}
  /\ scan' = [scan EXCEPT ![p] = IdleScan]
  /\ UNCHANGED <<spec, checkout, tables, edits, begun, scanned>>

\* The file cannot be read or parsed, which is logged, or the process dies.
LoseScan(p) ==
  /\ scan[p].pc # "idle"
  /\ scan' = [scan EXCEPT ![p] = IdleScan]
  /\ UNCHANGED <<spec, checkout, tables, edits, begun, scanned>>

\* A record of the traffic is counted (module Ingest has the counting).
Observe(request) ==
  /\ Cardinality(observed) < MaxObserved
  /\ observed' = observed \cup
       {[request |-> request,
         path_template |-> normalize_observed_path(request.url, request.method,
                                                   build_route_tree(spec))]}
  /\ UNCHANGED <<spec, checkout, scan, inferred_endpoints, edits, begun, scanned>>

Next ==
  \/ \E repo \in Repos, file \in Files : Edit(repo, file)
  \/ \E p \in Scans :
       \/ \E repo \in Repos : DetectCommit(p, repo)
       \/ MineRepo(p)
       \/ LookupRows(p)
       \/ PersistRows(p)
       \/ ScanConflict(p)
       \/ LoseScan(p)
  \/ \E request \in Requests : Observe(request)

Spec == Init /\ [][Next]_vars

\* A plausible slip: the method is not compared.
AffectedByPath(method, template) ==
  {row.repo : row \in {r \in inferred_endpoints : r.found.site.path_template = template}}

\* The join of a change of one operation, whatever the commit.
affected_clients(method, template) ==
  {row.repo : row \in {r \in inferred_endpoints : Names(r.found, method, template)}}

-----------------------------------------------------------------------------
\* A change of an operation names the clients that call it, and no others: a
\* scan that succeeded stores every call of its file that the visitors are made
\* for, under the method and the path that it sends, whatever scans ran before,
\* beside it or failed; and a client is named only if some file that was scanned
\* once, under any commit, calls the operation or holds a call that the visitors
\* are not made for. What is checked out under an ignored name is not mined, and
\* RPCs are not joined at all (clients.py:57).
AffectedAreTheCallers ==
  \A op \in Operations(spec) : \A repo \in Repos \ Ignored :
    LET reads    == {read \in scanned : read.repo = repo}
        affected == repo \in affected_clients(op.method, op.path)
    IN /\ (\E read \in reads : \E call \in Range(read.file.calls) :
             MadeFor(read.file, call) /\ op \in Sent(read.file, call)) => affected
       /\ affected => \E read \in reads : \E call \in Range(read.file.calls) :
                        op \in Sent(read.file, call) \/ ~MadeFor(read.file, call)

\* A request is counted under the operation that serves it, a concrete path
\* before a templated one, and always under a template that fits its path;
\* unless a literal beside the template leads elsewhere (url_match.py:59) or two
\* templates differ in names only (url_match.py:49).
RoutesAreFound ==
  \A o \in observed :
    LET path == _strip_to_path(o.request.url)
    IN /\ Fits(o.path_template, path)
       /\ \A i \in Preferred(spec, Candidates(spec, o.request.method, path)) :
            Hides(spec, i, path) \/ Shares(spec, i) \/ o.path_template = spec[i].template
=============================================================================
