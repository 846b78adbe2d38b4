------------------------------- MODULE CiRuns -------------------------------
(***************************************************************************)
(* The ci_runs table of one pull request and the handlers of POST          *)
(* /ci/runs (apps/api/routes/ci.py). A handler looks the head SHA up       *)
(* without a lock, then commits an UPDATE of the columns that changed, or  *)
(* an INSERT, which the unique key may refuse. Nothing deletes a row.      *)
(***************************************************************************)
EXTENDS Integers, Sequences

CONSTANTS
  Shas,      \* head SHAs of the pull request
  Posts,     \* POST handlers that may be in flight at once
  CheckIds   \* GitHub check_run_ids; 0 is a check_run_id of None

ASSUME RunsAssumption == CheckIds \subseteq Nat \ {0}

VARIABLES
  rows,      \* the ci_runs table as inserted; the position stands for the id
  post       \* what each handler holds

runVars == <<rows, post>>

\* A plausible slip: an accepted break is reported as neutral.
ConclusionNeutral(breaking, bypass) ==
  IF ~breaking THEN "success" ELSE IF bypass THEN "neutral" ELSE "failure"

\* What the GitHub App concludes from a report.
Conclusion(breaking, bypass) ==
  IF breaking /\ ~bypass THEN "failure" ELSE "success"

\* report_json is reduced to whether its summary counts a breaking change.
\* base_sha is left out; it is one more column like the report.
Columns == {"breaking", "bypass", "conclusion", "check"}
Data == [breaking   : BOOLEAN,
         bypass     : BOOLEAN,
         conclusion : {"success", "failure"},
         check      : CheckIds \cup {0}]

\* A payload as its sender computed it.
Run(breaking, bypass, check) ==
  [breaking   |-> breaking,
   bypass     |-> bypass,
   conclusion |-> Conclusion(breaking, bypass),
   check      |-> check]

\* id is 0 when the handler found no row and is going to insert one.
IdlePost == [pc |-> "idle"]
OpenPosts == [pc : {"commit"}, id : Nat, sha : Shas, old : Data, new : Data]

RunsTypeOK ==
  /\ rows \in Seq([sha : Shas, data : Data])
  /\ post \in [Posts -> {IdlePost} \cup OpenPosts]

RunsInit ==
  /\ rows = <<>>
  /\ post = [p \in Posts |-> IdlePost]

Ids == 1..Len(rows)
Stored(sha) == \E id \in Ids : rows[id].sha = sha

\* The stored check_run_id is kept when the payload has none.
KeepCheck(data, old) ==
  IF data.check = 0 THEN [data EXCEPT !.check = old.check] ELSE data

\* The UPDATE names the columns that differ from those the handler read.
Merged(current, old, new) ==
  [column \in Columns |->
     IF new[column] # old[column] THEN new[column] ELSE current[column]]

-----------------------------------------------------------------------------
FindRun(p, sha, data) ==
  /\ post[p].pc = "idle"
  /\ \E id \in Ids :
       /\ rows[id].sha = sha
       /\ post' = [post EXCEPT ![p] =
            [pc |-> "commit", id |-> id, sha |-> sha, old |-> rows[id].data,
             new |-> KeepCheck(data, rows[id].data)]]
  /\ UNCHANGED rows

FindNothing(p, sha, data) ==
  /\ post[p].pc = "idle"
  /\ ~Stored(sha)
  /\ post' = [post EXCEPT ![p] =
       [pc |-> "commit", id |-> 0, sha |-> sha, old |-> data, new |-> data]]
  /\ UNCHANGED rows

\* A plausible slip: bypass_label_present is not assigned on the update path.
CommitUpdateKeepsLabel(p) ==
  /\ post[p].pc = "commit"
  /\ post[p].id # 0
  /\ LET old == post[p].old
         new == [post[p].new EXCEPT !.bypass = old.bypass]
     IN rows' = [rows EXCEPT ![post[p].id].data = Merged(@, old, new)]
  /\ post' = [post EXCEPT ![p] = IdlePost]

\* A plausible slip: nothing to update when the conclusion is the same.
CommitUpdateOfConclusion(p) ==
  /\ post[p].pc = "commit"
  /\ post[p].id # 0
  /\ rows' = [rows EXCEPT ![post[p].id].data =
                IF post[p].new.conclusion = post[p].old.conclusion
                THEN @ ELSE Merged(@, post[p].old, post[p].new)]
  /\ post' = [post EXCEPT ![p] = IdlePost]

CommitUpdate(p) ==
  /\ post[p].pc = "commit"
  /\ post[p].id # 0
  /\ rows' = [rows EXCEPT ![post[p].id].data =
                Merged(@, post[p].old, post[p].new)]
  /\ post' = [post EXCEPT ![p] = IdlePost]

CommitInsert(p) ==
  /\ post[p].pc = "commit"
  /\ post[p].id = 0
  /\ ~Stored(post[p].sha)
  /\ rows' = Append(rows, [sha |-> post[p].sha, data |-> post[p].new])
  /\ post' = [post EXCEPT ![p] = IdlePost]

\* uq_ci_runs_repo_pr_sha: the handler answers 409.
RefuseInsert(p) ==
  /\ post[p].pc = "commit"
  /\ post[p].id = 0
  /\ Stored(post[p].sha)
  /\ post' = [post EXCEPT ![p] = IdlePost]
  /\ UNCHANGED rows

\* The API process dies or loses the database: the transaction is lost.
LosePost(p) ==
  /\ post[p].pc = "commit"
  /\ post' = [post EXCEPT ![p] = IdlePost]
  /\ UNCHANGED rows

ReadRun(p, sha, data) == FindRun(p, sha, data) \/ FindNothing(p, sha, data)
EndPost(p) == CommitUpdate(p) \/ CommitInsert(p) \/ RefuseInsert(p)

\* Anybody may post: the App, the composite action, a retry of either.
RunsNext ==
  \E p \in Posts :
    \/ \E sha \in Shas, breaking, bypass \in BOOLEAN, check \in CheckIds \cup {0} :
         ReadRun(p, sha, Run(breaking, bypass, check))
    \/ EndPost(p)
    \/ LosePost(p)

RunsSpec == RunsInit /\ [][RunsNext]_runVars

-----------------------------------------------------------------------------
\* Any number of posts that overlap leave one row per head SHA, so the
\* scalar_one_or_none of the next post cannot fail.
OneRowPerSha ==
  \A i, j \in Ids : rows[i].sha = rows[j].sha => i = j

\* "The row's id is preserved so downstream references remain stable" (ci.py,
\* upsert_ci_run): no post removes a run or gives its id to another SHA.
RunsAreKept ==
  [][\A id \in Ids : id \in Ids' /\ rows'[id].sha = rows[id].sha]_runVars

\* The conclusion of a stored run is the one its report and label call for.
\* Only as long as posts for one SHA do not overlap.
VerdictFitsReport ==
  \A id \in Ids :
    LET data == rows[id].data
    IN data.conclusion = Conclusion(data.breaking, data.bypass)
=============================================================================
