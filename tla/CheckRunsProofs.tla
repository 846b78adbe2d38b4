-------------------------- MODULE CheckRunsProofs --------------------------
(***************************************************************************)
(* Theorems about CiRuns, for any number of posts, head SHAs and check     *)
(* runs, and on top of them about CheckRuns, for any number of handlers,   *)
(* webhooks, heads and failures.                                           *)
(***************************************************************************)
EXTENDS CheckRuns, SequenceTheorems, TLAPS

\* An open post that found a row still has it under the same id.
PostsRefer ==
  \A p \in Posts : post[p].pc = "commit" /\ post[p].id # 0 =>
    /\ post[p].id \in Ids
    /\ rows[post[p].id].sha = post[p].sha

RunsInv == RunsTypeOK /\ OneRowPerSha /\ PostsRefer

\* Merging two rows column by column yields a row.
LEMMA MergedType ==
  ASSUME NEW current \in Data, NEW old \in Data, NEW new \in Data
  PROVE  Merged(current, old, new) \in Data
BY DEF Merged, Data, Columns

LEMMA RunType ==
  ASSUME NEW breaking \in BOOLEAN, NEW bypass \in BOOLEAN,
         NEW check \in CheckIds \cup {0}
  PROVE  Run(breaking, bypass, check) \in Data
BY DEF Run, Data, Conclusion

LEMMA KeepCheckType ==
  ASSUME NEW data \in Data, NEW old \in Data
  PROVE  KeepCheck(data, old) \in Data
BY DEF KeepCheck, Data

-----------------------------------------------------------------------------
LEMMA RowType ==
  ASSUME RunsInv, NEW id \in Ids
  PROVE  /\ id \in 1..Len(rows)
         /\ rows[id] \in [sha : Shas, data : Data]
         /\ rows[id].data \in Data
<1> DEFINE Row == [sha : Shas, data : Data]
<1>1. rows \in Seq(Row) /\ id \in 1..Len(rows)
  BY DEF RunsInv, RunsTypeOK, Ids
<1>2. rows[id] \in Row
  <2> HIDE DEF Row
  <2> QED
    BY <1>1, ElementOfSeq
<1> QED
  BY <1>1, <1>2

LEMMA InitRunsInv == RunsInit => RunsInv
BY DEF RunsInit, RunsInv, RunsTypeOK, OneRowPerSha, PostsRefer, IdlePost, Ids

LEMMA ReadRunKeepsInv ==
  ASSUME RunsInv, NEW p \in Posts, NEW sha \in Shas, NEW data \in Data,
         ReadRun(p, sha, data)
  PROVE  RunsInv'
<1>1. CASE FindRun(p, sha, data)
  <2> PICK id \in Ids :
        /\ rows[id].sha = sha
        /\ post' = [post EXCEPT ![p] =
             [pc |-> "commit", id |-> id, sha |-> sha, old |-> rows[id].data,
              new |-> KeepCheck(data, rows[id].data)]]
    BY <1>1 DEF FindRun
  <2>1. rows' = rows
    BY <1>1 DEF FindRun
  <2>2. rows[id].data \in Data /\ id \in Nat
    BY RowType
  <2>3. KeepCheck(data, rows[id].data) \in Data
    BY <2>2, KeepCheckType
  <2> QED
    BY <2>1, <2>2, <2>3
       DEF RunsInv, RunsTypeOK, OneRowPerSha, PostsRefer, OpenPosts, IdlePost, Ids
<1>2. CASE FindNothing(p, sha, data)
  BY <1>2 DEF FindNothing, RunsInv, RunsTypeOK, OneRowPerSha, PostsRefer,
              OpenPosts, IdlePost, Ids
<1> QED
  BY <1>1, <1>2 DEF ReadRun

LEMMA EndPostKeepsInv ==
  ASSUME RunsInv, NEW p \in Posts, EndPost(p) \/ LosePost(p)
  PROVE  RunsInv'
<1> DEFINE q == post[p]
<1>1. CASE CommitUpdate(p)
  <2>1. /\ q \in OpenPosts /\ q.id \in Ids
        /\ rows' = [rows EXCEPT ![q.id].data = Merged(@, q.old, q.new)]
        /\ post' = [post EXCEPT ![p] = IdlePost]
    BY <1>1 DEF CommitUpdate, RunsInv, RunsTypeOK, PostsRefer, IdlePost
  <2>2. Merged(rows[q.id].data, q.old, q.new) \in Data
    BY <2>1, MergedType, RowType DEF OpenPosts
  <2>3. [rows[q.id] EXCEPT !.data = Merged(@, q.old, q.new)]
          \in [sha : Shas, data : Data]
    BY <2>1, <2>2, RowType
  <2>4. /\ rows' \in Seq([sha : Shas, data : Data])
        /\ Len(rows') = Len(rows)
        /\ \A id \in Ids : rows'[id].sha = rows[id].sha
    BY <2>1, <2>3 DEF RunsInv, RunsTypeOK, Ids
  <2> QED
    BY <2>1, <2>4 DEF RunsInv, RunsTypeOK, OneRowPerSha, PostsRefer, IdlePost, Ids
<1>2. CASE CommitInsert(p)
  <2>1. /\ q \in OpenPosts /\ ~Stored(q.sha)
        /\ rows' = Append(rows, [sha |-> q.sha, data |-> q.new])
        /\ post' = [post EXCEPT ![p] = IdlePost]
    BY <1>2 DEF CommitInsert, RunsInv, RunsTypeOK, IdlePost
  <2>2. /\ rows' \in Seq([sha : Shas, data : Data])
        /\ Len(rows') = Len(rows) + 1
        /\ \A id \in Ids : rows'[id] = rows[id]
        /\ rows'[Len(rows) + 1].sha = q.sha
    BY <2>1 DEF RunsInv, RunsTypeOK, OpenPosts, Ids
  <2>3. OneRowPerSha'
    BY <2>1, <2>2 DEF RunsInv, RunsTypeOK, OneRowPerSha, Stored, Ids
  <2> QED
    BY <2>1, <2>2, <2>3 DEF RunsInv, RunsTypeOK, PostsRefer, IdlePost, Ids
<1>3. CASE RefuseInsert(p) \/ LosePost(p)
  BY <1>3 DEF RefuseInsert, LosePost, RunsInv, RunsTypeOK, OneRowPerSha,
              PostsRefer, IdlePost, Ids
<1> QED
  BY <1>1, <1>2, <1>3 DEF EndPost

\* A run as its sender computed it is posted.
RunPosted ==
  \E p \in Posts, sha \in Shas, data \in Data :
    /\ data.conclusion = Conclusion(data.breaking, data.bypass)
    /\ ReadRun(p, sha, data)

LEMMA NextCases ==
  ASSUME RunsNext
  PROVE  RunPosted \/ \E p \in Posts : EndPost(p) \/ LosePost(p)
<1> PICK p \in Posts :
      \/ \E sha \in Shas, breaking, bypass \in BOOLEAN,
            check \in CheckIds \cup {0} :
           ReadRun(p, sha, Run(breaking, bypass, check))
      \/ EndPost(p)
      \/ LosePost(p)
  BY DEF RunsNext
<1>1. ASSUME NEW sha \in Shas, NEW breaking \in BOOLEAN, NEW bypass \in BOOLEAN,
             NEW check \in CheckIds \cup {0},
             ReadRun(p, sha, Run(breaking, bypass, check))
      PROVE  RunPosted
  <2> DEFINE data == Run(breaking, bypass, check)
  <2>1. data \in Data
    BY RunType
  <2>2. data.conclusion = Conclusion(data.breaking, data.bypass)
    BY DEF Run
  <2> QED
    BY <1>1, <2>1, <2>2 DEF RunPosted
<1> QED
  BY <1>1

LEMMA NextRunsInv == RunsInv /\ [RunsNext]_runVars => RunsInv'
<1> SUFFICES ASSUME RunsInv, [RunsNext]_runVars PROVE RunsInv'
  OBVIOUS
<1>1. CASE UNCHANGED runVars
  BY <1>1 DEF runVars, RunsInv, RunsTypeOK, OneRowPerSha, PostsRefer, Ids
<1>2. CASE RunsNext
  BY <1>2, NextCases, ReadRunKeepsInv, EndPostKeepsInv DEF RunPosted
<1> QED
  BY <1>1, <1>2

\* However posts overlap, fail or are retried, there is one row per head SHA:
\* the unique key of ci_runs and the 409 of upsert_ci_run.
THEOREM OneRunPerSha == RunsSpec => [](RunsTypeOK /\ OneRowPerSha)
<1>1. RunsInv => RunsTypeOK /\ OneRowPerSha
  BY DEF RunsInv
<1> QED
  BY <1>1, InitRunsInv, NextRunsInv, PTL DEF RunsSpec

\* No post removes a run or gives its id to another head SHA (upsert_ci_run,
\* "the row's id is preserved").
THEOREM RunsStay == RunsSpec => RunsAreKept
<1> DEFINE Step == \A id \in Ids : id \in Ids' /\ rows'[id].sha = rows[id].sha
<1>1. RunsInv /\ [RunsNext]_runVars => [Step]_runVars
  <2> SUFFICES ASSUME RunsInv, RunsNext PROVE Step
    OBVIOUS
  <2>1. ASSUME NEW p \in Posts, NEW sha \in Shas, NEW data \in Data,
               ReadRun(p, sha, data)
        PROVE  Step
    BY <2>1 DEF ReadRun, FindRun, FindNothing, Ids
  <2>2. ASSUME NEW p \in Posts, EndPost(p) \/ LosePost(p)
        PROVE  Step
    <3>1. CASE CommitUpdate(p)
      BY <3>1 DEF CommitUpdate, RunsInv, RunsTypeOK, PostsRefer, Ids
    <3>2. CASE CommitInsert(p)
      BY <3>2 DEF CommitInsert, RunsInv, RunsTypeOK, Ids
    <3>3. CASE RefuseInsert(p) \/ LosePost(p)
      BY <3>3 DEF RefuseInsert, LosePost, Ids
    <3> QED
      BY <2>2, <3>1, <3>2, <3>3 DEF EndPost
  <2> QED
    BY <2>1, <2>2, NextCases DEF RunPosted
<1> QED
  BY <1>1, InitRunsInv, NextRunsInv, PTL DEF RunsSpec, RunsAreKept

-----------------------------------------------------------------------------
(* Posts that do not overlap.                                              *)

SerialPosts == \A p, q \in Posts : p = q

Fits(data) == data.conclusion = Conclusion(data.breaking, data.bypass)

\* A pending post holds the current row and is going to write a fitting one.
VerdictInv ==
  /\ VerdictFitsReport
  /\ \A p \in Posts : post[p].pc = "commit" =>
       /\ Fits(post[p].new)
       /\ post[p].id # 0 => post[p].old = rows[post[p].id].data

\* An update computed from the current row stores what was sent.
LEMMA MergeOfCurrent ==
  ASSUME NEW old \in Data, NEW new \in Data
  PROVE  Merged(old, old, new) = new
BY DEF Merged, Data, Columns

LEMMA NextVerdictInv ==
  ASSUME SerialPosts, RunsInv, VerdictInv, [RunsNext]_runVars
  PROVE  VerdictInv'
<1>1. CASE UNCHANGED runVars
  BY <1>1 DEF runVars, VerdictInv, VerdictFitsReport, Ids
<1>2. ASSUME NEW p \in Posts, NEW sha \in Shas, NEW data \in Data, Fits(data),
             ReadRun(p, sha, data)
      PROVE  VerdictInv'
  <2>1. \A q \in Posts : q = p
    BY DEF SerialPosts
  <2>2. rows' = rows
    BY <1>2 DEF ReadRun, FindRun, FindNothing
  <2>3. post' = [post EXCEPT ![p] = post'[p]]
    BY <1>2 DEF ReadRun, FindRun, FindNothing, RunsInv, RunsTypeOK
  <2>4. Fits(post'[p].new)
    <3>1. CASE FindRun(p, sha, data)
      <4>1. PICK id \in Ids : post'[p].new = KeepCheck(data, rows[id].data)
        BY <3>1 DEF FindRun, RunsInv, RunsTypeOK
      <4> QED
        BY <1>2, <4>1 DEF Fits, KeepCheck, Data
    <3>2. CASE FindNothing(p, sha, data)
      BY <1>2, <3>2 DEF FindNothing, RunsInv, RunsTypeOK
    <3> QED
      BY <1>2, <3>1, <3>2 DEF ReadRun
  <2>5. post'[p].id # 0 => post'[p].old = rows[post'[p].id].data
    BY <1>2 DEF ReadRun, FindRun, FindNothing, RunsInv, RunsTypeOK
  <2> QED
    BY <2>1, <2>2, <2>4, <2>5 DEF VerdictInv, VerdictFitsReport, Ids
<1>3. ASSUME NEW p \in Posts, EndPost(p) \/ LosePost(p)
      PROVE  VerdictInv'
  <2>1. \A q \in Posts : post'[q].pc = "idle"
    BY <1>3 DEF SerialPosts, EndPost, CommitUpdate, CommitInsert, RefuseInsert,
                LosePost, RunsInv, RunsTypeOK, IdlePost
  <2>2. \A id \in Ids' : Fits(rows'[id].data)
    <3> DEFINE q == post[p]
    <3>1. CASE CommitUpdate(p)
      <4>1. /\ q \in OpenPosts /\ q.id \in Ids
            /\ rows' = [rows EXCEPT ![q.id].data = Merged(@, q.old, q.new)]
        BY <3>1 DEF CommitUpdate, RunsInv, RunsTypeOK, PostsRefer, IdlePost
      <4>2. Merged(rows[q.id].data, q.old, q.new) = q.new
        BY <3>1, <4>1, MergeOfCurrent DEF CommitUpdate, VerdictInv, OpenPosts
      <4>3. rows' = [rows EXCEPT ![q.id] = [rows[q.id] EXCEPT !.data = q.new]]
        BY <4>1, <4>2
      <4>4. [rows[q.id] EXCEPT !.data = q.new].data = q.new
        BY <4>1, RowType
      <4>5. DOMAIN rows = Ids /\ Len(rows) \in Nat
        BY DEF RunsInv, RunsTypeOK, Ids
      <4>6. DOMAIN rows' = Ids
        BY <4>3, <4>5
      <4>7. rows' \in Seq([sha : Shas, data : Data])
        BY NextRunsInv DEF RunsInv, RunsTypeOK
      <4>8. Ids' = Ids
        BY <4>6, <4>7 DEF Ids
      <4>9. ASSUME NEW id \in Ids
            PROVE  Fits(rows'[id].data)
        <5>1. CASE id = q.id
          <6>1. rows'[id] = [rows[q.id] EXCEPT !.data = q.new]
            BY <4>3, <4>5, <4>9, <5>1
          <6>2. rows'[id].data = q.new
            BY <4>4, <6>1
          <6>3. Fits(q.new)
            BY <3>1 DEF CommitUpdate, VerdictInv
          <6> QED
            BY <6>2, <6>3
        <5>2. CASE id # q.id
          BY <4>3, <4>5, <4>9, <5>2 DEF VerdictInv, VerdictFitsReport, Fits
        <5> QED
          BY <5>1, <5>2
      <4> QED
        BY <4>8, <4>9
    <3>2. CASE CommitInsert(p)
      <4>1. /\ Ids' = 1..(Len(rows) + 1)
            /\ \A id \in Ids : rows'[id] = rows[id]
            /\ rows'[Len(rows) + 1].data = q.new
        BY <3>2 DEF CommitInsert, RunsInv, RunsTypeOK, Ids
      <4>2. \A id \in Ids' : id \in Ids \/ id = Len(rows) + 1
        BY <4>1 DEF RunsInv, RunsTypeOK, Ids
      <4> QED
        BY <3>2, <4>1, <4>2 DEF CommitInsert, VerdictInv, VerdictFitsReport, Fits
    <3>3. CASE RefuseInsert(p) \/ LosePost(p)
      BY <3>3 DEF RefuseInsert, LosePost, VerdictInv, VerdictFitsReport, Fits, Ids
    <3> QED
      BY <1>3, <3>1, <3>2, <3>3 DEF EndPost
  <2> QED
    BY <2>1, <2>2 DEF VerdictInv, VerdictFitsReport, Fits
<1> QED
  BY <1>1, <1>2, <1>3, NextCases DEF RunPosted, Fits

\* When posts do not overlap, failed and repeated ones included, the stored
\* conclusion is the one the stored report and label call for.
THEOREM SerialRunsAreConsistent ==
  ASSUME SerialPosts
  PROVE  RunsSpec => []VerdictFitsReport
<1>1. RunsInit => VerdictInv
  BY DEF RunsInit, VerdictInv, VerdictFitsReport, IdlePost, Ids
<1>2. RunsInv /\ VerdictInv /\ [RunsNext]_runVars => VerdictInv'
  BY NextVerdictInv
<1>3. VerdictInv => VerdictFitsReport
  BY DEF VerdictInv
<1> QED
  BY <1>1, <1>2, <1>3, InitRunsInv, NextRunsInv, PTL DEF RunsSpec

-----------------------------------------------------------------------------
\* What follows is about CheckRuns.

\* The check_run_id of GitHub is any positive number.
AnyCheckId == CheckIds = Nat \ {0}

\* States of a handler that has created its check run, and of one that has not
\* completed it.
Checking == {"diff", "complete", "crashed", "comment", "persist", "posted"}
Uncompleted == {"diff", "complete", "crashed"}

\* A handler has a check run of its head for itself; until it completes it,
\* nobody does, and then it shows the handler's verdict.
OwnsCheck(h) ==
  handler[h].pc \in Checking =>
    /\ handler[h].check \in DOMAIN checks
    /\ checks[handler[h].check].sha = handler[h].head
    /\ checks[handler[h].check].status =
         IF handler[h].pc \in Uncompleted THEN "in_progress" ELSE Verdict(h).conclusion

Apart(g, h) ==
  handler[g].pc \in Checking /\ handler[h].pc \in Checking =>
    handler[g].check # handler[h].check

HandlersOwnChecks ==
  /\ \A h \in Posts : OwnsCheck(h)
  /\ \A g, h \in Posts : g # h => Apart(g, h)

\* A check run of a head that shows a verdict.
Names(sha, check) ==
  /\ check \in DOMAIN checks
  /\ checks[check].sha = sha
  /\ checks[check].status \in {"success", "failure"}

\* Rows, and posts on their way, name such check runs only.
RunsNameChecks ==
  /\ \A id \in Ids : Names(rows[id].sha, rows[id].data.check)
  /\ \A p \in Posts : post[p].pc = "commit" =>
       /\ Names(post[p].sha, post[p].new.check)
       /\ Fits(post[p].new)

Agrees(data) == checks[data.check].status = data.conclusion

\* Without overlap one handler is at work, its post holds the current row, and
\* what is stored or sent is the verdict of the check run.
SerialInv == ~mixed =>
  /\ \A g, h \in Posts : IsBusy(g) /\ IsBusy(h) => g = h
  /\ \A id \in Ids : Fits(rows[id].data) /\ Agrees(rows[id].data)
  /\ \A p \in Posts : post[p].pc = "commit" =>
       /\ Agrees(post[p].new)
       /\ IF post[p].id = 0 THEN ~Stored(post[p].sha)
          ELSE post[p].old = rows[post[p].id].data

TypeInv == TypeOK /\ RunsInv

SafeInv == TypeInv /\ HandlersOwnChecks /\ RunsNameChecks /\ SerialInv

-----------------------------------------------------------------------------
\* Heads without a specification are not checked.
SpecsAreChecked ==
  /\ \A i \in DOMAIN checks : checks[i].sha \notin SpeclessShas
  /\ \A h \in Posts : handler[h].pc \notin {"idle", "fetch"} =>
       handler[h].head \notin SpeclessShas

StoredAs(sha, check) == \E id \in Ids : rows[id].sha = sha /\ rows[id].data.check = check

\* The check run is crashed, or it is the right one and stored.
IsSettled(i) ==
  \/ checks[i].status = "action_required"
  \/ /\ checks[i].status = Conclusion(pull.head \in BreakingShas, pull.bypass)
     /\ StoredAs(pull.head, i)

\* Without overlap the last webhook, or the handler that has it, holds the
\* current pull request and creates the newest check run.
LatestIsCurrent == ~mixed =>
  /\ webhooks # <<>> => webhooks[Len(webhooks)] = pull
  /\ \A h \in Posts : webhooks = <<>> /\ handler[h].pc # "idle" =>
       handler[h].head = pull.head /\ handler[h].bypass = pull.bypass
  /\ \A h \in Posts : handler[h].pc \in Checking => handler[h].check = Len(checks)

\* Without failures a post is awaited by its handler, which leaves a settled check.
NothingIsLost == ~mixed /\ faults = 0 =>
  /\ \A h \in Posts : post[h].pc # "idle" =>
       /\ handler[h].pc = "posted"
       /\ post[h].sha = handler[h].head
       /\ post[h].new.check = handler[h].check
  /\ \A h \in Posts : handler[h].pc = "posted" /\ post[h].pc = "idle" =>
       StoredAs(handler[h].head, handler[h].check)
  /\ webhooks = <<>> /\ (\A h \in Posts : handler[h].pc = "idle") =>
       \A i \in NewestCheck(pull.head) : IsSettled(i)

QuietInv == SpecsAreChecked /\ LatestIsCurrent /\ NothingIsLost

-----------------------------------------------------------------------------
(* What the steps do to a handler and to the check runs.                   *)

CheckRun == [sha : Shas, status : Statuses]

LEMMA HandlerType ==
  ASSUME TypeOK, NEW h \in Posts, handler[h].pc # "idle"
  PROVE  /\ handler[h] \in Handlers
         /\ handler[h].head \in Shas
         /\ handler[h].bypass \in BOOLEAN
         /\ handler[h].check \in Nat
         /\ Verdict(h).conclusion \in {"success", "failure"}
BY DEF TypeOK, IdleHandler, Handlers, Verdict, Run, Conclusion

LEMMA Advance ==
  ASSUME TypeOK, NEW h \in Posts, handler[h].pc # "idle", NEW to,
         handler' = [handler EXCEPT ![h].pc = to]
  PROVE  /\ handler'[h] = [handler[h] EXCEPT !.pc = to]
         /\ handler'[h].pc = to
         /\ handler'[h].head = handler[h].head
         /\ handler'[h].bypass = handler[h].bypass
         /\ handler'[h].check = handler[h].check
         /\ \A g \in Posts : g # h => handler'[g] = handler[g]
BY HandlerType DEF TypeOK, Handlers

LEMMA Leave ==
  ASSUME TypeOK, NEW h \in Posts, Return(h)
  PROVE  /\ handler'[h] = IdleHandler
         /\ handler'[h].pc = "idle"
         /\ \A g \in Posts : g # h => handler'[g] = handler[g]
BY DEF TypeOK, Return, IdleHandler

LEMMA AddCheck ==
  ASSUME NEW c \in Seq(CheckRun), NEW x \in CheckRun, NEW d, d = Append(c, x)
  PROVE  /\ d \in Seq(CheckRun)
         /\ Len(d) = Len(c) + 1
         /\ \A j \in DOMAIN c : j \in DOMAIN d /\ d[j] = c[j] /\ j <= Len(c)
         /\ Len(c) + 1 \in DOMAIN d
         /\ d[Len(c) + 1] = x
         /\ \A j \in DOMAIN d : j \in DOMAIN c \/ j = Len(c) + 1
BY DEF CheckRun

LEMMA ChecksType ==
  ASSUME TypeOK
  PROVE  /\ checks \in Seq(CheckRun)
         /\ Len(checks) \in Nat
         /\ DOMAIN checks = 1..Len(checks)
         /\ \A i \in DOMAIN checks : checks[i] \in CheckRun
<1>1. checks \in Seq(CheckRun)
  BY DEF TypeOK, CheckRun
<1> QED
  BY <1>1, ElementOfSeq

-----------------------------------------------------------------------------
(* Types.                                                                  *)

\* The App's part of TypeOK.
AppTypeOK ==
  /\ pull \in Snapshots
  /\ changes \in 0..MaxEvents
  /\ webhooks \in Seq(Snapshots)
  /\ handler \in [Posts -> {IdleHandler} \cup Handlers]
  /\ checks \in Seq(CheckRun)
  /\ faults \in 0..MaxFaults
  /\ mixed \in BOOLEAN

LEMMA TypeParts == TypeOK <=> RunsTypeOK /\ AppTypeOK
BY DEF TypeOK, AppTypeOK, CheckRun

LEMMA TypeInvNext ==
  ASSUME RunsInv', AppTypeOK'
  PROVE  TypeInv'
BY DEF TypeInv, RunsInv, TypeOK, AppTypeOK, CheckRun

LEMMA InitTypeInv == Init => TypeInv
<1> SUFFICES ASSUME Init PROVE TypeInv
  OBVIOUS
<1>1. RunsInv
  BY InitRunsInv DEF Init
<1>2. AppTypeOK
  <2>1. pull \in Snapshots /\ <<pull>> \in Seq(Snapshots)
    BY DEF Init
  <2>2. handler \in [Posts -> {IdleHandler} \cup Handlers]
    BY DEF Init
  <2>3. checks \in Seq(CheckRun)
    BY DEF Init
  <2>4. changes \in 0..MaxEvents /\ faults \in 0..MaxFaults
    BY ChecksAssumption DEF Init
  <2>5. webhooks \in Seq(Snapshots)
    BY <2>1 DEF Init
  <2>6. mixed \in BOOLEAN
    BY DEF Init
  <2> QED
    BY <2>1, <2>2, <2>3, <2>4, <2>5, <2>6 DEF AppTypeOK
<1> QED
  BY <1>1, <1>2, TypeParts DEF TypeInv, RunsInv

\* Taking a webhook out leaves a sequence of snapshots.
LEMMA TakeWebhook ==
  ASSUME NEW w \in Seq(Snapshots), NEW i \in DOMAIN w
  PROVE  RemoveAt(w, i) \in Seq(Snapshots)
<1>1. i \in 1..Len(w) /\ Len(w) \in Nat
  OBVIOUS
<1>2. SubSeq(w, 1, i - 1) \in Seq(Snapshots)
  BY <1>1, SubSeqProperties
<1>3. SubSeq(w, i + 1, Len(w)) \in Seq(Snapshots)
  BY <1>1, SubSeqProperties
<1> QED
  BY <1>2, <1>3, ConcatProperties DEF RemoveAt

LEMMA VerdictType ==
  ASSUME AnyCheckId, TypeOK, NEW h \in Posts, handler[h].pc # "idle"
  PROVE  Verdict(h) \in Data
<1>1. handler[h].check \in CheckIds \cup {0} /\ handler[h].bypass \in BOOLEAN
  BY HandlerType DEF AnyCheckId
<1> QED
  BY <1>1 DEF Verdict, Run, Data, Conclusion

\* The steps that change the posts or the rows.
LEMMA PostsKeepInv ==
  ASSUME AnyCheckId, TypeInv, NEW h \in Posts,
         PersistRun(h) \/ BackendStep(h) \/ FailBackend(h)
  PROVE  RunsInv'
<1>1. CASE PersistRun(h)
  <2>1. handler[h].pc # "idle"
    BY <1>1 DEF PersistRun
  <2>2. Verdict(h) \in Data /\ handler[h].head \in Shas
    BY <2>1, VerdictType, HandlerType DEF TypeInv
  <2> QED
    BY <1>1, <2>2, ReadRunKeepsInv DEF PersistRun, TypeInv
<1>2. CASE BackendStep(h)
  BY <1>2, EndPostKeepsInv DEF BackendStep, TypeInv
<1>3. CASE FailBackend(h)
  BY <1>3, EndPostKeepsInv DEF FailBackend, TypeInv
<1> QED
  BY <1>1, <1>2, <1>3

\* The steps that change neither.
AppStep ==
  \/ \E snapshot \in Snapshots : ChangePull(snapshot)
  \/ \E h \in Posts :
       \/ \E i \in DOMAIN webhooks : Deliver(h, i)
       \/ FetchSpecs(h)
       \/ SkipEvent(h)
       \/ CreateCheck(h)
       \/ RunDiff(h)
       \/ CompleteCheck(h)
       \/ CompleteCrashed(h)
       \/ CreateComment(h)
       \/ FinishRun(h)
       \/ FailHandler(h)

LEMMA StepCases ==
  Next => \/ AppStep
          \/ \E h \in Posts : PersistRun(h) \/ BackendStep(h) \/ FailBackend(h)
BY DEF Next, HandlerStep, AppStep

LEMMA AppStepKeepsRuns == AppStep => UNCHANGED runVars
BY DEF AppStep, ChangePull, Deliver, FetchSpecs, SkipEvent, CreateCheck, RunDiff,
       CompleteCheck, CompleteCrashed, CreateComment, FinishRun, FailHandler, Await

LEMMA AdvanceType ==
  ASSUME TypeOK, NEW h \in Posts, handler[h].pc # "idle",
         NEW to \in {"fetch", "create"} \cup Checking,
         handler' = [handler EXCEPT ![h].pc = to]
  PROVE  handler' \in [Posts -> {IdleHandler} \cup Handlers]
<1>1. handler[h] \in Handlers
  BY HandlerType
<1>2. [handler[h] EXCEPT !.pc = to] \in Handlers
  BY <1>1 DEF Handlers, Checking
<1> QED
  BY <1>2 DEF TypeOK

LEMMA LeaveType ==
  ASSUME TypeOK, NEW h \in Posts, Return(h)
  PROVE  handler' \in [Posts -> {IdleHandler} \cup Handlers]
BY DEF TypeOK, Return

LEMMA Begin ==
  ASSUME TypeOK, NEW h \in Posts, CreateCheck(h)
  PROVE  /\ handler' \in [Posts -> {IdleHandler} \cup Handlers]
         /\ handler'[h].pc = "diff"
         /\ handler'[h].head = handler[h].head
         /\ handler'[h].bypass = handler[h].bypass
         /\ handler'[h].check = Len(checks) + 1
         /\ \A g \in Posts : g # h => handler'[g] = handler[g]
<1>1. PICK n \in Nat : n = Len(checks) + 1
  BY ChecksType
<1>2. PICK r \in Handlers : r = handler[h]
  BY HandlerType DEF CreateCheck
<1>3. PICK q : q = [r EXCEPT !.pc = "diff", !.check = n]
  OBVIOUS
<1>4. handler' = [handler EXCEPT ![h] = q]
  BY <1>1, <1>2, <1>3 DEF CreateCheck, TypeOK
<1>5. /\ q \in Handlers
      /\ q.pc = "diff" /\ q.head = r.head /\ q.bypass = r.bypass /\ q.check = n
  BY <1>1, <1>2, <1>3 DEF Handlers
<1> QED
  BY <1>1, <1>2, <1>4, <1>5 DEF TypeOK

\* The steps between two awaits that leave the pull request and the history.
Between == UNCHANGED <<pull, changes, webhooks, faults, mixed>>

LEMMA MoveType ==
  ASSUME TypeOK, Between, handler' \in [Posts -> {IdleHandler} \cup Handlers],
         checks' \in Seq(CheckRun)
  PROVE  AppTypeOK'
BY DEF TypeOK, Between, AppTypeOK

\* The check run that a handler completes is its own.
LEMMA StatusStep ==
  ASSUME TypeOK, HandlersOwnChecks, NEW h \in Posts, handler[h].pc \in Uncompleted,
         NEW s \in Statuses, checks' = [checks EXCEPT ![handler[h].check].status = s]
  PROVE  /\ checks' \in Seq(CheckRun)
         /\ handler[h].check \in DOMAIN checks
         /\ checks[handler[h].check].sha = handler[h].head
         /\ checks[handler[h].check].status = "in_progress"
         /\ DOMAIN checks' = DOMAIN checks /\ Len(checks') = Len(checks)
         /\ \A j \in DOMAIN checks : checks'[j].sha = checks[j].sha
         /\ \A j \in DOMAIN checks : j # handler[h].check => checks'[j] = checks[j]
         /\ checks'[handler[h].check].status = s
         /\ \A g \in Posts : g # h /\ handler[g].pc \in Checking =>
              handler[g].check # handler[h].check
<1>1. handler[h].pc \in Checking
  BY DEF Checking, Uncompleted
<1>2. PICK i \in DOMAIN checks :
        /\ i = handler[h].check
        /\ checks[i].sha = handler[h].head
        /\ checks[i].status = "in_progress"
  BY <1>1 DEF HandlersOwnChecks, OwnsCheck
<1>3. \A g \in Posts : g # h /\ handler[g].pc \in Checking =>
        handler[g].check # handler[h].check
  BY <1>1 DEF HandlersOwnChecks, Apart
<1>4. PICK new \in CheckRun : new = [checks[i] EXCEPT !.status = s]
  BY <1>2, ChecksType DEF CheckRun
<1>5. new.sha = checks[i].sha /\ new.status = s
  BY <1>2, <1>4, ChecksType DEF CheckRun
<1>6. checks' = [checks EXCEPT ![i] = new]
  BY <1>2, <1>4
<1>7. checks' \in Seq(CheckRun) /\ Len(checks') = Len(checks)
  BY <1>2, <1>6, ChecksType, ExceptSeq
<1>8. /\ DOMAIN checks' = DOMAIN checks
      /\ \A j \in DOMAIN checks : checks'[j] = IF j = i THEN new ELSE checks[j]
  BY <1>6
<1> QED
  BY <1>2, <1>3, <1>5, <1>7, <1>8

LEMMA Completion ==
  ASSUME TypeOK, HandlersOwnChecks, NEW h \in Posts,
         CompleteCheck(h) \/ CompleteCrashed(h)
  PROVE  /\ handler[h].pc \in Uncompleted
         /\ checks[handler[h].check].status = "in_progress"
         /\ DOMAIN checks' = DOMAIN checks /\ Len(checks') = Len(checks)
         /\ \A j \in DOMAIN checks : checks'[j].sha = checks[j].sha
         /\ \A j \in DOMAIN checks : j # handler[h].check => checks'[j] = checks[j]
<1>1. handler[h].pc \in Uncompleted
  BY DEF CompleteCheck, CompleteCrashed, Await, Uncompleted
<1>2. CASE CompleteCheck(h)
  <2>1. Verdict(h).conclusion \in Statuses
    BY <1>1, HandlerType DEF Uncompleted, Statuses
  <2> QED
    BY <1>1, <1>2, <2>1, StatusStep DEF CompleteCheck
<1>3. CASE CompleteCrashed(h)
  <2>1. "action_required" \in Statuses
    BY DEF Statuses
  <2> QED
    BY <1>1, <1>3, <2>1, StatusStep DEF CompleteCrashed
<1> QED
  BY <1>2, <1>3

LEMMA NextAppType ==
  ASSUME TypeOK, HandlersOwnChecks, AppStep
  PROVE  AppTypeOK'
<1>1. ASSUME NEW s \in Snapshots, ChangePull(s)
      PROVE  AppTypeOK'
  <2>1. webhooks' \in Seq(Snapshots)
    BY <1>1 DEF ChangePull, TypeOK
  <2>2. changes' \in 0..MaxEvents
    BY <1>1, ChecksAssumption DEF ChangePull, TypeOK
  <2> QED
    BY <1>1, <2>1, <2>2, TypeParts DEF ChangePull, AppTypeOK
<1>2. ASSUME NEW h \in Posts, NEW i \in DOMAIN webhooks, Deliver(h, i)
      PROVE  AppTypeOK'
  <2>1. webhooks \in Seq(Snapshots) /\ webhooks[i] \in Snapshots
    BY <1>2, ElementOfSeq DEF TypeOK
  <2>2. webhooks' \in Seq(Snapshots)
    BY <1>2, <2>1, TakeWebhook DEF Deliver
  <2>3. [pc |-> "fetch", head |-> webhooks[i].head, bypass |-> webhooks[i].bypass,
         check |-> 0] \in Handlers
    BY <2>1 DEF Snapshots, Handlers
  <2>4. handler' \in [Posts -> {IdleHandler} \cup Handlers]
    BY <1>2, <2>3 DEF Deliver, TypeOK
  <2>5. mixed' \in BOOLEAN
    BY <1>2 DEF Deliver
  <2> QED
    BY <1>2, <2>2, <2>4, <2>5, TypeParts DEF Deliver, AppTypeOK
<1>3. ASSUME NEW h \in Posts,
             FetchSpecs(h) \/ RunDiff(h) \/ CreateComment(h)
      PROVE  AppTypeOK'
  <2>1. PICK to \in {"fetch", "create"} \cup Checking :
          /\ handler[h].pc # "idle"
          /\ handler' = [handler EXCEPT ![h].pc = to]
    BY <1>3 DEF FetchSpecs, RunDiff, CreateComment, Await, Checking
  <2>2. Between /\ checks' = checks
    BY <1>3 DEF FetchSpecs, RunDiff, CreateComment, Await, Between
  <2> QED
    BY <2>1, <2>2, AdvanceType, MoveType, ChecksType
<1>4. ASSUME NEW h \in Posts, SkipEvent(h) \/ FinishRun(h)
      PROVE  AppTypeOK'
  <2>1. Return(h) /\ Between /\ checks' = checks
    BY <1>4 DEF SkipEvent, FinishRun, Between
  <2> QED
    BY <2>1, LeaveType, MoveType, ChecksType
<1>5. ASSUME NEW h \in Posts, CreateCheck(h)
      PROVE  AppTypeOK'
  <2>1. handler[h] \in Handlers /\ Len(checks) \in Nat
    BY <1>5, HandlerType, ChecksType DEF CreateCheck
  <2>2. [sha |-> handler[h].head, status |-> "in_progress"] \in CheckRun
    BY <2>1 DEF Handlers, CheckRun, Statuses
  <2>3. checks' \in Seq(CheckRun)
    BY <1>5, <2>2, AddCheck, ChecksType DEF CreateCheck
  <2>4. handler' \in [Posts -> {IdleHandler} \cup Handlers]
    BY <1>5, Begin
  <2> QED
    BY <1>5, <2>3, <2>4, MoveType DEF CreateCheck, Between
<1>6. ASSUME NEW h \in Posts, CompleteCheck(h)
      PROVE  AppTypeOK'
  <2>1. handler[h].pc # "idle" /\ handler[h].pc \in Uncompleted
    BY <1>6 DEF CompleteCheck, Await, Uncompleted
  <2>2. Verdict(h).conclusion \in Statuses
    BY <2>1, HandlerType DEF Statuses
  <2>3. checks' \in Seq(CheckRun)
    BY <1>6, <2>1, <2>2, StatusStep DEF CompleteCheck
  <2>4. handler' \in [Posts -> {IdleHandler} \cup Handlers]
    BY <1>6, <2>1, AdvanceType DEF CompleteCheck, Await, Checking
  <2> QED
    BY <1>6, <2>3, <2>4, MoveType DEF CompleteCheck, Await, Between
<1>7. ASSUME NEW h \in Posts, CompleteCrashed(h)
      PROVE  AppTypeOK'
  <2>1. handler[h].pc \in Uncompleted
    BY <1>7 DEF CompleteCrashed, Uncompleted
  <2>2. "action_required" \in Statuses
    BY DEF Statuses
  <2>3. checks' \in Seq(CheckRun)
    BY <1>7, <2>1, <2>2, StatusStep DEF CompleteCrashed
  <2> QED
    BY <1>7, <2>3, LeaveType, MoveType DEF CompleteCrashed, Between
<1>8. ASSUME NEW h \in Posts, FailHandler(h)
      PROVE  AppTypeOK'
  <2>1. handler' \in [Posts -> {IdleHandler} \cup Handlers]
    BY <1>8, LeaveType DEF FailHandler
  <2>2. faults' \in 0..MaxFaults
    BY <1>8, ChecksAssumption DEF FailHandler, TypeOK
  <2> QED
    BY <1>8, <2>1, <2>2, TypeParts DEF FailHandler, AppTypeOK
<1> QED
  BY <1>1, <1>2, <1>3, <1>4, <1>5, <1>6, <1>7, <1>8 DEF AppStep

\* The steps of the posts leave the check runs alone.
LEMMA PostsKeepAppType ==
  ASSUME TypeOK, NEW h \in Posts, PersistRun(h) \/ BackendStep(h) \/ FailBackend(h)
  PROVE  AppTypeOK'
<1>1. CASE PersistRun(h)
  <2>1. handler[h].pc # "idle" /\ handler' = [handler EXCEPT ![h].pc = "posted"]
    BY <1>1 DEF PersistRun
  <2> QED
    BY <1>1, <2>1, AdvanceType, MoveType, ChecksType DEF PersistRun, Between, Checking
<1>2. CASE BackendStep(h)
  BY <1>2, TypeParts DEF BackendStep, appVars, AppTypeOK
<1>3. CASE FailBackend(h)
  <2>1. faults' \in 0..MaxFaults
    BY <1>3, ChecksAssumption DEF FailBackend, TypeOK
  <2> QED
    BY <1>3, <2>1, TypeParts DEF FailBackend, AppTypeOK
<1> QED
  BY <1>1, <1>2, <1>3

LEMMA NextTypeInv ==
  ASSUME AnyCheckId, TypeInv, HandlersOwnChecks, Next
  PROVE  TypeInv'
<1>1. CASE AppStep
  <2>1. RunsInv'
    BY <1>1, AppStepKeepsRuns
       DEF TypeInv, runVars, RunsInv, RunsTypeOK, OneRowPerSha, PostsRefer, Ids
  <2>2. AppTypeOK'
    BY <1>1, NextAppType DEF TypeInv
  <2> QED
    BY <2>1, <2>2, TypeInvNext
<1>2. ASSUME NEW h \in Posts, PersistRun(h) \/ BackendStep(h) \/ FailBackend(h)
      PROVE  TypeInv'
  BY <1>2, PostsKeepInv, PostsKeepAppType, TypeInvNext DEF TypeInv
<1> QED
  BY <1>1, <1>2, StepCases

-----------------------------------------------------------------------------
(* Every handler has a check run for itself.                               *)

\* A handler that moves leaves the others as they are.
LEMMA OthersOwnChecks ==
  ASSUME HandlersOwnChecks, NEW h \in Posts,
         \A g \in Posts : g # h => handler'[g] = handler[g],
         \A i \in DOMAIN checks :
           /\ i \in DOMAIN checks'
           /\ checks'[i].sha = checks[i].sha
           /\ \A g \in Posts : g # h /\ handler[g].pc \in Checking /\ handler[g].check = i =>
                checks'[i] = checks[i],
         OwnsCheck(h)', \A g \in Posts : g # h => Apart(g, h)'
  PROVE  HandlersOwnChecks'
<1>1. ASSUME NEW g \in Posts, g # h
      PROVE  OwnsCheck(g)'
  <2>1. handler'[g] = handler[g]
    BY <1>1
  <2>2. handler[g].pc \in Checking => checks'[handler[g].check] = checks[handler[g].check]
                                      /\ handler[g].check \in DOMAIN checks'
    BY <1>1 DEF HandlersOwnChecks, OwnsCheck
  <2>3. OwnsCheck(g)
    BY DEF HandlersOwnChecks
  <2> QED
    BY <2>1, <2>2, <2>3 DEF OwnsCheck, Verdict
<1>2. ASSUME NEW f \in Posts, NEW g \in Posts, f # g
      PROVE  Apart(f, g)'
  <2>1. CASE f # h /\ g # h
    BY <1>2, <2>1 DEF HandlersOwnChecks, Apart
  <2>2. CASE g = h
    BY <1>2, <2>2
  <2>3. CASE f = h
    BY <1>2, <2>3 DEF Apart
  <2> QED
    BY <2>1, <2>2, <2>3
<1> QED
  BY <1>1, <1>2 DEF HandlersOwnChecks

LEMMA NextHandlersOwnChecks ==
  ASSUME TypeOK, HandlersOwnChecks, Next
  PROVE  HandlersOwnChecks'
<1>1. ASSUME UNCHANGED <<handler, checks>>
      PROVE  HandlersOwnChecks'
  BY <1>1 DEF HandlersOwnChecks, OwnsCheck, Apart, Verdict
<1>2. ASSUME NEW h \in Posts, handler'[h].pc \notin Checking, checks' = checks,
             \A g \in Posts : g # h => handler'[g] = handler[g]
      PROVE  HandlersOwnChecks'
  BY <1>2, OthersOwnChecks DEF OwnsCheck, Apart
<1>3. ASSUME NEW s \in Snapshots, ChangePull(s)
      PROVE  HandlersOwnChecks'
  BY <1>1, <1>3 DEF ChangePull
<1>4. ASSUME NEW h \in Posts, NEW i \in DOMAIN webhooks, Deliver(h, i)
      PROVE  HandlersOwnChecks'
  <2>1. handler'[h].pc = "fetch" /\ \A g \in Posts : g # h => handler'[g] = handler[g]
    BY <1>4 DEF Deliver, TypeOK
  <2> QED
    BY <1>2, <1>4, <2>1 DEF Deliver, Checking
<1>5. ASSUME NEW h \in Posts, FetchSpecs(h)
      PROVE  HandlersOwnChecks'
  <2>1. handler'[h].pc = "create" /\ \A g \in Posts : g # h => handler'[g] = handler[g]
    BY <1>5, Advance DEF FetchSpecs, Await
  <2> QED
    BY <1>2, <1>5, <2>1 DEF FetchSpecs, Checking
<1>6. ASSUME NEW h \in Posts, SkipEvent(h) \/ FinishRun(h) \/ FailHandler(h)
      PROVE  HandlersOwnChecks'
  <2>1. Return(h) /\ checks' = checks
    BY <1>6 DEF SkipEvent, FinishRun, FailHandler
  <2> QED
    BY <1>2, <2>1, Leave DEF Checking
<1>7. ASSUME NEW h \in Posts, CreateCheck(h)
      PROVE  HandlersOwnChecks'
  <2> DEFINE n == Len(checks) + 1
  <2>1. [sha |-> handler[h].head, status |-> "in_progress"] \in CheckRun
    BY <1>7, HandlerType DEF CreateCheck, CheckRun, Statuses
  <2>2. /\ \A j \in DOMAIN checks : j \in DOMAIN checks' /\ checks'[j] = checks[j] /\ j # n
        /\ n \in DOMAIN checks'
        /\ checks'[n] = [sha |-> handler[h].head, status |-> "in_progress"]
    BY <1>7, <2>1, AddCheck, ChecksType DEF CreateCheck
  <2>3. OwnsCheck(h)'
    BY <1>7, <2>2, Begin DEF OwnsCheck, Uncompleted
  <2>4. ASSUME NEW g \in Posts, g # h
        PROVE  Apart(g, h)'
    BY <1>7, <2>2, <2>4, Begin DEF HandlersOwnChecks, OwnsCheck, Apart
  <2> QED
    BY <1>7, <2>2, <2>3, <2>4, Begin, OthersOwnChecks
<1>8. ASSUME NEW h \in Posts, RunDiff(h) \/ CreateComment(h) \/ PersistRun(h)
      PROVE  HandlersOwnChecks'
  <2>1. PICK to \in Checking :
          /\ handler' = [handler EXCEPT ![h].pc = to]
          /\ handler[h].pc \in Checking
          /\ to \in Uncompleted <=> handler[h].pc \in Uncompleted
    BY <1>8 DEF RunDiff, CreateComment, PersistRun, Await, Checking, Uncompleted
  <2>2. checks' = checks
    BY <1>8 DEF RunDiff, CreateComment, PersistRun
  <2>3. /\ handler'[h].pc = to
        /\ handler'[h].head = handler[h].head
        /\ handler'[h].bypass = handler[h].bypass
        /\ handler'[h].check = handler[h].check
        /\ \A g \in Posts : g # h => handler'[g] = handler[g]
    BY <2>1, Advance DEF Checking
  <2>4. OwnsCheck(h)'
    BY <2>1, <2>2, <2>3 DEF HandlersOwnChecks, OwnsCheck, Verdict
  <2>5. ASSUME NEW g \in Posts, g # h
        PROVE  Apart(g, h)'
    BY <2>1, <2>3, <2>5 DEF HandlersOwnChecks, Apart
  <2> QED
    BY <2>2, <2>3, <2>4, <2>5, OthersOwnChecks
<1>9. ASSUME NEW h \in Posts, CompleteCheck(h)
      PROVE  HandlersOwnChecks'
  <2>1. handler[h].pc \in Uncompleted
    BY <1>9 DEF CompleteCheck, Await, Uncompleted
  <2>2. Verdict(h).conclusion \in Statuses
    BY <2>1, HandlerType DEF Uncompleted, Statuses
  <2>3. /\ handler'[h].pc = "comment"
        /\ handler'[h].head = handler[h].head
        /\ handler'[h].bypass = handler[h].bypass
        /\ handler'[h].check = handler[h].check
        /\ \A g \in Posts : g # h => handler'[g] = handler[g]
    BY <1>9, Advance DEF CompleteCheck, Await
  <2>4. /\ handler[h].check \in DOMAIN checks
        /\ checks[handler[h].check].sha = handler[h].head
        /\ DOMAIN checks' = DOMAIN checks
        /\ \A j \in DOMAIN checks : checks'[j].sha = checks[j].sha
        /\ \A j \in DOMAIN checks : j # handler[h].check => checks'[j] = checks[j]
        /\ checks'[handler[h].check].status = Verdict(h).conclusion
        /\ \A g \in Posts : g # h /\ handler[g].pc \in Checking =>
             handler[g].check # handler[h].check
    BY <1>9, <2>1, <2>2, StatusStep DEF CompleteCheck
  <2>5. Verdict(h)' = Verdict(h)
    BY <2>3 DEF Verdict
  <2>6. OwnsCheck(h)'
    BY <2>3, <2>4, <2>5 DEF OwnsCheck, Uncompleted
  <2>7. ASSUME NEW g \in Posts, g # h
        PROVE  Apart(g, h)'
    BY <2>3, <2>4, <2>7 DEF Apart
  <2> QED
    BY <2>3, <2>4, <2>6, <2>7, OthersOwnChecks
<1>10. ASSUME NEW h \in Posts, CompleteCrashed(h)
       PROVE  HandlersOwnChecks'
  <2>1. handler[h].pc \in Uncompleted /\ "action_required" \in Statuses
    BY <1>10 DEF CompleteCrashed, Uncompleted, Statuses
  <2>2. /\ DOMAIN checks' = DOMAIN checks
        /\ \A j \in DOMAIN checks : checks'[j].sha = checks[j].sha
        /\ \A j \in DOMAIN checks : j # handler[h].check => checks'[j] = checks[j]
        /\ \A g \in Posts : g # h /\ handler[g].pc \in Checking =>
             handler[g].check # handler[h].check
    BY <1>10, <2>1, StatusStep DEF CompleteCrashed
  <2>3. handler'[h].pc = "idle" /\ \A g \in Posts : g # h => handler'[g] = handler[g]
    BY <1>10, Leave DEF CompleteCrashed
  <2>4. OwnsCheck(h)' /\ \A g \in Posts : g # h => Apart(g, h)'
    BY <2>3 DEF OwnsCheck, Apart, Checking
  <2> QED
    BY <2>2, <2>3, <2>4, OthersOwnChecks
<1>11. ASSUME NEW h \in Posts, BackendStep(h) \/ FailBackend(h)
       PROVE  HandlersOwnChecks'
  BY <1>1, <1>11 DEF BackendStep, FailBackend, appVars
<1> QED
  BY <1>3, <1>4, <1>5, <1>6, <1>7, <1>8, <1>9, <1>10, <1>11 DEF Next, HandlerStep

LEMMA InitHandlersOwnChecks == Init => HandlersOwnChecks
BY DEF Init, HandlersOwnChecks, OwnsCheck, Apart, IdleHandler, Checking

-----------------------------------------------------------------------------
(* Runs are stored for check runs that are completed, and stay so.         *)

\* A check run that is completed is left alone.
LEMMA CompletedStay ==
  ASSUME TypeOK, HandlersOwnChecks, Next, NEW i \in DOMAIN checks
  PROVE  /\ i \in DOMAIN checks'
         /\ checks[i].status # "in_progress" => checks'[i] = checks[i]
<1>1. ASSUME NEW h \in Posts, CreateCheck(h)
      PROVE  i \in DOMAIN checks' /\ checks'[i] = checks[i]
  <2>1. [sha |-> handler[h].head, status |-> "in_progress"] \in CheckRun
    BY <1>1, HandlerType DEF CreateCheck, CheckRun, Statuses
  <2> QED
    BY <1>1, <2>1, AddCheck, ChecksType DEF CreateCheck
<1>2. ASSUME NEW h \in Posts, CompleteCheck(h) \/ CompleteCrashed(h)
      PROVE  /\ i \in DOMAIN checks'
             /\ checks[i].status # "in_progress" => checks'[i] = checks[i]
  BY <1>2, Completion
<1>3. CASE UNCHANGED checks
  BY <1>3
<1> QED
  BY <1>1, <1>2, <1>3 DEF Next, HandlerStep, ChangePull, Deliver, FetchSpecs,
     SkipEvent, RunDiff, CreateComment, PersistRun, FinishRun, BackendStep,
     FailHandler, FailBackend, appVars

LEMMA NamesStay ==
  ASSUME TypeOK, HandlersOwnChecks, Next, NEW sha, NEW i, Names(sha, i)
  PROVE  Names(sha, i)' /\ checks'[i] = checks[i]
BY CompletedStay DEF Names

\* The request of a handler: it names the handler's check run, and holds the
\* row it updates.
LEMMA Request ==
  ASSUME AnyCheckId, TypeInv, HandlersOwnChecks, NEW h \in Posts, PersistRun(h)
  PROVE  /\ rows' = rows
         /\ \A p \in Posts : p # h => post'[p] = post[p]
         /\ post'[h].pc = "commit"
         /\ post'[h].sha = handler[h].head
         /\ post'[h].new = Verdict(h)
         /\ IF post'[h].id = 0 THEN ~Stored(handler[h].head)
            ELSE post'[h].old = rows[post'[h].id].data
         /\ Fits(Verdict(h))
         /\ Verdict(h).check = handler[h].check
         /\ Names(handler[h].head, handler[h].check)
         /\ checks[handler[h].check].status = Verdict(h).conclusion
<1>1. handler[h].pc = "persist"
  BY DEF PersistRun
<1>2. /\ handler[h].check \in DOMAIN checks
      /\ checks[handler[h].check].sha = handler[h].head
      /\ checks[handler[h].check].status = Verdict(h).conclusion
  BY <1>1 DEF HandlersOwnChecks, OwnsCheck, Checking, Uncompleted
<1>3. Verdict(h).conclusion \in {"success", "failure"}
  BY <1>1, HandlerType DEF TypeInv
<1>4. Fits(Verdict(h)) /\ Verdict(h).check = handler[h].check
  BY DEF Fits, Verdict, Run
<1>5. handler[h].check # 0
  BY <1>2, ChecksType DEF TypeInv
<1>6. post \in [Posts -> {IdlePost} \cup OpenPosts]
  BY DEF TypeInv, RunsInv, RunsTypeOK
<1>7. CASE FindNothing(h, handler[h].head, Verdict(h))
  BY <1>2, <1>3, <1>4, <1>6, <1>7 DEF FindNothing, Names
<1>8. CASE FindRun(h, handler[h].head, Verdict(h))
  <2>1. PICK id \in Ids :
          /\ rows[id].sha = handler[h].head
          /\ post' = [post EXCEPT ![h] =
               [pc |-> "commit", id |-> id, sha |-> handler[h].head,
                old |-> rows[id].data, new |-> KeepCheck(Verdict(h), rows[id].data)]]
    BY <1>8 DEF FindRun
  <2>2. KeepCheck(Verdict(h), rows[id].data) = Verdict(h)
    BY <1>4, <1>5 DEF KeepCheck
  <2>3. id # 0
    BY <2>1 DEF Ids
  <2>4. rows' = rows
    BY <1>8 DEF FindRun
  <2> QED
    BY <1>2, <1>3, <1>4, <1>6, <2>1, <2>2, <2>3, <2>4 DEF Names
<1> QED
  BY <1>7, <1>8 DEF PersistRun, ReadRun

\* What a post that ends makes of a row.
Written(p, id) ==
  /\ post[p].pc = "commit"
  /\ rows'[id].sha = post[p].sha
  /\ \/ /\ id \in Ids /\ id = post[p].id
        /\ rows[id].sha = post[p].sha
        /\ rows'[id].data = Merged(rows[id].data, post[p].old, post[p].new)
     \/ rows'[id].data = post[p].new

LEMMA Answer ==
  ASSUME RunsInv, NEW p \in Posts, EndPost(p) \/ LosePost(p)
  PROVE  /\ post[p].pc = "commit" /\ post[p] \in OpenPosts
         /\ post'[p].pc = "idle"
         /\ \A q \in Posts : q # p => post'[q] = post[q]
         /\ \A id \in Ids' : (id \in Ids /\ rows'[id] = rows[id]) \/ Written(p, id)
<1> DEFINE q == post[p]
<1>1. q.pc = "commit" /\ q \in OpenPosts
  BY DEF EndPost, CommitUpdate, CommitInsert, RefuseInsert, LosePost,
         RunsInv, RunsTypeOK, IdlePost
<1>2. post' = [post EXCEPT ![p] = IdlePost]
  BY DEF EndPost, CommitUpdate, CommitInsert, RefuseInsert, LosePost
<1>3. post'[p].pc = "idle" /\ \A r \in Posts : r # p => post'[r] = post[r]
  BY <1>2 DEF RunsInv, RunsTypeOK, IdlePost
<1>4. ASSUME NEW id \in Ids'
      PROVE  (id \in Ids /\ rows'[id] = rows[id]) \/ Written(p, id)
  <2>1. CASE CommitUpdate(p)
    <3>1. /\ q.id \in Ids /\ rows[q.id].sha = q.sha
          /\ rows' = [rows EXCEPT ![q.id].data = Merged(@, q.old, q.new)]
      BY <2>1 DEF CommitUpdate, RunsInv, PostsRefer
    <3>2. DOMAIN rows = Ids
      BY DEF RunsInv, RunsTypeOK, Ids
    <3>3. Ids' = Ids
      <4>1. rows' \in Seq([sha : Shas, data : Data]) /\ DOMAIN rows' = Ids
        BY <3>1, <3>2, EndPostKeepsInv DEF RunsInv, RunsTypeOK
      <4> QED
        BY <4>1 DEF Ids
    <3>4. CASE id = q.id
      <4>1. rows[id] \in [sha : Shas, data : Data]
        BY <3>1, <3>4, RowType
      <4>2. rows'[id] = [rows[id] EXCEPT !.data = Merged(rows[id].data, q.old, q.new)]
        BY <3>1, <3>2, <3>4
      <4> QED
        BY <1>1, <3>1, <3>4, <4>1, <4>2 DEF Written
    <3>5. CASE id # q.id
      BY <3>1, <3>2, <3>3, <3>5
    <3> QED
      BY <3>4, <3>5
  <2>2. CASE CommitInsert(p)
    <3>1. /\ Ids' = 1..(Len(rows) + 1)
          /\ \A i \in Ids : rows'[i] = rows[i]
          /\ rows'[Len(rows) + 1] = [sha |-> q.sha, data |-> q.new]
      BY <2>2 DEF CommitInsert, RunsInv, RunsTypeOK, Ids
    <3>2. id \in Ids \/ id = Len(rows) + 1
      BY <3>1 DEF RunsInv, RunsTypeOK, Ids
    <3> QED
      BY <1>1, <3>1, <3>2 DEF Written
  <2>3. CASE RefuseInsert(p) \/ LosePost(p)
    BY <2>3 DEF RefuseInsert, LosePost, Ids
  <2> QED
    BY <2>1, <2>2, <2>3 DEF EndPost
<1> QED
  BY <1>1, <1>3, <1>4

LEMMA NextRunsNameChecks ==
  ASSUME AnyCheckId, TypeInv, HandlersOwnChecks, RunsNameChecks, Next
  PROVE  RunsNameChecks'
<1>1. ASSUME NEW sha, NEW i, Names(sha, i)
      PROVE  /\ i \in DOMAIN checks'
             /\ checks'[i].sha = sha
             /\ checks'[i].status \in {"success", "failure"}
  BY <1>1, NamesStay DEF Names, TypeInv
<1>2. CASE AppStep
  <2>1. rows' = rows /\ post' = post
    BY <1>2, AppStepKeepsRuns DEF runVars
  <2> QED
    BY <1>1, <2>1 DEF RunsNameChecks, Names, Ids, Fits
<1>3. ASSUME NEW h \in Posts, PersistRun(h)
      PROVE  RunsNameChecks'
  <2>1. \A id \in Ids' : Names(rows[id].sha, rows[id].data.check)'
    BY <1>1, <1>3, Request DEF RunsNameChecks, Names, Ids
  <2>2. ASSUME NEW p \in Posts, post'[p].pc = "commit"
        PROVE  Names(post[p].sha, post[p].new.check)' /\ Fits(post[p].new)'
    <3>1. CASE p = h
      <4>1. Names(post'[p].sha, post'[p].new.check) /\ Fits(post'[p].new)
        BY <1>3, <3>1, Request
      <4> QED
        BY <1>1, <4>1 DEF Names, Fits
    <3>2. CASE p # h
      BY <1>1, <1>3, <2>2, <3>2, Request DEF RunsNameChecks, Names, Fits
    <3> QED
      BY <3>1, <3>2
  <2> QED
    BY <2>1, <2>2 DEF RunsNameChecks
<1>4. ASSUME NEW p \in Posts, BackendStep(p) \/ FailBackend(p)
      PROVE  RunsNameChecks'
  <2>1. EndPost(p) \/ LosePost(p)
    BY <1>4 DEF BackendStep, FailBackend
  <2>2. checks' = checks
    BY <1>4 DEF BackendStep, FailBackend, appVars
  <2>3. ASSUME NEW id \in Ids'
        PROVE  Names(rows'[id].sha, rows'[id].data.check)
    <3>1. CASE id \in Ids /\ rows'[id] = rows[id]
      BY <3>1 DEF RunsNameChecks
    <3>2. CASE Written(p, id)
      <4>1. Merged(rows[id].data, post[p].old, post[p].new).check
              \in {rows[id].data.check, post[p].new.check}
        BY DEF Merged, Columns
      <4> QED
        BY <3>2, <4>1 DEF Written, RunsNameChecks
    <3> QED
      BY <2>1, <2>3, <3>1, <3>2, Answer DEF TypeInv
  <2>4. \A q \in Posts : post'[q].pc = "commit" => post'[q] = post[q]
    BY <2>1, Answer DEF TypeInv
  <2> QED
    BY <2>2, <2>3, <2>4 DEF RunsNameChecks, Names, Fits
<1> QED
  BY <1>2, <1>3, <1>4, StepCases

LEMMA InitRunsNameChecks == Init => RunsNameChecks
BY DEF Init, RunsInit, RunsNameChecks, IdlePost, Ids

-----------------------------------------------------------------------------
(* Webhooks that are handled one after the other.                          *)

LEMMA OrderStays ==
  ASSUME Next, ~mixed'
  PROVE  ~mixed
BY DEF Next, HandlerStep, ChangePull, Deliver, FetchSpecs, SkipEvent, CreateCheck,
   RunDiff, CompleteCheck, CompleteCrashed, CreateComment, PersistRun, FinishRun,
   BackendStep, FailHandler, FailBackend, Await, appVars

LEMMA NextSerialInv ==
  ASSUME AnyCheckId, SafeInv, Next
  PROVE  SerialInv'
<1> SUFFICES ASSUME ~mixed'
             PROVE  /\ \A g, h \in Posts : IsBusy(g)' /\ IsBusy(h)' => g = h
                    /\ \A id \in Ids' : Fits(rows'[id].data) /\ Agrees(rows[id].data)'
                    /\ \A p \in Posts : post'[p].pc = "commit" =>
                         /\ Agrees(post[p].new)'
                         /\ IF post'[p].id = 0 THEN ~Stored(post[p].sha)'
                            ELSE post'[p].old = rows'[post'[p].id].data
  BY DEF SerialInv, Fits
<1>1. ASSUME NEW h \in Posts, NEW i \in DOMAIN webhooks, Deliver(h, i)
      PROVE  \A g \in Posts : ~IsBusy(g)
  BY <1>1 DEF Deliver
<1>2. ~mixed
  BY OrderStays
<1>3. /\ \A g, h \in Posts : IsBusy(g) /\ IsBusy(h) => g = h
      /\ \A id \in Ids : Fits(rows[id].data) /\ Agrees(rows[id].data)
      /\ \A p \in Posts : post[p].pc = "commit" =>
           /\ Agrees(post[p].new)
           /\ IF post[p].id = 0 THEN ~Stored(post[p].sha)
              ELSE post[p].old = rows[post[p].id].data
  BY <1>2 DEF SafeInv, SerialInv
<1>4. ASSUME NEW sha, NEW data, Names(sha, data.check), Agrees(data)
      PROVE  checks'[data.check].status = data.conclusion
  BY <1>4, NamesStay DEF SafeInv, TypeInv, Agrees
<1>5. \A id \in Ids : Agrees(rows[id].data)' \/ rows' # rows
  BY <1>3, <1>4 DEF SafeInv, RunsNameChecks, Agrees
<1>6. \A p \in Posts : post'[p] = post[p] /\ post[p].pc = "commit" => Agrees(post[p].new)'
  BY <1>3, <1>4 DEF SafeInv, RunsNameChecks, Agrees
<1>7. handler \in [Posts -> {IdleHandler} \cup Handlers]
  BY DEF SafeInv, TypeInv, TypeOK
<1>8. CASE AppStep
  <2>1. rows' = rows /\ post' = post
    BY <1>8, AppStepKeepsRuns DEF runVars
  <2>2. ASSUME NEW h \in Posts, NEW i \in DOMAIN webhooks, Deliver(h, i)
        PROVE  \A g \in Posts : IsBusy(g)' => g = h
    BY <1>1, <1>7, <2>1, <2>2 DEF Deliver, IsBusy
  <2>3. ASSUME NEW h \in Posts,
               \/ FetchSpecs(h) \/ SkipEvent(h) \/ CreateCheck(h) \/ RunDiff(h)
               \/ CompleteCheck(h) \/ CompleteCrashed(h) \/ CreateComment(h)
               \/ FinishRun(h) \/ FailHandler(h)
        PROVE  \A g \in Posts : IsBusy(g)' => IsBusy(g)
    <3>1. handler[h].pc # "idle"
      BY <2>3 DEF FetchSpecs, SkipEvent, CreateCheck, RunDiff, CompleteCheck,
                  CompleteCrashed, CreateComment, FinishRun, FailHandler, Await
    <3>2. \A g \in Posts : g # h => handler'[g] = handler[g]
      BY <1>7, <2>3
         DEF FetchSpecs, SkipEvent, CreateCheck, RunDiff, CompleteCheck,
             CompleteCrashed, CreateComment, FinishRun, FailHandler, Await, Return
    <3> QED
      BY <2>1, <3>1, <3>2 DEF IsBusy
  <2>4. ASSUME NEW s \in Snapshots, ChangePull(s)
        PROVE  \A g \in Posts : IsBusy(g)' => IsBusy(g)
    BY <2>1, <2>4 DEF ChangePull, IsBusy
  <2>5. \A g, h \in Posts : IsBusy(g)' /\ IsBusy(h)' => g = h
    BY <1>3, <1>8, <2>2, <2>3, <2>4 DEF AppStep
  <2> QED
    BY <1>3, <1>5, <1>6, <2>1, <2>5 DEF Ids, Stored
<1>9. ASSUME NEW h \in Posts, PersistRun(h)
      PROVE  SerialInv'
  <2> DEFINE new == Verdict(h)
  <2>1. handler[h].pc = "persist"
    BY <1>9 DEF PersistRun
  <2>2. \A g \in Posts : g # h => ~IsBusy(g)
    BY <1>3, <2>1 DEF IsBusy
  <2>3. \A g \in Posts : g # h => handler'[g] = handler[g] /\ post'[g] = post[g]
    BY <1>7, <1>9, Request DEF PersistRun, SafeInv
  <2>4. \A g \in Posts : g # h => ~IsBusy(g)'
    BY <2>2, <2>3 DEF IsBusy
  <2>5. checks' = checks
    BY <1>9 DEF PersistRun
  <2>6. /\ rows' = rows
        /\ post'[h].new = new
        /\ checks[new.check].status = new.conclusion
        /\ IF post'[h].id = 0 THEN ~Stored(handler[h].head)
           ELSE post'[h].old = rows[post'[h].id].data
        /\ post'[h].sha = handler[h].head
    BY <1>9, Request DEF SafeInv
  <2>7. \A p \in Posts : post'[p].pc = "commit" => p = h
    BY <2>4 DEF IsBusy
  <2> QED
    BY <1>3, <2>4, <2>5, <2>6, <2>7 DEF SerialInv, Agrees, Ids, Stored
<1>10. ASSUME NEW p \in Posts, BackendStep(p) \/ FailBackend(p)
       PROVE  SerialInv'
  <2>1. EndPost(p) \/ LosePost(p)
    BY <1>10 DEF BackendStep, FailBackend
  <2>2. checks' = checks /\ handler' = handler
    BY <1>10 DEF BackendStep, FailBackend, appVars
  <2>3. /\ post[p].pc = "commit" /\ post[p] \in OpenPosts
        /\ post'[p].pc = "idle"
        /\ \A q \in Posts : q # p => post'[q] = post[q]
        /\ \A id \in Ids' : (id \in Ids /\ rows'[id] = rows[id]) \/ Written(p, id)
    BY <2>1, Answer DEF SafeInv, TypeInv
  <2>4. \A g \in Posts : IsBusy(g)' => IsBusy(g)
    BY <2>2, <2>3 DEF IsBusy
  <2>5. \A q \in Posts : post'[q].pc = "idle"
    <3>1. \A q \in Posts : q # p => post[q].pc = "idle"
      BY <1>3, <2>3 DEF IsBusy
    <3> QED
      BY <2>3, <3>1
  <2>6. ASSUME NEW id \in Ids', Written(p, id)
        PROVE  rows'[id].data = post[p].new
    <3>1. CASE rows[id].data = post[p].old
      BY <2>3, <2>6, <3>1, MergeOfCurrent DEF Written, OpenPosts
    <3>2. CASE rows[id].data # post[p].old
      <4>1. ~(id \in Ids /\ id = post[p].id)
        BY <1>3, <2>3, <3>2 DEF Ids
      <4> QED
        BY <2>6, <4>1 DEF Written
    <3> QED
      BY <3>1, <3>2
  <2>7. ASSUME NEW id \in Ids'
        PROVE  /\ Fits(rows'[id].data)
               /\ checks[rows'[id].data.check].status = rows'[id].data.conclusion
    <3>1. CASE id \in Ids /\ rows'[id] = rows[id]
      BY <1>3, <3>1 DEF Agrees
    <3>2. CASE Written(p, id)
      <4>1. Fits(post[p].new) /\ Agrees(post[p].new)
        BY <1>3, <2>3 DEF SafeInv, RunsNameChecks
      <4> QED
        BY <2>6, <2>7, <3>2, <4>1 DEF Agrees
    <3> QED
      BY <2>3, <2>7, <3>1, <3>2
  <2> QED
    BY <1>3, <2>2, <2>4, <2>5, <2>7 DEF SerialInv, Agrees, Fits
<1> QED
  BY <1>8, <1>9, <1>10, StepCases DEF SerialInv, Fits

LEMMA InitSafeInv == Init => SafeInv
BY InitTypeInv, InitHandlersOwnChecks, InitRunsNameChecks
   DEF SafeInv, SerialInv, Init, RunsInit, IsBusy, IdleHandler, IdlePost, Ids

LEMMA NextSafeInv ==
  ASSUME AnyCheckId
  PROVE  SafeInv /\ [Next]_vars => SafeInv'
<1> SUFFICES ASSUME SafeInv, [Next]_vars PROVE SafeInv'
  OBVIOUS
<1>1. CASE Next
  BY <1>1, NextTypeInv, NextHandlersOwnChecks, NextRunsNameChecks, NextSerialInv
     DEF SafeInv, TypeInv
<1>2. CASE UNCHANGED vars
  <2> USE <1>2 DEF vars, appVars, runVars
  <2>1. TypeInv'
    BY DEF SafeInv, TypeInv, TypeOK, RunsInv, RunsTypeOK, OneRowPerSha, PostsRefer, Ids
  <2>2. HandlersOwnChecks'
    BY DEF SafeInv, HandlersOwnChecks, OwnsCheck, Apart, Verdict
  <2>3. RunsNameChecks'
    BY DEF SafeInv, RunsNameChecks, Names, Fits, Ids
  <2>4. SerialInv'
    BY DEF SafeInv, SerialInv, IsBusy, Fits, Agrees, Stored, Ids
  <2> QED
    BY <2>1, <2>2, <2>3, <2>4 DEF SafeInv
<1> QED
  BY <1>1, <1>2

\* The state of the App and of its posts is well-formed, and the backend keeps one
\* run per head SHA, whatever handlers overlap, fail or are lost (handlePullRequest,
\* postRun).
THEOREM ChecksAreTyped ==
  ASSUME AnyCheckId
  PROVE  Spec => [](TypeOK /\ OneRowPerSha)
<1>1. SafeInv => TypeOK /\ OneRowPerSha
  BY DEF SafeInv, TypeInv, RunsInv
<1> QED
  BY <1>1, InitSafeInv, NextSafeInv, PTL DEF Spec

\* A stored run names a completed check run of its head; without overlap, the one
\* that has its conclusion (handlePullRequest, checks.update before postRun).
THEOREM RunsMatchChecks ==
  ASSUME AnyCheckId
  PROVE  Spec => []RunMatchesCheck
<1>1. SafeInv => RunMatchesCheck
  BY DEF SafeInv, RunsNameChecks, SerialInv, RunMatchesCheck, Names, Agrees
<1> QED
  BY <1>1, InitSafeInv, NextSafeInv, PTL DEF Spec

\* Without overlap the stored conclusion is the one that the stored report and
\* label call for, whatever calls fail in between.
THEOREM SerialVerdicts ==
  ASSUME AnyCheckId
  PROVE  Spec => []SerialVerdictsFit
<1>1. SafeInv => SerialVerdictsFit
  BY DEF SafeInv, SerialInv, SerialVerdictsFit, VerdictFitsReport, Fits
<1> QED
  BY <1>1, InitSafeInv, NextSafeInv, PTL DEF Spec

-----------------------------------------------------------------------------
(* What is left when nothing is on its way.                                *)

LEMMA InitQuietInv == Init => QuietInv
<1> SUFFICES ASSUME Init PROVE QuietInv
  OBVIOUS
<1>1. SpecsAreChecked
  BY DEF Init, SpecsAreChecked, IdleHandler
<1>2. LatestIsCurrent
  BY DEF Init, LatestIsCurrent, IdleHandler, Checking
<1>3. NothingIsLost
  BY DEF Init, RunsInit, NothingIsLost, IdleHandler, IdlePost
<1> QED
  BY <1>1, <1>2, <1>3 DEF QuietInv

\* The steps of a handler: what they do to it and to the check runs.
LEMMA HandlerMoves ==
  ASSUME TypeOK, HandlersOwnChecks, NEW h \in Posts, HandlerStep(h)
  PROVE  /\ handler[h].pc # "idle"
         /\ \A g \in Posts : g # h => handler'[g] = handler[g]
         /\ \/ handler'[h].pc = "idle"
            \/ /\ handler'[h].head = handler[h].head
               /\ handler'[h].bypass = handler[h].bypass
         /\ UNCHANGED <<pull, webhooks, faults, mixed>>
<1>1. CASE CreateCheck(h)
  BY <1>1, Begin DEF CreateCheck
<1>2. CASE SkipEvent(h) \/ CompleteCrashed(h) \/ FinishRun(h)
  BY <1>2, Leave DEF SkipEvent, CompleteCrashed, FinishRun
<1>3. CASE FetchSpecs(h) \/ RunDiff(h) \/ CompleteCheck(h) \/ CreateComment(h)
           \/ PersistRun(h)
  <2>1. PICK to : handler[h].pc # "idle" /\ handler' = [handler EXCEPT ![h].pc = to]
    BY <1>3 DEF FetchSpecs, RunDiff, CompleteCheck, CreateComment, PersistRun, Await
  <2>2. UNCHANGED <<pull, webhooks, faults, mixed>>
    BY <1>3 DEF FetchSpecs, RunDiff, CompleteCheck, CreateComment, PersistRun, Await
  <2> QED
    BY <2>1, <2>2, Advance
<1> QED
  BY <1>1, <1>2, <1>3 DEF HandlerStep

LEMMA NextSpecsAreChecked ==
  ASSUME TypeOK, HandlersOwnChecks, SpecsAreChecked, Next
  PROVE  SpecsAreChecked'
<1>1. ASSUME NEW h \in Posts, handler'[h].pc \notin {"idle", "fetch"} =>
                                handler'[h].head \notin SpeclessShas,
             \A g \in Posts : g # h => handler'[g] = handler[g],
             \A i \in DOMAIN checks' :
               \/ i \in DOMAIN checks /\ checks'[i].sha = checks[i].sha
               \/ checks'[i].sha \notin SpeclessShas
      PROVE  SpecsAreChecked'
  BY <1>1 DEF SpecsAreChecked
<1>2. ASSUME UNCHANGED <<handler, checks>>
      PROVE  SpecsAreChecked'
  BY <1>2 DEF SpecsAreChecked
<1>3. ASSUME NEW s \in Snapshots, ChangePull(s)
      PROVE  SpecsAreChecked'
  BY <1>2, <1>3 DEF ChangePull
<1>4. ASSUME NEW h \in Posts, NEW i \in DOMAIN webhooks, Deliver(h, i)
      PROVE  SpecsAreChecked'
  <2>1. handler'[h].pc = "fetch" /\ \A g \in Posts : g # h => handler'[g] = handler[g]
    BY <1>4 DEF Deliver, TypeOK
  <2> QED
    BY <1>1, <1>4, <2>1 DEF Deliver
<1>5. ASSUME NEW h \in Posts, HandlerStep(h)
      PROVE  SpecsAreChecked'
  <2>1. CASE CreateCheck(h)
    <3>1. [sha |-> handler[h].head, status |-> "in_progress"] \in CheckRun
      BY <2>1, HandlerType DEF CreateCheck, CheckRun, Statuses
    <3>2. handler[h].head \notin SpeclessShas
      BY <2>1 DEF CreateCheck, SpecsAreChecked
    <3>3. ASSUME NEW i \in DOMAIN checks'
          PROVE  \/ i \in DOMAIN checks /\ checks'[i].sha = checks[i].sha
                 \/ checks'[i].sha \notin SpeclessShas
      BY <2>1, <3>1, <3>2, AddCheck, ChecksType DEF CreateCheck
    <3> QED
      BY <1>1, <2>1, <3>2, <3>3, Begin
  <2>2. CASE CompleteCheck(h) \/ CompleteCrashed(h)
    <3>1. handler[h].head \notin SpeclessShas
      BY <2>2, Completion DEF SpecsAreChecked, Uncompleted
    <3> QED
      BY <1>1, <1>5, <2>2, <3>1, Completion, HandlerMoves
  <2>3. CASE UNCHANGED checks
    <3>1. handler[h].pc \in {"idle", "fetch"} =>
            handler'[h].pc = "idle" \/ handler[h].head \notin SpeclessShas
      BY <1>5, <2>3, HandlerMoves, Leave
         DEF HandlerStep, FetchSpecs, SkipEvent, CreateCheck, RunDiff, CompleteCheck,
             CompleteCrashed, CreateComment, PersistRun, FinishRun, Await
    <3>2. handler[h].head \notin SpeclessShas \/ handler'[h].pc = "idle"
      BY <3>1 DEF SpecsAreChecked
    <3> QED
      BY <1>1, <1>5, <2>3, <3>2, HandlerMoves
  <2> QED
    BY <1>5, <2>1, <2>2, <2>3 DEF HandlerStep, FetchSpecs, SkipEvent, RunDiff,
       CreateComment, PersistRun, FinishRun
<1>6. ASSUME NEW h \in Posts, BackendStep(h) \/ FailBackend(h)
      PROVE  SpecsAreChecked'
  BY <1>2, <1>6 DEF BackendStep, FailBackend, appVars
<1>7. ASSUME NEW h \in Posts, FailHandler(h)
      PROVE  SpecsAreChecked'
  BY <1>1, <1>7, Leave DEF FailHandler
<1> QED
  BY <1>3, <1>4, <1>5, <1>6, <1>7 DEF Next

\* Taking the first webhook leaves the last one, unless it is the only one.
LEMMA TakeFirst ==
  ASSUME NEW w \in Seq(Snapshots), 1 \in DOMAIN w
  PROVE  IF RemoveAt(w, 1) = <<>> THEN Len(w) = 1
         ELSE RemoveAt(w, 1)[Len(RemoveAt(w, 1))] = w[Len(w)]
<1> DEFINE rest == SubSeq(w, 2, Len(w))
<1>1. Len(w) \in Nat /\ Len(w) >= 1 /\ \A j \in 1..Len(w) : w[j] \in Snapshots
  OBVIOUS
<1>2. SubSeq(w, 1, 0) = <<>>
  BY SubSeqEmpty
<1>3. /\ rest \in Seq(Snapshots)
      /\ Len(rest) = Len(w) - 1
      /\ \A j \in 1..(Len(w) - 1) : rest[j] = w[j + 1]
  <2>1. PICK n \in Nat : n = Len(w) /\ n >= 1
    BY <1>1
  <2>2. \A j \in 2..n : w[j] \in Snapshots
    BY <1>1, <2>1
  <2>3. /\ SubSeq(w, 2, n) \in Seq(Snapshots)
        /\ Len(SubSeq(w, 2, n)) = IF 2 <= n THEN n - 2 + 1 ELSE 0
        /\ \A j \in 1..(n - 2 + 1) : SubSeq(w, 2, n)[j] = w[2 + j - 1]
    BY <2>2, SubSeqProperties
  <2>4. ASSUME NEW j \in 1..(n - 1)
        PROVE  SubSeq(w, 2, n)[j] = w[j + 1]
    <3>1. j \in 1..(n - 2 + 1) /\ 2 + j - 1 = j + 1
      BY <2>1
    <3> QED
      BY <2>3, <3>1
  <2> QED
    BY <2>1, <2>3, <2>4
<1>4. RemoveAt(w, 1) = SubSeq(w, 1, 0) \o rest
  BY <1>1 DEF RemoveAt
<1>5. RemoveAt(w, 1) = rest
  BY <1>2, <1>3, <1>4, ConcatEmptySeq
<1>6. CASE rest = <<>>
  BY <1>1, <1>3, <1>5, <1>6
<1>7. CASE rest # <<>>
  <2>1. Len(rest) # 0
    BY <1>3, <1>7, EmptySeq
  <2>2. Len(rest) \in 1..(Len(w) - 1) /\ Len(rest) + 1 = Len(w)
    BY <1>1, <1>3, <2>1
  <2>3. rest[Len(rest)] = w[Len(w)]
    BY <1>3, <2>2
  <2> QED
    BY <1>5, <1>7, <2>3
<1> QED
  BY <1>6, <1>7

LEMMA NextLatestIsCurrent ==
  ASSUME SafeInv, LatestIsCurrent, Next
  PROVE  LatestIsCurrent'
<1> SUFFICES ASSUME ~mixed'
             PROVE  /\ webhooks' # <<>> => webhooks'[Len(webhooks')] = pull'
                    /\ \A h \in Posts : webhooks' = <<>> /\ handler'[h].pc # "idle" =>
                         handler'[h].head = pull'.head /\ handler'[h].bypass = pull'.bypass
                    /\ \A h \in Posts : handler'[h].pc \in Checking =>
                         handler'[h].check = Len(checks')
  BY DEF LatestIsCurrent
<1>1. ~mixed
  BY OrderStays
<1>2. /\ webhooks # <<>> => webhooks[Len(webhooks)] = pull
      /\ \A h \in Posts : webhooks = <<>> /\ handler[h].pc # "idle" =>
           handler[h].head = pull.head /\ handler[h].bypass = pull.bypass
      /\ \A h \in Posts : handler[h].pc \in Checking => handler[h].check = Len(checks)
  BY <1>1 DEF LatestIsCurrent
<1>3. \A g, h \in Posts : handler[g].pc # "idle" /\ handler[h].pc # "idle" => g = h
  BY <1>1 DEF SafeInv, SerialInv, IsBusy
<1>4. TypeOK /\ HandlersOwnChecks
  BY DEF SafeInv, TypeInv
<1>5. ASSUME NEW s \in Snapshots, ChangePull(s)
      PROVE  LatestIsCurrent'
  <2>1. webhooks \in Seq(Snapshots) /\ webhooks' = Append(webhooks, s)
    BY <1>4, <1>5 DEF ChangePull, TypeOK
  <2>2. webhooks' # <<>> /\ webhooks'[Len(webhooks')] = s
    BY <2>1
  <2> QED
    BY <1>2, <1>5, <2>2 DEF ChangePull, LatestIsCurrent
<1>6. ASSUME NEW h \in Posts, NEW i \in DOMAIN webhooks, Deliver(h, i)
      PROVE  LatestIsCurrent'
  <2>1. i = 1 /\ \A g \in Posts : handler[g].pc = "idle"
    BY <1>6 DEF Deliver, IsBusy
  <2>2. webhooks \in Seq(Snapshots) /\ webhooks # <<>>
    BY <1>4, <2>1 DEF TypeOK
  <2>3. IF webhooks' = <<>> THEN webhooks[1] = pull ELSE webhooks'[Len(webhooks')] = pull
    BY <1>2, <1>6, <2>1, <2>2, TakeFirst DEF Deliver
  <2>4. /\ handler'[h].pc = "fetch"
        /\ handler'[h].head = webhooks[1].head /\ handler'[h].bypass = webhooks[1].bypass
        /\ \A g \in Posts : g # h => handler'[g] = handler[g]
    BY <1>4, <1>6, <2>1 DEF Deliver, TypeOK
  <2> QED
    BY <1>6, <2>1, <2>3, <2>4 DEF Deliver, LatestIsCurrent, Checking
<1>7. ASSUME NEW h \in Posts, HandlerStep(h)
      PROVE  LatestIsCurrent'
  <2>1. /\ handler[h].pc # "idle"
        /\ \A g \in Posts : g # h => handler'[g] = handler[g]
        /\ \/ handler'[h].pc = "idle"
           \/ handler'[h].head = handler[h].head /\ handler'[h].bypass = handler[h].bypass
        /\ pull' = pull /\ webhooks' = webhooks
    BY <1>4, <1>7, HandlerMoves
  <2>2. \A g \in Posts : g # h => handler'[g].pc = "idle"
    BY <1>3, <2>1
  <2>3. handler'[h].pc \in Checking => handler'[h].check = Len(checks')
    <3>1. CASE CreateCheck(h)
      <4>1. [sha |-> handler[h].head, status |-> "in_progress"] \in CheckRun
        BY <1>4, <3>1, HandlerType DEF CreateCheck, CheckRun, Statuses
      <4>2. checks' = Append(checks, [sha |-> handler[h].head, status |-> "in_progress"])
        BY <3>1 DEF CreateCheck
      <4>3. Len(checks') = Len(checks) + 1
        BY <1>4, <4>1, <4>2, AddCheck, ChecksType
      <4>4. handler'[h].check = Len(checks) + 1
        BY <1>4, <3>1, Begin
      <4> QED
        BY <4>3, <4>4
    <3>2. CASE CompleteCheck(h)
      <4>1. handler'[h].check = handler[h].check /\ handler[h].pc \in Checking
        BY <1>4, <3>2, Advance DEF CompleteCheck, Await, Checking
      <4> QED
        BY <1>2, <1>4, <3>2, <4>1, Completion
    <3>3. CASE SkipEvent(h) \/ CompleteCrashed(h) \/ FinishRun(h)
      BY <1>4, <3>3, Leave DEF SkipEvent, CompleteCrashed, FinishRun, Checking
    <3>4. CASE FetchSpecs(h)
      BY <1>4, <3>4, Advance DEF FetchSpecs, Await, Checking
    <3>5. CASE RunDiff(h) \/ CreateComment(h) \/ PersistRun(h)
      <4>1. PICK to : handler' = [handler EXCEPT ![h].pc = to]
        BY <3>5 DEF RunDiff, CreateComment, PersistRun, Await
      <4>2. handler[h].pc \in Checking /\ checks' = checks
        BY <3>5 DEF RunDiff, CreateComment, PersistRun, Await, Checking
      <4> QED
        BY <1>2, <1>4, <2>1, <4>1, <4>2, Advance
    <3> QED
      BY <1>7, <3>1, <3>2, <3>3, <3>4, <3>5 DEF HandlerStep
  <2> QED
    BY <1>2, <2>1, <2>2, <2>3 DEF LatestIsCurrent, Checking
<1>8. ASSUME NEW h \in Posts, BackendStep(h) \/ FailBackend(h)
      PROVE  LatestIsCurrent'
  BY <1>2, <1>8 DEF BackendStep, FailBackend, appVars, LatestIsCurrent
<1>9. ASSUME NEW h \in Posts, FailHandler(h)
      PROVE  LatestIsCurrent'
  BY <1>2, <1>4, <1>9, Leave DEF FailHandler, LatestIsCurrent, Checking
<1> QED
  BY <1>5, <1>6, <1>7, <1>8, <1>9 DEF Next, LatestIsCurrent

\* The newest check run of a head, when it is the last one of all.
LEMMA LastIsNewest ==
  ASSUME TypeOK, NEW sha, Len(checks) \in DOMAIN checks, checks[Len(checks)].sha = sha,
         NEW i \in NewestCheck(sha)
  PROVE  i = Len(checks)
<1>1. i \in 1..Len(checks) /\ Len(checks) \in Nat
  BY ChecksType DEF NewestCheck
<1>2. Len(checks) <= i
  BY DEF NewestCheck
<1> QED
  BY <1>1, <1>2

\* A check run of the pull request that has a verdict, and a run for it, is settled.
LEMMA FinishedIsSettled ==
  ASSUME SafeInv, NEW h \in Posts, handler[h].pc = "posted",
         handler[h].head = pull.head, handler[h].bypass = pull.bypass,
         StoredAs(handler[h].head, handler[h].check)
  PROVE  IsSettled(handler[h].check)
<1>1. checks[handler[h].check].status = Verdict(h).conclusion
  BY DEF SafeInv, HandlersOwnChecks, OwnsCheck, Checking, Uncompleted
<1> QED
  BY <1>1 DEF IsSettled, Verdict, Run

\* A request that is answered is stored when nothing overlaps it.
LEMMA EndStores ==
  ASSUME SafeInv, ~mixed, NEW p \in Posts, EndPost(p)
  PROVE  \E id \in Ids' : /\ rows'[id].sha = post[p].sha
                          /\ rows'[id].data.check = post[p].new.check
<1> DEFINE q == post[p]
<1>1. RunsInv
  BY DEF SafeInv, TypeInv
<1>2. q.pc = "commit" /\ q \in OpenPosts
  BY <1>1, Answer
<1>3. IF q.id = 0 THEN ~Stored(q.sha) ELSE q.old = rows[q.id].data
  BY <1>2 DEF SafeInv, SerialInv
<1>4. CASE CommitUpdate(p)
  <2>1. /\ q.id \in Ids /\ rows[q.id].sha = q.sha
        /\ rows' = [rows EXCEPT ![q.id].data = Merged(@, q.old, q.new)]
    BY <1>1, <1>4 DEF CommitUpdate, RunsInv, PostsRefer
  <2>2. Merged(rows[q.id].data, q.old, q.new) = q.new
    BY <1>2, <1>3, <1>4, MergeOfCurrent DEF CommitUpdate, OpenPosts
  <2>3. rows' = [rows EXCEPT ![q.id] = [rows[q.id] EXCEPT !.data = q.new]]
    BY <2>1, <2>2
  <2>4. rows[q.id] \in [sha : Shas, data : Data]
    BY <1>1, <2>1, RowType
  <2>5. DOMAIN rows = Ids /\ Len(rows) \in Nat
    BY <1>1 DEF RunsInv, RunsTypeOK, Ids
  <2>6. rows' \in Seq([sha : Shas, data : Data]) /\ DOMAIN rows' = Ids
    BY <1>1, <1>4, <2>3, <2>5, EndPostKeepsInv DEF EndPost, RunsInv, RunsTypeOK
  <2>7. q.id \in Ids'
    BY <2>1, <2>6 DEF Ids
  <2>8. rows'[q.id] = [rows[q.id] EXCEPT !.data = q.new]
    BY <2>1, <2>3, <2>5
  <2> QED
    BY <2>1, <2>4, <2>7, <2>8
<1>5. CASE CommitInsert(p)
  <2>1. /\ Ids' = 1..(Len(rows) + 1)
        /\ rows'[Len(rows) + 1] = [sha |-> q.sha, data |-> q.new]
        /\ Len(rows) \in Nat
    BY <1>1, <1>5 DEF CommitInsert, RunsInv, RunsTypeOK, Ids
  <2> QED
    BY <2>1
<1>6. CASE RefuseInsert(p)
  BY <1>3, <1>6 DEF RefuseInsert
<1> QED
  BY <1>4, <1>5, <1>6 DEF EndPost

LEMMA NextNothingIsLost ==
  ASSUME AnyCheckId, SafeInv, QuietInv, Next
  PROVE  NothingIsLost'
<1> SUFFICES ASSUME ~mixed', faults' = 0
             PROVE  NothingIsLost'
  BY DEF NothingIsLost
<1>1. ~mixed
  BY OrderStays
<1>2. TypeOK /\ HandlersOwnChecks /\ TypeInv /\ RunsInv
  BY DEF SafeInv, TypeInv
<1>3. faults = 0
  BY <1>2, HandlerMoves DEF TypeOK, Next, ChangePull, Deliver, BackendStep, FailHandler,
                            FailBackend, appVars
<1>4. /\ \A h \in Posts : post[h].pc # "idle" =>
           /\ handler[h].pc = "posted"
           /\ post[h].sha = handler[h].head
           /\ post[h].new.check = handler[h].check
      /\ \A h \in Posts : handler[h].pc = "posted" /\ post[h].pc = "idle" =>
           StoredAs(handler[h].head, handler[h].check)
      /\ webhooks = <<>> /\ (\A h \in Posts : handler[h].pc = "idle") =>
           \A i \in NewestCheck(pull.head) : IsSettled(i)
  BY <1>1, <1>3 DEF QuietInv, NothingIsLost
<1>5. \A g, h \in Posts : IsBusy(g) /\ IsBusy(h) => g = h
  BY <1>1 DEF SafeInv, SerialInv
<1>6. ASSUME NEW s \in Snapshots, ChangePull(s)
      PROVE  NothingIsLost'
  <2>1. webhooks' # <<>>
    BY <1>2, <1>6 DEF ChangePull, TypeOK
  <2> QED
    BY <1>4, <1>6, <2>1 DEF ChangePull, runVars, NothingIsLost, StoredAs, Ids
<1>7. ASSUME NEW h \in Posts, NEW i \in DOMAIN webhooks, Deliver(h, i)
      PROVE  NothingIsLost'
  <2>1. handler'[h].pc = "fetch" /\ \A g \in Posts : g # h => handler'[g] = handler[g]
    BY <1>2, <1>7 DEF Deliver, TypeOK
  <2>2. rows' = rows /\ post' = post /\ post[h].pc = "idle"
    BY <1>7 DEF Deliver, runVars, IsBusy
  <2> QED
    BY <1>4, <2>1, <2>2 DEF NothingIsLost, StoredAs, Ids
<1>8. ASSUME NEW h \in Posts, HandlerStep(h)
      PROVE  NothingIsLost'
  <2>1. /\ handler[h].pc # "idle"
        /\ \A g \in Posts : g # h => handler'[g] = handler[g]
        /\ pull' = pull /\ webhooks' = webhooks
    BY <1>2, <1>8, HandlerMoves
  <2>2. \A g \in Posts : g # h => handler[g].pc = "idle" /\ post[g].pc = "idle"
    BY <1>5, <2>1 DEF IsBusy
  <2>3. CASE PersistRun(h)
    <3>1. \A g \in Posts : g # h => post'[g] = post[g]
      BY <1>2, <2>3, Request
    <3>2. /\ post'[h].pc = "commit" /\ post'[h].sha = handler[h].head
          /\ post'[h].new.check = handler[h].check
      BY <1>2, <2>3, Request
    <3>3. /\ handler'[h].pc = "posted"
          /\ handler'[h].head = handler[h].head
          /\ handler'[h].check = handler[h].check
      BY <1>2, <2>1, <2>3, Advance DEF PersistRun
    <3> QED
      BY <2>1, <2>2, <3>1, <3>2, <3>3 DEF NothingIsLost
  <2>4. CASE rows' = rows /\ post' = post /\ handler'[h].pc \notin {"idle", "posted"}
                   /\ handler[h].pc # "posted"
    BY <1>4, <2>1, <2>2, <2>4 DEF NothingIsLost
  <2>5. ASSUME rows' = rows, post' = post, post[h].pc = "idle", handler'[h].pc = "idle",
               webhooks' = <<>> => \A i \in NewestCheck(pull.head)' : IsSettled(i)'
        PROVE  NothingIsLost'
    BY <2>1, <2>2, <2>5 DEF NothingIsLost
  <2>6. webhooks = <<>> => handler[h].head = pull.head /\ handler[h].bypass = pull.bypass
    BY <1>1, <2>1 DEF QuietInv, LatestIsCurrent
  <2>7. handler[h].pc \in Checking =>
          handler[h].check = Len(checks) /\ Len(checks) \in DOMAIN checks
          /\ checks[Len(checks)].sha = handler[h].head
    BY <1>1, <1>2 DEF QuietInv, LatestIsCurrent, HandlersOwnChecks, OwnsCheck
  <2>8. CASE SkipEvent(h)
    <3>1. /\ rows' = rows /\ post' = post /\ post[h].pc = "idle" /\ handler'[h].pc = "idle"
          /\ checks' = checks /\ handler[h].head \in SpeclessShas
      BY <1>2, <1>4, <2>8, Leave DEF SkipEvent, runVars
    <3>2. webhooks = <<>> => NewestCheck(pull.head) = {}
      BY <2>6, <3>1 DEF QuietInv, SpecsAreChecked, NewestCheck
    <3>3. webhooks' = <<>> => NewestCheck(pull.head)' = {}
      BY <2>1, <3>1, <3>2 DEF NewestCheck
    <3> QED
      BY <2>5, <3>1, <3>3
  <2>9. CASE FinishRun(h)
    <3>1. /\ rows' = rows /\ post' = post /\ post[h].pc = "idle" /\ handler'[h].pc = "idle"
          /\ checks' = checks /\ handler[h].pc = "posted"
      BY <1>2, <2>9, Leave DEF FinishRun, runVars
    <3>2. ASSUME webhooks = <<>>, NEW i \in NewestCheck(pull.head)
          PROVE  IsSettled(i)
      <4>1. i = handler[h].check
        BY <1>2, <2>6, <2>7, <3>1, <3>2, LastIsNewest DEF Checking
      <4> QED
        BY <1>4, <2>6, <3>1, <3>2, <4>1, FinishedIsSettled
    <3>3. webhooks' = <<>> => \A i \in NewestCheck(pull.head)' : IsSettled(i)'
      BY <2>1, <3>1, <3>2 DEF NewestCheck, IsSettled, StoredAs, Ids
    <3> QED
      BY <2>5, <3>1, <3>3
  <2>10. CASE CompleteCrashed(h)
    <3>1. /\ rows' = rows /\ post' = post /\ post[h].pc = "idle" /\ handler'[h].pc = "idle"
          /\ handler[h].pc = "crashed"
      BY <1>2, <1>4, <2>10, Leave DEF CompleteCrashed, runVars
    <3>2. /\ DOMAIN checks' = DOMAIN checks
          /\ \A j \in DOMAIN checks : checks'[j].sha = checks[j].sha
      BY <1>2, <2>10, Completion
    <3>3. checks'[handler[h].check].status = "action_required"
      <4>1. handler[h].pc \in Uncompleted /\ "action_required" \in Statuses
        BY <3>1 DEF Uncompleted, Statuses
      <4> QED
        BY <1>2, <2>10, <4>1, StatusStep DEF CompleteCrashed
    <3>4. ASSUME webhooks = <<>>, NEW i \in NewestCheck(pull.head)'
          PROVE  IsSettled(i)'
      <4>1. i \in NewestCheck(pull.head)
        BY <2>1, <3>2 DEF NewestCheck
      <4>2. i = handler[h].check
        BY <1>2, <2>6, <2>7, <3>1, <3>4, <4>1, LastIsNewest DEF Checking
      <4> QED
        BY <3>3, <4>2 DEF IsSettled
    <3> QED
      BY <2>1, <2>5, <3>1, <3>4
  <2>11. CASE FetchSpecs(h) \/ CreateCheck(h) \/ RunDiff(h) \/ CompleteCheck(h)
              \/ CreateComment(h)
    <3>1. rows' = rows /\ post' = post /\ handler[h].pc # "posted"
      BY <2>11 DEF FetchSpecs, CreateCheck, RunDiff, CompleteCheck, CreateComment, Await,
                   runVars
    <3>2. CASE CreateCheck(h)
      BY <1>2, <2>4, <3>1, <3>2, Begin
    <3>3. CASE FetchSpecs(h) \/ RunDiff(h) \/ CompleteCheck(h) \/ CreateComment(h)
      <4>1. PICK to \in {"create", "complete", "crashed", "comment", "persist"} :
              handler' = [handler EXCEPT ![h].pc = to]
        BY <3>3 DEF FetchSpecs, RunDiff, CompleteCheck, CreateComment, Await
      <4> QED
        BY <1>2, <2>1, <2>4, <3>1, <4>1, Advance
    <3> QED
      BY <2>11, <3>2, <3>3
  <2> QED
    BY <1>8, <2>3, <2>8, <2>9, <2>10, <2>11 DEF HandlerStep
<1>9. ASSUME NEW p \in Posts, BackendStep(p)
      PROVE  NothingIsLost'
  <2>1. EndPost(p) /\ UNCHANGED appVars
    BY <1>9 DEF BackendStep
  <2>2. /\ post[p].pc = "commit" /\ post[p] \in OpenPosts
        /\ post'[p].pc = "idle"
        /\ \A q \in Posts : q # p => post'[q] = post[q]
    BY <1>2, <2>1, Answer
  <2>3. /\ handler[p].pc = "posted"
        /\ post[p].sha = handler[p].head
        /\ post[p].new.check = handler[p].check
    BY <1>4, <2>2
  <2>4. \A q \in Posts : q # p => handler[q].pc = "idle" /\ post[q].pc = "idle"
    BY <1>5, <2>2 DEF IsBusy
  <2>5. \E id \in Ids' : /\ rows'[id].sha = post[p].sha
                         /\ rows'[id].data.check = post[p].new.check
    BY <1>1, <2>1, <2>2, EndStores
  <2>6. StoredAs(handler[p].head, handler[p].check)'
    BY <2>1, <2>3, <2>5 DEF StoredAs, appVars
  <2> QED
    BY <2>1, <2>2, <2>3, <2>4, <2>6 DEF NothingIsLost, appVars
<1>10. ASSUME NEW h \in Posts, FailHandler(h) \/ FailBackend(h)
       PROVE  FALSE
  BY <1>2, <1>3, <1>10 DEF FailHandler, FailBackend, TypeOK
<1> QED
  BY <1>6, <1>7, <1>8, <1>9, <1>10 DEF Next

LEMMA NextQuietInv ==
  ASSUME AnyCheckId
  PROVE  SafeInv /\ QuietInv /\ [Next]_vars => QuietInv'
<1> SUFFICES ASSUME SafeInv, QuietInv, [Next]_vars PROVE QuietInv'
  OBVIOUS
<1>1. CASE Next
  BY <1>1, NextSpecsAreChecked, NextLatestIsCurrent, NextNothingIsLost
     DEF QuietInv, SafeInv, TypeInv
<1>2. CASE UNCHANGED vars
  <2> USE <1>2 DEF vars, appVars, runVars
  <2>1. SpecsAreChecked'
    BY DEF QuietInv, SpecsAreChecked
  <2>2. LatestIsCurrent'
    BY DEF QuietInv, LatestIsCurrent
  <2>3. NothingIsLost'
    BY DEF QuietInv, NothingIsLost, NewestCheck, IsSettled, StoredAs, Ids
  <2> QED
    BY <2>1, <2>2, <2>3 DEF QuietInv
<1> QED
  BY <1>1, <1>2

\* When all is quiet and no call failed, the newest check run of the head is settled.
LEMMA QuietIsSettled ==
  QuietInv => (Quiet /\ faults = 0 /\ ~mixed =>
                 \A i \in NewestCheck(pull.head) : IsSettled(i))
BY DEF QuietInv, NothingIsLost, Quiet, IsBusy

\* When webhooks came one after the other, no call failed and nothing is on its way,
\* the backend's run for the head is the one of the check run that GitHub shows.
THEOREM HistoryStaysCurrent ==
  ASSUME AnyCheckId
  PROVE  Spec => []HistoryIsCurrent
<1>1. QuietInv => HistoryIsCurrent
  BY QuietIsSettled DEF HistoryIsCurrent, IsSettled, StoredAs
<1> QED
  BY <1>1, InitSafeInv, NextSafeInv, InitQuietInv, NextQuietInv, PTL DEF Spec

\* And that check run shows what the head and the label of the pull request call for
\* (apps/github_app/README.md, 6-10).
THEOREM VerdictIsOfTheLabel ==
  ASSUME AnyCheckId
  PROVE  Spec => []VerdictFollowsLabel
<1>1. QuietInv => VerdictFollowsLabel
  BY QuietIsSettled DEF VerdictFollowsLabel, IsSettled
<1> QED
  BY <1>1, InitSafeInv, NextSafeInv, InitQuietInv, NextQuietInv, PTL DEF Spec
=============================================================================
