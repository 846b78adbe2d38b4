------------------------------- MODULE Decay -------------------------------
(***************************************************************************)
(* The decay curve of one campaign: the usage of its endpoint changes, and *)
(* now and then an evaluation samples it, stores a campaign_metrics row     *)
(* with the new EWMA (guardian_campaigns/decay.py) and lets the state      *)
(* machine decide. Evaluations by jobs exclude each other (module          *)
(* Campaigns), but POST /campaigns/{id}/evaluate takes no lock: it reads   *)
(* committed rows, and its own are seen when it commits.                   *)
(*                                                                         *)
(* ewma_value is rounded to 4 decimals, so it is an integer number of      *)
(* units of 1/Precision; Precision is 10000 in the code.                   *)
(***************************************************************************)
EXTENDS CampaignFSM, Sequences

CONSTANTS
  Window,       \* decay_window_days, also the span of the EWMA
  Precision,    \* units per request in a stored ewma_value
  Threshold,    \* usage_threshold_pct, in hundredths of a percent
  UsageLevels,  \* rolling usage of the endpoint
  PeakLevels,   \* peak_usage values of an activate request
  MaxOpen       \* bound on evaluations in progress at once

ASSUME DecayAssumption ==
  /\ Window \in Nat \ {0}
  /\ Precision \in Nat \ {0}
  /\ Threshold \in Nat
  /\ UsageLevels \subseteq Nat
  /\ PeakLevels \subseteq Nat
  /\ MaxOpen \in Nat \ {0}

VARIABLES
  usage,      \* rolling usage of the deprecated endpoint right now
  state,      \* campaign.state
  peak,       \* campaign.peak_usage
  sampled,    \* is there a campaign_metrics row?
  ewma,       \* ewma_value of the one with the latest sampled_at
  open,       \* evaluations in progress, in the order of their sampled_at
  lowest,     \* history: least usage sampled so far
  highest     \* history: greatest usage sampled so far

vars == <<usage, state, peak, sampled, ewma, open, lowest, highest>>

OpenEvaluations ==
  [sample : UsageLevels, ewma : Nat, from : STATES, to : STATES, overtaken : BOOLEAN]

TypeOK ==
  /\ usage \in UsageLevels
  /\ state \in STATES
  /\ peak \in Nat
  /\ sampled \in BOOLEAN
  /\ ewma \in Nat
  /\ open \in Seq(OpenEvaluations)
  /\ lowest \in Nat
  /\ highest \in Nat

Init ==
  /\ usage \in UsageLevels
  /\ state = "draft"
  /\ peak = 0
  /\ sampled = FALSE
  /\ ewma = 0
  /\ open = <<>>
  /\ lowest = 0
  /\ highest = 0

\* Rounding n/d to an integer. Python rounds a tie to even, but on the binary
\* approximation of the quotient: either neighbour may come out.
Rounded(n, d) ==
  {q \in (n \div d)..(n \div d + 1) :
     2 * (q * d) <= 2 * n + d /\ 2 * n <= 2 * (q * d) + d}

\* A plausible slip: the previous EWMA keeps its full weight.
WeightedSumUndamped(sample, previous) ==
  2 * sample + (Window + 1) * previous

\* alpha = 2 / (Window + 1) weighs the sample, 1 - alpha the previous EWMA.
WeightedSum(sample, previous) == 2 * sample + (Window - 1) * previous

\* A plausible slip: rounding away from zero instead of to nearest.
ComputeEwmaRoundedUp(sample, previous) ==
  LET n == WeightedSum(sample, previous)
  IN {(n + Window) \div (Window + 1)}

ComputeEwma(sample, previous) ==
  Rounded(WeightedSum(sample, previous), Window + 1)

\* The latest stored value, or the sample itself when there is none.
PreviousEwma == IF sampled THEN ewma ELSE usage * Precision

Traffic ==
  /\ usage' \in UsageLevels
  /\ UNCHANGED <<state, peak, sampled, ewma, open, lowest, highest>>

\* activate with a peak_usage, or without one: then the column keeps its 0.
Activate ==
  /\ Permitted("activate", state)
  /\ state' = Dest["activate"]
  /\ peak' \in PeakLevels \cup {peak}
  /\ UNCHANGED <<usage, sampled, ewma, open, lowest, highest>>

\* The usage, the campaign and the latest row are read, and the new row and
\* state are made from them.
Sample ==
  /\ state \notin TerminalStates
  /\ Len(open) < MaxOpen
  /\ \E new \in ComputeEwma(usage * Precision, PreviousEwma) :
       open' = Append(open, [sample |-> usage, ewma |-> new, from |-> state,
                             to |-> Evaluate(state, usage, peak, Threshold),
                             overtaken |-> FALSE])
  /\ UNCHANGED <<usage, state, peak, sampled, ewma, lowest, highest>>

\* The row that was sampled last is the latest, whenever it was committed. The
\* state is written only if a trigger fired.
CommitSample(k) ==
  /\ k \in DOMAIN open
  /\ ewma' = IF open[k].overtaken THEN ewma ELSE open[k].ewma
  /\ sampled' = TRUE
  /\ state' = IF open[k].to = open[k].from THEN state ELSE open[k].to
  /\ open' = [j \in 1..(Len(open) - 1) |->
                 IF j < k THEN [open[j] EXCEPT !.overtaken = TRUE] ELSE open[j + 1]]
  /\ lowest' = IF sampled /\ lowest <= open[k].sample THEN lowest ELSE open[k].sample
  /\ highest' = IF sampled /\ highest >= open[k].sample THEN highest ELSE open[k].sample
  /\ UNCHANGED <<usage, peak>>

Next ==
  \/ Traffic
  \/ Activate
  \/ Sample
  \/ \E k \in 1..MaxOpen : CommitSample(k)

Spec == Init /\ [][Next]_vars

\* Campaigns are evaluated periodically (models.py, "periodically sampled via
\* RQ jobs"), and every evaluation comes to its end; nothing is assumed about
\* traffic or activation.
FairSpec == Spec /\ WF_vars(Sample) /\ WF_vars(CommitSample(1))

-----------------------------------------------------------------------------
\* The stored EWMA never leaves the range of the usage sampled so far, in
\* spite of rounding (test_campaigns_properties.py, Decay 3).
EwmaWithinSamples ==
  sampled => ewma \in (lowest * Precision)..(highest * Precision)

\* How far from a constant usage the rounded EWMA may come to rest.
Tolerance == (Window + 1) \div 4

\* When usage stops changing the curve settles next to it: rounding to four
\* decimals cannot make it stall further away than the tolerance, or cycle.
EwmaSettles ==
  \A level \in UsageLevels :
    <>[](usage = level) =>
      <>[](ewma \in (level * Precision - Tolerance)
                      ..(level * Precision + Tolerance))

\* An active campaign whose endpoint falls out of use for good reaches
\* ready_to_remove by evaluation alone, for any threshold from 0.01% up.
UnusedBecomesReady ==
  <>[](usage = 0) => (state = "active" ~> state = "ready_to_remove")
=============================================================================
