---------------------------- MODULE CampaignFSM ----------------------------
(***************************************************************************)
(* The pure part of packages/guardian_campaigns/state_machine.py: the      *)
(* states, the transition table, the guards and the automatic evaluation.  *)
(* There are no variables here; Campaigns and Decay extend this module.    *)
(*                                                                         *)
(* Percentages are integers in hundredths of a percent, so the default     *)
(* threshold of 5.0 is 500 and _GUARD_EPSILON (0.01) is 1.                 *)
(***************************************************************************)
EXTENDS Integers

STATES ==
  {"draft", "active", "decaying", "ready_to_remove", "completed", "aborted"}

\* No trigger has one of these as a source.
TerminalStates == {"completed", "aborted"}

Triggers == {"activate", "start_decay", "mark_ready", "complete", "abort"}

\* A plausible slip: "abort" from every state but its own.
SourcesAbortAnywhere ==
  [activate    |-> {"draft"},
   start_decay |-> {"active"},
   mark_ready  |-> {"decaying"},
   complete    |-> {"ready_to_remove"},
   abort       |-> STATES \ {"aborted"}]

Sources ==
  [activate    |-> {"draft"},
   start_decay |-> {"active"},
   mark_ready  |-> {"decaying"},
   complete    |-> {"ready_to_remove"},
   abort       |-> {"draft", "active", "decaying", "ready_to_remove"}]

Dest ==
  [activate    |-> "active",
   start_decay |-> "decaying",
   mark_ready  |-> "ready_to_remove",
   complete    |-> "completed",
   abort       |-> "aborted"]

GUARD_EPSILON == 1

\* A plausible slip: the comparison is strict as well as shifted by epsilon.
GuardStartDecayStrict(usage, peak, threshold) ==
  \/ peak <= 0
  \/ usage * 10000 < (threshold - GUARD_EPSILON) * peak

\* usage / peak * 100 <= threshold - epsilon, without the division.
GuardStartDecay(usage, peak, threshold) ==
  \/ peak <= 0
  \/ usage * 10000 <= (threshold - GUARD_EPSILON) * peak

GuardMarkReady(usage, peak) ==
  \/ peak <= 0
  \/ usage * 10000 <= (100 - GUARD_EPSILON) * peak

\* The condition the transition table attaches to a trigger.
Guard(trigger, usage, peak, threshold) ==
  /\ trigger = "start_decay" => GuardStartDecay(usage, peak, threshold)
  /\ trigger = "mark_ready"  => GuardMarkReady(usage, peak)

\* FALSE is the MachineError of the transitions library.
Permitted(trigger, state) == state \in Sources[trigger]

Fires(trigger, state, usage, peak, threshold) ==
  /\ Permitted(trigger, state)
  /\ Guard(trigger, usage, peak, threshold)

\* A plausible slip: the name of the trigger is stored, not its destination.
FireStoresTrigger(trigger, state, usage, peak, threshold) ==
  IF Guard(trigger, usage, peak, threshold) THEN trigger ELSE state

\* A permitted trigger whose condition is false leaves the state alone.
Fire(trigger, state, usage, peak, threshold) ==
  IF Guard(trigger, usage, peak, threshold) THEN Dest[trigger] ELSE state

\* A plausible slip: the loop goes on after a trigger fired.
EvaluateWithoutBreak(state, usage, peak, threshold) ==
  LET first == IF Fires("start_decay", state, usage, peak, threshold)
               THEN Dest["start_decay"]
               ELSE state
  IN IF Fires("mark_ready", first, usage, peak, threshold)
     THEN Dest["mark_ready"]
     ELSE first

(***************************************************************************)
(* evaluate() on a freshly built FSM: try start_decay, then mark_ready;    *)
(* the first that fires ends the loop. The transition lock is a field of   *)
(* the instance and every caller builds a new instance, so it never bites. *)
(***************************************************************************)
Evaluate(state, usage, peak, threshold) ==
  IF Fires("start_decay", state, usage, peak, threshold)
  THEN Dest["start_decay"]
  ELSE IF Fires("mark_ready", state, usage, peak, threshold)
  THEN Dest["mark_ready"]
  ELSE state
=============================================================================
