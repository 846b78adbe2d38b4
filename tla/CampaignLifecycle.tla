------------------------- MODULE CampaignLifecycle -------------------------
(***************************************************************************)
(* What a deprecation campaign promises to those who watch it: a campaign  *)
(* is created as a draft and from then on only moves along the edges of    *)
(* its life cycle. Campaigns is shown to implement this specification.     *)
(*                                                                         *)
(* StaleEdges are moves that the documented life cycle does not have. With *)
(* the empty set this is the life cycle of state_machine.py, lines 14-18.  *)
(***************************************************************************)
CONSTANTS Campaigns, StaleEdges

VARIABLE status

DocumentedEdges ==
  {<<"draft", "active">>,
   <<"active", "decaying">>,
   <<"decaying", "ready_to_remove">>,
   <<"ready_to_remove", "completed">>,
   <<"draft", "aborted">>,
   <<"active", "aborted">>,
   <<"decaying", "aborted">>,
   <<"ready_to_remove", "aborted">>}

Edges == DocumentedEdges \cup StaleEdges

Init == status = [c \in Campaigns |-> "none"]

Create(c) ==
  /\ status[c] = "none"
  /\ status' = [status EXCEPT ![c] = "draft"]

Move(c) ==
  \E e \in Edges :
    /\ status[c] = e[1]
    /\ status' = [status EXCEPT ![c] = e[2]]

Next == \E c \in Campaigns : Create(c) \/ Move(c)

Spec == Init /\ [][Next]_status
=============================================================================
