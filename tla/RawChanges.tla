----------------------------- MODULE RawChanges -----------------------------
(***************************************************************************)
(* RawChange (guardian_diff/models.py): one difference between two         *)
(* contracts. It keeps what the rules and the join with the clients look   *)
(* at: its kind, its location and the calls that its detail names. Where   *)
(* one location changes in several values at once, value tells them apart. *)
(***************************************************************************)

NoValue == "-"
Call(method, path) == [method |-> method, path |-> path]
Change(part, event, location, value, calls) ==
  [kind |-> <<part, event>>, location |-> location, value |-> value,
   calls |-> calls]
=============================================================================
