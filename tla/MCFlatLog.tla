----------------------------- MODULE MCFlatLog -----------------------------
(***************************************************************************)
(* Observations for TLC: the time, the date, an item with fractions and    *)
(* all members, an item with the few it must have, and an invalid one.     *)
(* The date is a short number, as TLC must hold two of them run together.  *)
(***************************************************************************)
EXTENDS FlatLog

Decimal(w, f) == [whole |-> w, frac |-> f]

MCData ==
    {[id |-> 35, valid |-> TRUE, val |-> Whole(512)],
     [id |-> 34, valid |-> TRUE, val |-> Whole(2459), sysVal |-> Decimal(3, 14)],
     [id |-> 217, valid |-> TRUE, inst |-> 1, damped |-> TRUE,
      val |-> Decimal(10, 25), sysVal |-> Decimal(0, 1), dampedVal |-> Decimal(1, 5)],
     [id |-> 4, valid |-> TRUE],
     [id |-> 41, valid |-> FALSE, val |-> Whole(7)]}
=============================================================================
