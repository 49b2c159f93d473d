----------------------------- MODULE LayerStore -----------------------------
(***************************************************************************)
(* What the layer repository promises to its clients: every layer is       *)
(* absent, installed, or installed and hidden ("deleted", an application   *)
(* still runs from it), and operations take effect one layer at a time, at *)
(* one instant.  There is nothing in between, and no crash is to be seen.  *)
(***************************************************************************)
CONSTANT Layer

VARIABLE layers

Init == layers = [l \in Layer |-> "absent"]

Change(l, from, to) == /\ layers[l] \in from
                       /\ layers' = [layers EXCEPT ![l] = to]

Add(l)    == Change(l, {"absent"}, "live")
Hide(l)   == Change(l, {"live"}, "deleted")
Reveal(l) == Change(l, {"deleted"}, "live")
Drop(l)   == Change(l, {"live", "deleted"}, "absent")

Next == \E l \in Layer : Add(l) \/ Hide(l) \/ Reveal(l) \/ Drop(l)

Spec == Init /\ [][Next]_layers
=============================================================================
