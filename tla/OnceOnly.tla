------------------------------ MODULE OnceOnly ------------------------------
(***************************************************************************)
(* The promise several parts of the platform make: an item, however often  *)
(* it is delivered, takes effect once and never again.                     *)
(***************************************************************************)
EXTENDS Naturals

CONSTANT Items       \* what can be delivered
VARIABLE effects     \* how many times each item has taken effect

Init == effects = [i \in Items |-> 0]

TakeEffect(i) == /\ effects[i] = 0
                 /\ effects' = [effects EXCEPT ![i] = 1]

Next == \E i \in Items : TakeEffect(i)

Spec == Init /\ [][Next]_effects
=============================================================================
