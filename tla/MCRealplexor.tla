---------------------------- MODULE MCRealplexor ----------------------------
(***************************************************************************)
(* Constants for model checking Realplexor.  The delivery instances have   *)
(* requests that differ in what they queue and listen; the presence        *)
(* instances have requests that differ in the IDs they name only.          *)
(***************************************************************************)
EXTENDS Realplexor, TLC

CONSTANTS a, b, c, f1, f2, f3

P(cursor, id) == [cursor |-> cursor, id |-> id]

TwoFhs == {f1, f2}
ThreeFhs == {f1, f2, f3}
FhSymmetry == Permutations(Fhs)

(* One ID; two at different cursors; one repeated, a lower cursor last.    *)
DeliveryWaits == {<<P(0, a)>>, <<P(2, a), P(1, b)>>, <<P(2, b), P(0, b)>>}

(* A single block; one for two IDs whose cursors differ; one limited to    *)
(* listeners of b; one ID twice; a foreign ID that is skipped.             *)
DeliveryIns ==
  {[pairs |-> <<P(1, a)>>, limit_ids |-> {}, owned |-> {a, b}],
   [pairs |-> <<P(1, b), P(3, a)>>, limit_ids |-> {}, owned |-> {a, b}],
   [pairs |-> <<P(3, a)>>, limit_ids |-> {b}, owned |-> {a, b}],
   [pairs |-> <<P(2, b), P(3, b)>>, limit_ids |-> {}, owned |-> {a, b}],
   [pairs |-> <<P(3, a), P(2, b)>>, limit_ids |-> {}, owned |-> {b}]}

PresenceWaits == {<<P(1, a)>>, <<P(1, b), P(1, a)>>, <<P(1, b), P(1, b)>>}
PresenceIns == {[pairs |-> <<P(2, a)>>, limit_ids |-> {}, owned |-> {a, b}]}
=============================================================================
