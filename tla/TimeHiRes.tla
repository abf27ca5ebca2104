----------------------------- MODULE TimeHiRes -----------------------------
(***************************************************************************)
(* Tools::time_hi_res, the source of the cursors that clients and          *)
(* publishers do not give themselves: libev's cached time in tenths of a   *)
(* millisecond, scaled, plus a counter that wraps.                         *)
(***************************************************************************)
EXTENDS Integers, FiniteSets

CONSTANTS
  Cycle,        \* 1000 in the code
  Scale,        \* 10000 in the code
  MaxTick,      \* bound of the model: the clock
  MaxCalls      \* bound of the model: calls

ASSUME CycleAssumption == Cycle \in Nat /\ Scale \in Nat /\ Cycle < Scale
ASSUME BoundAssumption == MaxTick \in Nat /\ MaxCalls \in Nat

VARIABLES
  now,           \* ev::now(), cached for one iteration of the loop
  time_counter,  \* the static counter of the function
  issued         \* the calls so far: [call, tick, time]

vars == <<now, time_counter, issued>>

Init == now = 1 /\ time_counter = 0 /\ issued = {}

(* A later iteration of the event loop has seen the clock advance.         *)
LoopIteration ==
  /\ \E t \in now + 1 .. MaxTick : now' = t
  /\ UNCHANGED <<time_counter, issued>>

(* Mutant of NextCounter: it wraps one call early.                         *)
NextCounterShort == IF time_counter + 1 >= Cycle THEN 0 ELSE time_counter + 1
NextCounter == IF time_counter + 1 > Cycle THEN 0 ELSE time_counter + 1

(* Mutant of Scaled: the counter is added to the unscaled time.            *)
Unscaled(counter) == now + counter

Scaled(counter) == now * Scale + counter

time_hi_res ==
  /\ Cardinality(issued) < MaxCalls
  /\ time_counter' = NextCounter
  /\ issued' = issued \cup
       {[call |-> Cardinality(issued) + 1, tick |-> now, time |-> Scaled(NextCounter)]}
  /\ UNCHANGED now

Next == LoopIteration \/ time_hi_res

Spec == Init /\ [][Next]_vars

----------------------------------------------------------------------------
TypeOK ==
  /\ now \in Nat /\ time_counter \in 0 .. Cycle
  /\ issued \subseteq [call : Nat, tick : Nat, time : Nat]

(* Cursors of a later tick are greater than all cursors of earlier ticks:  *)
(* the counter never spills into the scaled time.                          *)
LaterTickIsGreater ==
  \A x, y \in issued : x.tick < y.tick => x.time < y.time

(* Calls that are at most Cycle calls apart return different times.        *)
DistinctWithinCycle ==
  \A x, y \in issued :
    x.call < y.call /\ y.call - x.call <= Cycle => x.time # y.time
=============================================================================
