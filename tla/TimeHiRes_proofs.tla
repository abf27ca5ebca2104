-------------------------- MODULE TimeHiRes_proofs --------------------------
(***************************************************************************)
(* Theorems about TimeHiRes, for any cycle of the counter that the scale   *)
(* has room for, and any number of calls.                                  *)
(***************************************************************************)
EXTENDS TimeHiRes, FiniteSetTheorems, TLAPS

Call == [call : Nat, tick : Nat, time : Nat]

(* The counter a time was made with.                                       *)
CounterOf(x) == x.time - x.tick * Scale

(* Calls are numbered by issued, their times are a tick and a counter, and *)
(* for the next Cycle calls the counter stands where a call's own counter  *)
(* has come to since, less the Cycle + 1 steps of a wrap.                  *)
Issued ==
  /\ IsFiniteSet(issued)
  /\ \A x \in issued :
       /\ x.call <= Cardinality(issued) /\ x.tick <= now
       /\ CounterOf(x) \in 0 .. Cycle
       /\ Cardinality(issued) - x.call <= Cycle =>
            \/ CounterOf(x) + (Cardinality(issued) - x.call) = time_counter
            \/ CounterOf(x) + (Cardinality(issued) - x.call) = time_counter + Cycle + 1

Ordered ==
  \A x, y \in issued :
    /\ x.call < y.call => x.tick <= y.tick
    /\ x.call < y.call /\ y.call - x.call <= Cycle => CounterOf(x) # CounterOf(y)

IInv == TypeOK /\ Issued /\ Ordered

LEMMA InitInv == Init => IInv
<1> SUFFICES ASSUME Init PROVE IInv
  OBVIOUS
<1>1. IsFiniteSet(issued)
  BY FS_EmptySet DEF Init
<1> QED
  BY <1>1, CycleAssumption DEF Init, IInv, TypeOK, Issued, Ordered

LEMMA StepInv == IInv /\ [Next]_vars => IInv'
<1> SUFFICES ASSUME IInv, [Next]_vars PROVE IInv'
  OBVIOUS
<1> USE DEF IInv
<1>1. CASE LoopIteration
  <2>1. UNCHANGED <<time_counter, issued>>
    BY <1>1 DEF LoopIteration
  <2>2. PICK t \in now + 1 .. MaxTick : now' = t
    BY <1>1 DEF LoopIteration
  <2>3. now' \in Nat /\ now < now'
    BY <2>2, BoundAssumption DEF TypeOK
  <2>4. TypeOK' /\ Ordered'
    BY <2>1, <2>3 DEF TypeOK, Ordered, CounterOf
  <2>5. \A x \in issued : x.tick <= now'
    BY <2>3 DEF TypeOK, Issued
  <2>6. Issued'
    BY <2>1, <2>5 DEF Issued, CounterOf
  <2> QED
    BY <2>4, <2>6
<1>2. CASE time_hi_res
  <2> DEFINE n == Cardinality(issued)
             new == [call |-> n + 1, tick |-> now, time |-> now * Scale + NextCounter]
  <2>1. n \in Nat
    BY FS_CardinalityType DEF Issued
  <2>2. NextCounter \in 0 .. Cycle /\ time_counter' = NextCounter
    BY <1>2, CycleAssumption DEF time_hi_res, NextCounter, TypeOK
  <2>3. now * Scale \in Nat /\ now' = now
    BY <1>2, CycleAssumption DEF time_hi_res, TypeOK
  <2>4. issued' = issued \cup {new} /\ new \in Call
    <3>1. issued' = issued \cup {new}
      BY <1>2 DEF time_hi_res, Scaled
    <3>2. now \in Nat /\ now * Scale + NextCounter \in Nat
      BY <2>2, <2>3, CycleAssumption DEF TypeOK
    <3> QED
      BY <2>1, <3>1, <3>2 DEF Call
  <2>5. CounterOf(new) = NextCounter
    BY <2>2, <2>3, CycleAssumption DEF CounterOf
  <2>6. \A x \in issued : x.call \in Nat /\ x.tick \in Nat /\ x.call <= n /\ x.tick <= now
                           /\ CounterOf(x) \in 0 .. Cycle
    BY DEF TypeOK, Issued
  <2>7. IsFiniteSet(issued') /\ Cardinality(issued') = n + 1
    <3>1. new \notin issued
      BY <2>1, <2>6
    <3> QED
      BY <2>4, <3>1, FS_AddElement DEF Issued
  <2>8. TypeOK'
    BY <2>2, <2>3, <2>4 DEF TypeOK, Call
  <2>9. ASSUME NEW x \in issued, n + 1 - x.call <= Cycle
        PROVE  /\ \/ CounterOf(x) + (n + 1 - x.call) = NextCounter
                  \/ CounterOf(x) + (n + 1 - x.call) = NextCounter + Cycle + 1
               /\ CounterOf(x) # NextCounter
    <3>1. \/ CounterOf(x) + (n - x.call) = time_counter
          \/ CounterOf(x) + (n - x.call) = time_counter + Cycle + 1
      BY <2>1, <2>6, <2>9, CycleAssumption DEF Issued
    <3> QED
      BY <2>1, <2>6, <2>9, <3>1, CycleAssumption DEF NextCounter, TypeOK
  <2>10. Issued'
    <3>1. ASSUME NEW x \in issued'
          PROVE  /\ x.call <= Cardinality(issued') /\ x.tick <= now'
                 /\ CounterOf(x) \in 0 .. Cycle
                 /\ Cardinality(issued') - x.call <= Cycle =>
                      \/ CounterOf(x) + (Cardinality(issued') - x.call) = time_counter'
                      \/ CounterOf(x) + (Cardinality(issued') - x.call)
                           = time_counter' + Cycle + 1
      <4>1. CASE x \in issued
        BY <2>1, <2>2, <2>3, <2>6, <2>7, <2>9, <4>1
      <4>2. CASE x = new
        <5>1. x.call = n + 1 /\ x.tick = now
          BY <4>2
        <5> QED
          BY <2>1, <2>2, <2>3, <2>5, <2>7, <4>2, <5>1, CycleAssumption DEF TypeOK
      <4> QED
        BY <2>4, <4>1, <4>2
    <3> QED
      BY <2>7, <3>1 DEF Issued
  <2>11. Ordered'
    <3>1. ASSUME NEW x \in issued', NEW y \in issued', x.call < y.call
          PROVE  /\ x.tick <= y.tick
                 /\ y.call - x.call <= Cycle => CounterOf(x) # CounterOf(y)
      <4>1. CASE y \in issued
        <5>1. x \in issued
          BY <2>1, <2>4, <2>6, <3>1, <4>1
        <5> QED
          BY <3>1, <4>1, <5>1 DEF Ordered
      <4>2. CASE y = new
        <5>1. x \in issued
          BY <2>1, <2>4, <2>6, <3>1, <4>2
        <5>2. x.tick <= y.tick
          BY <2>6, <4>2, <5>1
        <5>3. y.call = n + 1 /\ CounterOf(y) = NextCounter
          BY <2>5, <4>2
        <5>4. n + 1 - x.call <= Cycle => CounterOf(x) # NextCounter
          BY <2>9, <5>1
        <5> QED
          BY <2>1, <2>6, <5>1, <5>2, <5>3, <5>4
      <4> QED
        BY <2>4, <4>1, <4>2
    <3> QED
      BY <3>1 DEF Ordered, CounterOf
  <2> QED
    BY <2>8, <2>10, <2>11
<1>3. CASE UNCHANGED vars
  BY <1>3 DEF vars, TypeOK, Issued, Ordered, CounterOf
<1> QED
  BY <1>1, <1>2, <1>3 DEF Next

(* The room a later tick has over the whole cycle of an earlier one.       *)
LEMMA TicksAreApart ==
  ASSUME NEW s \in Nat, NEW t \in Nat, s < t
  PROVE  s * Scale + Scale <= t * Scale
<1>1. PICK d \in Nat : t = s + 1 + d
  <2>1. t - s - 1 \in Nat /\ t = s + 1 + (t - s - 1)
    OBVIOUS
  <2> QED
    BY <2>1
<1>2. (s + 1 + d) * Scale = s * Scale + Scale + d * Scale /\ d * Scale \in Nat
  BY CycleAssumption
<1> QED
  BY <1>1, <1>2, CycleAssumption

LEMMA InvLater == IInv => LaterTickIsGreater
<1> SUFFICES ASSUME IInv, NEW x \in issued, NEW y \in issued, x.tick < y.tick
             PROVE  x.time < y.time
  BY DEF LaterTickIsGreater
<1>1. x.tick * Scale + Scale <= y.tick * Scale
  BY TicksAreApart DEF IInv, TypeOK
<1>2. /\ x.tick * Scale \in Nat /\ y.tick * Scale \in Nat
      /\ x.time \in Nat /\ y.time \in Nat
  BY CycleAssumption DEF IInv, TypeOK
<1>3. x.time - x.tick * Scale <= Cycle /\ 0 <= y.time - y.tick * Scale
  BY DEF IInv, Issued, CounterOf
<1> QED
  BY <1>1, <1>2, <1>3, CycleAssumption

LEMMA InvDistinct == IInv => DistinctWithinCycle
<1> SUFFICES ASSUME IInv, NEW x \in issued, NEW y \in issued,
                    x.call < y.call, y.call - x.call <= Cycle
             PROVE  x.time # y.time
  BY DEF DistinctWithinCycle
<1>1. x.tick <= y.tick /\ CounterOf(x) # CounterOf(y)
  BY DEF IInv, Ordered
<1>2. CASE x.tick = y.tick
  BY <1>1, <1>2 DEF CounterOf
<1>3. CASE x.tick # y.tick
  <2>1. x.tick < y.tick /\ x.time \in Nat /\ y.time \in Nat
    BY <1>1, <1>3 DEF IInv, TypeOK
  <2> QED
    BY <2>1, InvLater DEF LaterTickIsGreater
<1> QED
  BY <1>2, <1>3

(* The clock, its counter and the cursors made are natural numbers, and    *)
(* the counter stays within its cycle.                                     *)
THEOREM TypeCorrect == Spec => []TypeOK
<1>1. IInv => TypeOK
  BY DEF IInv
<1> QED
  BY <1>1, InitInv, StepInv, PTL DEF Spec

(* A cursor made after the clock has advanced (Tools.h:36) is greater than *)
(* every cursor made before.                                               *)
THEOREM TicksOrderCursors == Spec => []LaterTickIsGreater
BY InitInv, StepInv, InvLater, PTL DEF Spec

(* Of Cycle + 1 calls in a row no two return the same cursor, however many *)
(* of them fall into one tick.                                             *)
THEOREM CursorsAreDistinct == Spec => []DistinctWithinCycle
BY InitInv, StepInv, InvDistinct, PTL DEF Spec
=============================================================================
