--------------------------- MODULE PerlDataToSend ---------------------------
(***************************************************************************)
(* perl/Storage/DataToSend.pm: the prototype's queues are arrays tied to   *)
(* Tie::Array::Sorted, which finds the place of a new item by binary       *)
(* search.  They are given the same data here as the lists of the C++      *)
(* server (module DataToSend), for comparison.                             *)
(***************************************************************************)
EXTENDS DataToSend

VARIABLE arrays   \* ID -> array

perlVars == <<vars, arrays>>

PerlInit == Init /\ arrays = [id \in Ids |-> <<>>]

----------------------------------------------------------------------------
(* sub { $_[1][0] <=> $_[0][0] }: how the new item compares with one in    *)
(* the array, which holds bigger cursors first.                            *)
comp(elem, mid_val) == mid_val.cursor - elem.cursor

(* Where UNSHIFT, which is PUSH, splices the item in.  Of several equal    *)
(* ones it meets one in the middle of the range it has come to.            *)
Place(array, elem) ==
  LET n == Len(array)
      Search[range \in (0 .. n) \X (-1 .. n - 1)] ==
        LET lo == range[1]
            hi == range[2]
            mid == (lo + hi) \div 2
            cmp == comp(elem, array[mid + 1])
        IN IF hi < lo THEN lo
           ELSE IF cmp = 0 THEN mid
           ELSE IF cmp > 0 THEN Search[<<mid + 1, hi>>]
           ELSE Search[<<lo, mid - 1>>]
  IN Search[<<0, n - 1>>]

perl_add_dataref_to_id(id, cursor) ==
  LET item == [cursor |-> cursor, rdata |-> rdata', nth |-> nth', limit_ids |-> {}]
  IN arrays' = [arrays EXCEPT ![id] = InsertAt(@, Place(@, item) + 1, item)]

(* Mutant of perl_clean_old_data: one item too many is kept.               *)
perl_clean_old_data_late(id) ==
  arrays' = [arrays EXCEPT ![id] = SubSeq(@, 1, Min({MaxDataForId + 1, Len(@)}))]

(* SPLICE of Tie::Array truncates the array.                               *)
perl_clean_old_data(id) ==
  arrays' = [arrays EXCEPT ![id] = SubSeq(@, 1, Min({MaxDataForId, Len(@)}))]

perl_clear_id(id) == arrays' = [arrays EXCEPT ![id] = <<>>]

PerlNext ==
  \E id \in Ids :
    \/ clean_old_data(id) /\ perl_clean_old_data(id)
    \/ clear_id(id) /\ perl_clear_id(id)
    \/ \E cursor \in Cursors :
         (NewBlock(id, cursor) \/ NextPair(id, cursor)) /\ perl_add_dataref_to_id(id, cursor)

PerlSpec == PerlInit /\ [][PerlNext]_perlVars

----------------------------------------------------------------------------
(* Both servers keep as many items of each cursor, in the same order of    *)
(* cursors, so that a listener is due equally many.  Which of several      *)
(* items with one cursor is dropped first differs.                         *)
KeepsAsMany ==
  \A id \in Ids :
    LET list == get_data_by_id(id)
    IN /\ Len(list) = Len(arrays[id])
       /\ \A k \in DOMAIN list : list[k].cursor = arrays[id][k].cursor
=============================================================================
