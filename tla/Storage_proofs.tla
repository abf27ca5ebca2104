--------------------------- MODULE Storage_proofs ---------------------------
(***************************************************************************)
(* Proofs about the storages of cpp/Storage and of the prototype: that the *)
(* lists of DataToSend and Events are ordered and keep what modules Queues *)
(* and Storage say, and what watchers of the two servers are told, for any *)
(* IDs, cursors, numbers of blocks and lengths of queues and chains.       *)
(***************************************************************************)
EXTENDS PerlDataToSend, PerlEvents, FiniteSetTheorems, FunctionTheorems, SequenceTheorems,
        WellFoundedInduction, TLAPS

----------------------------------------------------------------------------
(* The order of a list.                                                    *)

Ordered(list) == \A i, j \in DOMAIN list : i < j => StandsBefore(list[i], list[j])

(* The block d and its pair n came after all that is in the list.          *)
Upto(list, d, n) ==
  \A i \in DOMAIN list : list[i].rdata < d \/ (list[i].rdata = d /\ list[i].nth <= n)

LEMMA ItemsHaveNumbers ==
  ASSUME NEW it \in Item
  PROVE  it.cursor \in Nat /\ it.rdata \in Nat /\ it.nth \in Nat
<1>1. Cursors \subseteq Nat /\ MaxBlocks \in Nat /\ MaxPairs \in Nat
  BY DataToSendAssumption
<1>2. it.cursor \in Cursors /\ it.rdata \in 1 .. MaxBlocks /\ it.nth \in 1 .. MaxPairs
  BY DEF Item
<1>3. (\A k \in 1 .. MaxBlocks : k \in Nat) /\ (\A k \in 1 .. MaxPairs : k \in Nat)
  BY <1>1
<1> QED BY <1>1, <1>2, <1>3

(* Lemma: StandsBefore is a strict order of items.                         *)
LEMMA StandsBeforeIsStrict ==
  ASSUME NEW a \in Item, NEW b \in Item
  PROVE  ~ StandsBefore(a, a) /\ ~ (StandsBefore(a, b) /\ StandsBefore(b, a))
BY ItemsHaveNumbers DEF StandsBefore

(* Lemma: so the positions of an ordered list are told by it.              *)
LEMMA PositionsAreTold ==
  ASSUME NEW list \in Seq(Item), Ordered(list)
  PROVE  \A i, j \in DOMAIN list : i < j <=> StandsBefore(list[i], list[j])
<1> SUFFICES ASSUME NEW i \in DOMAIN list, NEW j \in DOMAIN list,
                    StandsBefore(list[i], list[j]), ~ (i < j)
    PROVE  FALSE
  BY DEF Ordered
<1>1. list[i] \in Item /\ list[j] \in Item /\ i \in Int /\ j \in Int
  OBVIOUS
<1>2. i = j \/ j < i
  BY <1>1
<1> QED BY <1>1, <1>2, StandsBeforeIsStrict DEF Ordered

LessThan == {p \in Nat \X Nat : p[1] < p[2]}

(* Lemma: a non-empty set of positions has a first one.                    *)
LEMMA FirstPosition ==
  ASSUME NEW n \in Nat, NEW S, S \subseteq 1 .. n, S # {}
  PROVE  Min(S) \in S /\ \A j \in S : Min(S) <= j
<1>1. IsWellFoundedOn(LessThan, Nat)
  BY NatLessThanWellFounded, Zenon DEF LessThan, OpToRel
<1>2. S \subseteq Nat
  OBVIOUS
<1>3. PICK k \in S : \A j \in S : <<j, k>> \notin LessThan
  BY <1>1, <1>2, WFMin, Zenon
<1>4. ASSUME NEW j \in S PROVE k <= j
  <2>1. j \in Nat /\ k \in Nat
    BY <1>2
  <2>2. ~ (j < k)
    BY <1>3, <2>1 DEF LessThan
  <2> QED BY <2>1, <2>2
<1> QED BY <1>4 DEF Min

----------------------------------------------------------------------------
(* The operations.                                                         *)

(* Lemma: where the items of two lists are when one follows the other.     *)
LEMMA Follow ==
  ASSUME NEW a \in Seq(Item), NEW b \in Seq(Item)
  PROVE  /\ a \o b \in Seq(Item) /\ Len(a \o b) = Len(a) + Len(b)
         /\ \A k \in 1 .. Len(a) + Len(b) :
              (a \o b)[k] = IF k <= Len(a) THEN a[k] ELSE b[k - Len(a)]
OBVIOUS

(* The places where an item can be inserted.                               *)
IsPlace(list, p) == p \in 1 .. Len(list) + 1

(* What stands at k when the item was inserted at p.                       *)
Spliced(list, item, p, k) ==
  IF k < p THEN list[k] ELSE IF k = p THEN item ELSE list[k - 1]

IsSpliced(m, list, n, item, p) ==
  /\ m \in Seq(Item) /\ Len(m) = n + 1
  /\ \A k \in 1 .. n + 1 : m[k] = Spliced(list, item, p, k)

(* Lemma: where the items are when one was inserted.                       *)
LEMMA InsertInserts ==
  ASSUME NEW list \in Seq(Item), NEW item \in Item, NEW p, IsPlace(list, p)
  PROVE  IsSpliced(InsertAt(list, p, item), list, Len(list), item, p)
<1> DEFINE n == Len(list)
<1>1. n \in Nat /\ DOMAIN list = 1 .. n
  OBVIOUS
<1>2. InsertAt(list, p, item) = SubSeq(list, 1, p - 1) \o <<item>> \o SubSeq(list, p, n)
  BY DEF InsertAt
<1>3. p \in 1 .. n + 1
  BY DEF IsPlace
<1> HIDE DEF n
<1> DEFINE left == SubSeq(list, 1, p - 1)
           right == SubSeq(list, p, n)
<1>4. /\ left \in Seq(Item) /\ Len(left) = p - 1
      /\ \A k \in 1 .. p - 1 : left[k] = list[k]
  BY <1>1, <1>3 DEF n
<1>5. /\ right \in Seq(Item) /\ Len(right) = n - p + 1
      /\ \A k \in 1 .. n - p + 1 : right[k] = list[p + k - 1]
  BY <1>1, <1>3 DEF n
<1> HIDE DEF left, right
<1>6. /\ left \o <<item>> \in Seq(Item) /\ Len(left \o <<item>>) = p
      /\ \A k \in 1 .. p : (left \o <<item>>)[k] = IF k < p THEN list[k] ELSE item
  <2>1. <<item>> \in Seq(Item) /\ Len(<<item>>) = 1 /\ <<item>>[1] = item
    OBVIOUS
  <2>2. p - 1 \in Nat /\ p - 1 + 1 = p /\ p \in Nat
    BY <1>1, <1>3
  <2> DEFINE single == <<item>>
  <2> HIDE DEF single
  <2>3. /\ left \o single \in Seq(Item) /\ Len(left \o single) = p
        /\ \A k \in 1 .. p : (left \o single)[k] =
                             IF k <= p - 1 THEN left[k] ELSE single[k - (p - 1)]
    BY <1>4, <2>1, <2>2, Follow DEF single
  <2>4. \A k \in 1 .. p : ~ (k <= p - 1) => k - (p - 1) = 1
    BY <2>2
  <2>5. \A k \in 1 .. p : k < p <=> k <= p - 1
    BY <2>2
  <2>6. \A k \in 1 .. p : k <= p - 1 => left[k] = list[k]
    BY <1>4, <2>2
  <2> QED
    BY <2>1, <2>3, <2>4, <2>5, <2>6 DEF single
<1> DEFINE front == left \o <<item>>
           m == front \o right
<1> HIDE DEF front
<1>7. /\ m \in Seq(Item) /\ Len(m) = n + 1
      /\ \A k \in 1 .. n + 1 : m[k] = IF k <= p THEN front[k] ELSE right[k - p]
  <2>1. p + (n - p + 1) = n + 1
    BY <1>1, <1>3
  <2>2. front \in Seq(Item) /\ Len(front) = p
    BY <1>6 DEF front
  <2>3. /\ m \in Seq(Item) /\ Len(m) = p + (n - p + 1)
        /\ \A k \in 1 .. p + (n - p + 1) : m[k] = IF k <= p THEN front[k] ELSE right[k - p]
    <3>1. right \in Seq(Item) /\ Len(right) = n - p + 1
      BY <1>5
    <3>2. /\ m \in Seq(Item) /\ Len(m) = Len(front) + Len(right)
          /\ \A k \in 1 .. Len(front) + Len(right) :
               m[k] = IF k <= Len(front) THEN front[k] ELSE right[k - Len(front)]
      BY <2>2, <3>1, Follow
    <3> QED BY <2>2, <3>1, <3>2, Zenon
  <2> QED BY <2>1, <2>3, Zenon
<1>8. \A k \in 1 .. n + 1 :
        m[k] = IF k < p THEN list[k] ELSE IF k = p THEN item ELSE list[k - 1]
  <2> SUFFICES ASSUME NEW k \in 1 .. n + 1
               PROVE  m[k] = IF k < p THEN list[k] ELSE IF k = p THEN item ELSE list[k - 1]
    OBVIOUS
  <2> HIDE DEF m
  <2>1. CASE k <= p
    <3>1. k \in 1 .. p /\ m[k] = front[k]
      BY <1>1, <1>3, <1>7, <2>1
    <3> QED
      BY <1>1, <1>3, <1>6, <2>1, <3>1 DEF front
  <2>2. CASE ~ (k <= p)
    <3>1. /\ k - p \in 1 .. n - p + 1 /\ p + (k - p) - 1 = k - 1
          /\ ~ (k < p) /\ k # p
      BY <1>1, <1>3, <2>2
    <3>2. m[k] = right[k - p]
      BY <1>7, <2>2
    <3> QED
      BY <1>5, <3>1, <3>2
  <2> QED
    BY <2>1, <2>2
<1>9. InsertAt(list, p, item) = m
  BY <1>2 DEF front, left, right
<1> HIDE DEF m
<1>10. IsSpliced(m, list, n, item, p)
  BY <1>7, <1>8 DEF IsSpliced, Spliced
<1> QED BY <1>9, <1>10, Zenon DEF n

(* Lemma: merge puts the chunk before the first one of no bigger cursor.   *)
LEMMA MergeInserts ==
  ASSUME NEW list \in Seq(Item), NEW item \in Item
  PROVE  LET m == Merge(list, item)
             n == Len(list)
         IN \E p \in 1 .. n + 1 :
              /\ m \in Seq(Item) /\ Len(m) = n + 1
              /\ \A k \in 1 .. n + 1 :
                   m[k] = IF k < p THEN list[k] ELSE IF k = p THEN item ELSE list[k - 1]
              /\ \A k \in 1 .. n : k < p => ~ (list[k].cursor <= item.cursor)
              /\ p <= n => list[p].cursor <= item.cursor
<1> DEFINE n == Len(list)
           NotAfter == {k \in DOMAIN list : list[k].cursor <= item.cursor}
           p == Min(NotAfter)
<1>1. n \in Nat /\ DOMAIN list = 1 .. n
  OBVIOUS
<1>2. CASE NotAfter = {}
  <2>1. Merge(list, item) = Append(list, item)
    BY <1>2 DEF Merge
  <2>2. \A k \in 1 .. n : ~ (list[k].cursor <= item.cursor)
    BY <1>1, <1>2
  <2>3. /\ Append(list, item) \in Seq(Item) /\ Len(Append(list, item)) = n + 1
        /\ \A k \in 1 .. n + 1 :
             Append(list, item)[k] = IF k < n + 1 THEN list[k] ELSE item
    OBVIOUS
  <2>4. n + 1 \in 1 .. n + 1
    BY <1>1
  <2> QED BY <2>1, <2>2, <2>3, <2>4
<1>3. CASE NotAfter # {}
  <2>1. p \in NotAfter /\ \A k \in NotAfter : p <= k
    BY <1>1, <1>3, FirstPosition
  <2>2. Merge(list, item) = InsertAt(list, p, item)
    BY <1>3 DEF Merge
  <2>3. ASSUME NEW k \in 1 .. n, k < p PROVE ~ (list[k].cursor <= item.cursor)
    <3> HIDE DEF p
    <3>1. p \in 1 .. n /\ ~ (p <= k)
      BY <1>1, <2>1, <2>3
    <3> QED BY <1>1, <2>1, <3>1
  <2>4. p \in 1 .. n /\ list[p].cursor <= item.cursor
    BY <1>1, <2>1
  <2> HIDE DEF p, NotAfter, n
  <2>5. p \in 1 .. n + 1
    BY <1>1, <2>4
  <2>6. IsPlace(list, p)
    BY <2>5 DEF IsPlace, n
  <2>7. /\ Merge(list, item) \in Seq(Item) /\ Len(Merge(list, item)) = n + 1
        /\ \A k \in 1 .. n + 1 : Merge(list, item)[k] =
             IF k < p THEN list[k] ELSE IF k = p THEN item ELSE list[k - 1]
    <3>1. IsSpliced(Merge(list, item), list, n, item, p)
      BY <2>2, <2>6, InsertInserts DEF n
    <3> QED BY <3>1, Zenon DEF IsSpliced, Spliced
  <2> QED BY <2>3, <2>4, <2>5, <2>7 DEF n
<1> QED BY <1>2, <1>3

(* Lemma: what was merged last comes first among equal cursors, so that an *)
(* ordered list remains ordered.                                           *)
LEMMA MergeKeepsOrder ==
  ASSUME NEW list \in Seq(Item), Ordered(list), NEW item \in Item,
         \A i \in DOMAIN list : \/ list[i].rdata < item.rdata
                                \/ list[i].rdata = item.rdata /\ list[i].nth < item.nth
  PROVE  /\ Merge(list, item) \in Seq(Item) /\ Ordered(Merge(list, item))
         /\ ToSet(Merge(list, item)) = ToSet(list) \cup {item}
<1> DEFINE m == Merge(list, item)
           n == Len(list)
<1>1. PICK p \in 1 .. n + 1 :
        /\ m \in Seq(Item) /\ Len(m) = n + 1
        /\ \A k \in 1 .. n + 1 :
             m[k] = IF k < p THEN list[k] ELSE IF k = p THEN item ELSE list[k - 1]
        /\ \A k \in 1 .. n : k < p => ~ (list[k].cursor <= item.cursor)
        /\ p <= n => list[p].cursor <= item.cursor
  BY MergeInserts
<1>2. n \in Nat /\ DOMAIN list = 1 .. n /\ \A k \in 1 .. n : list[k] \in Item
  OBVIOUS
<1> HIDE DEF m, n
<1>3. DOMAIN m = 1 .. n + 1
  BY <1>1, <1>2
<1>4. ASSUME NEW k \in 1 .. n, k < p PROVE StandsBefore(list[k], item)
  BY <1>1, <1>2, <1>4, ItemsHaveNumbers DEF StandsBefore
<1>5. ASSUME NEW k \in 1 .. n, k >= p PROVE StandsBefore(item, list[k])
  <2>1. p \in 1 .. n /\ list[p].cursor <= item.cursor
    BY <1>1, <1>2, <1>5
  <2>2. list[k].cursor <= list[p].cursor
    <3>1. k = p \/ StandsBefore(list[p], list[k])
      BY <1>2, <1>5, <2>1 DEF Ordered
    <3> QED BY <1>2, <2>1, <3>1, ItemsHaveNumbers DEF StandsBefore
  <2>3. \/ list[k].rdata < item.rdata
        \/ list[k].rdata = item.rdata /\ list[k].nth < item.nth
    BY <1>2
  <2>4. list[k] \in Item /\ list[p] \in Item
    BY <1>2, <2>1
  <2> QED BY <2>1, <2>2, <2>3, <2>4, ItemsHaveNumbers DEF StandsBefore
<1>6. ASSUME NEW i \in 1 .. n + 1, NEW j \in 1 .. n + 1, i < j
      PROVE  StandsBefore(m[i], m[j])
  <2>1. CASE j < p
    <3>1. i \in 1 .. n /\ j \in 1 .. n /\ i < p
      BY <1>2, <1>6, <2>1
    <3> QED BY <1>1, <1>2, <1>6, <2>1, <3>1 DEF Ordered
  <2>2. CASE j = p
    <3>1. i \in 1 .. n /\ i < p
      BY <1>2, <1>6, <2>2
    <3> QED BY <1>1, <1>4, <2>2, <3>1
  <2>3. CASE j > p /\ i = p
    <3>1. j - 1 \in 1 .. n /\ j - 1 >= p
      BY <1>2, <2>3
    <3> QED BY <1>1, <1>5, <2>3, <3>1
  <2>4. CASE j > p /\ i < p
    <3>1. i \in 1 .. n /\ j - 1 \in 1 .. n /\ i < j - 1
      BY <1>2, <2>4
    <3>2. StandsBefore(list[i], list[j - 1])
      BY <1>2, <3>1 DEF Ordered
    <3> QED BY <1>1, <2>4, <3>2
  <2>5. CASE j > p /\ i > p
    <3>1. i - 1 \in 1 .. n /\ j - 1 \in 1 .. n /\ i - 1 < j - 1
      BY <1>2, <1>6, <2>5
    <3>2. StandsBefore(list[i - 1], list[j - 1])
      BY <1>2, <3>1 DEF Ordered
    <3> QED BY <1>1, <2>5, <3>2
  <2> QED BY <1>2, <2>1, <2>2, <2>3, <2>4, <2>5
<1>7. ToSet(m) = ToSet(list) \cup {item}
  <2>1. ASSUME NEW k \in 1 .. n PROVE \E i \in 1 .. n + 1 : m[i] = list[k]
    <3>1. CASE k < p
      BY <1>1, <1>2, <3>1
    <3>2. CASE k >= p
      <4>1. k + 1 \in 1 .. n + 1 /\ k + 1 > p /\ k + 1 - 1 = k
        BY <1>2, <3>2
      <4> QED BY <1>1, <4>1
    <3> QED BY <1>2, <3>1, <3>2
  <2>2. ASSUME NEW i \in 1 .. n + 1
        PROVE  m[i] = item \/ \E k \in 1 .. n : m[i] = list[k]
    <3>1. CASE i > p
      <4>1. i - 1 \in 1 .. n
        BY <1>2, <3>1
      <4> QED BY <1>1, <3>1, <4>1
    <3> QED BY <1>1, <1>2, <3>1
  <2>3. \E i \in 1 .. n + 1 : m[i] = item
    BY <1>1, <1>2
  <2>4. ToSet(m) = {m[i] : i \in 1 .. n + 1} /\ ToSet(list) = {list[k] : k \in 1 .. n}
    BY <1>2, <1>3 DEF ToSet
  <2> QED BY <2>1, <2>2, <2>3, <2>4
<1> QED BY <1>1, <1>3, <1>6, <1>7 DEF Ordered, m

(* Lemma: k - 1 items stand before the one at position k.                  *)
LEMMA BeforeAreCounted ==
  ASSUME NEW list \in Seq(Item), Ordered(list), NEW k \in DOMAIN list
  PROVE  Cardinality({o \in ToSet(list) : StandsBefore(o, list[k])}) = k - 1
<1> DEFINE S == {o \in ToSet(list) : StandsBefore(o, list[k])}
           at == [i \in 1 .. k - 1 |-> list[i]]
<1>1. DOMAIN list = 1 .. Len(list) /\ Len(list) \in Nat /\ k \in Nat \ {0} /\ k <= Len(list)
  OBVIOUS
<1>2. \A i \in DOMAIN list : i < k <=> StandsBefore(list[i], list[k])
  BY PositionsAreTold
<1>3. \A i \in 1 .. k - 1 : i \in DOMAIN list /\ i < k /\ list[i] \in S
  BY <1>1, <1>2 DEF ToSet
<1>4. \A o \in S : \E i \in 1 .. k - 1 : o = list[i]
  BY <1>1, <1>2 DEF ToSet
<1> HIDE DEF S
<1>5. at \in [1 .. k - 1 -> S]
  BY <1>3
<1>6. ASSUME NEW i \in 1 .. k - 1, NEW j \in 1 .. k - 1, at[i] = at[j] PROVE i = j
  <2>1. ASSUME NEW x \in 1 .. k - 1, NEW y \in 1 .. k - 1, x < y PROVE list[x] # list[y]
    <3>1. list[x] \in Item /\ StandsBefore(list[x], list[y])
      BY <1>3, <2>1 DEF Ordered
    <3> QED BY <3>1, StandsBeforeIsStrict
  <2>2. list[i] = list[j]
    BY <1>6
  <2>3. i < j \/ j < i \/ i = j
    OBVIOUS
  <2> QED BY <2>1, <2>2, <2>3
<1>7. \A o \in S : \E i \in 1 .. k - 1 : at[i] = o
  BY <1>4
<1> HIDE DEF at
<1>8. at \in Bijection(1 .. k - 1, S)
  <2>1. at \in Injection(1 .. k - 1, S)
    BY <1>5, <1>6, Fun_IsInj
  <2>2. at \in Surjection(1 .. k - 1, S)
    BY <1>5, <1>7, Fun_IsSurj
  <2> QED BY <2>1, <2>2, Fun_IsBij
<1>9. IsFiniteSet(1 .. k - 1) /\ Cardinality(1 .. k - 1) = k - 1
  <2>1. 1 \in Int /\ k - 1 \in Int
    BY <1>1
  <2> DEFINE j == k - 1
  <2> HIDE DEF j
  <2>2. IsFiniteSet(1 .. j) /\ Cardinality(1 .. j) = IF 1 > j THEN 0 ELSE j - 1 + 1
    BY <2>1, FS_Interval DEF j
  <2>3. j \in Nat
    BY <1>1 DEF j
  <2>4. Cardinality(1 .. j) = j
    BY <2>2, <2>3
  <2> QED BY <2>2, <2>4 DEF j
<1>10. ExistsBijection(1 .. k - 1, S)
  BY <1>8 DEF ExistsBijection
<1>11. Cardinality(S) = Cardinality(1 .. k - 1)
  BY <1>9, <1>10, FS_Bijection
<1> QED BY <1>9, <1>11 DEF S

(* Lemma: popping from the end of an ordered list keeps the newest.        *)
LEMMA PoppingRotates ==
  ASSUME NEW list \in Seq(Item), Ordered(list), Len(list) >= MaxDataForId
  PROVE  LET kept == SubSeq(list, 1, MaxDataForId)
         IN /\ kept \in Seq(Item) /\ Ordered(kept)
            /\ \A d, n : Upto(list, d, n) => Upto(kept, d, n)
            /\ ToSet(kept) = clean_old_data_for_id(ToSet(list), MaxDataForId)
<1> DEFINE kept == SubSeq(list, 1, MaxDataForId)
<1>1. MaxDataForId \in Nat
  BY DataToSendAssumption
<1>2. /\ kept \in Seq(Item) /\ DOMAIN kept = 1 .. MaxDataForId
      /\ \A i \in 1 .. MaxDataForId : i \in DOMAIN list /\ kept[i] = list[i]
  BY <1>1
<1> HIDE DEF kept
<1>3. Ordered(kept)
  BY <1>2 DEF Ordered
<1>4. \A d, n : Upto(list, d, n) => Upto(kept, d, n)
  BY <1>2 DEF Upto
<1>5. ToSet(kept) = {it \in ToSet(list) :
                       Cardinality({o \in ToSet(list) : StandsBefore(o, it)}) < MaxDataForId}
  <2>1. \A k \in DOMAIN list :
          Cardinality({o \in ToSet(list) : StandsBefore(o, list[k])}) = k - 1
    BY BeforeAreCounted
  <2>2. \A k \in DOMAIN list : k - 1 < MaxDataForId <=> k \in 1 .. MaxDataForId
    BY <1>1
  <2> QED BY <1>2, <2>1, <2>2 DEF ToSet
<1> QED BY <1>2, <1>3, <1>4, <1>5 DEF clean_old_data_for_id, kept

----------------------------------------------------------------------------
(* The storage.                                                            *)

Lists == [id \in Ids |-> get_data_by_id(id)]
Sets  == [id \in Ids |-> ToSet(get_data_by_id(id))]

(* Lists are ordered, of items that were numbered before the next one.     *)
IInv ==
  /\ rdata \in 0 .. MaxBlocks /\ nth \in 0 .. MaxPairs /\ (nth # 0 => rdata # 0)
  /\ \A id \in Ids : Lists[id] \in Seq(Item) /\ Ordered(Lists[id]) /\ Upto(Lists[id], rdata, nth)

(* Lemma: module Queues has its own copies of these operators.             *)
LEMMA SameRotation ==
  \A S : Queue!clean_old_data_for_id(S, MaxDataForId) = clean_old_data_for_id(S, MaxDataForId)
<1>1. \A a, b : Queue!StandsBefore(a, b) <=> StandsBefore(a, b)
  BY DEF Queue!StandsBefore, StandsBefore
<1>2. \A S : Queue!Cardinality(S) = Cardinality(S)
  BY DEF Queue!Cardinality, Cardinality
<1> QED BY <1>1, <1>2 DEF Queue!clean_old_data_for_id, clean_old_data_for_id

LEMMA PutIs ==
  ASSUME NEW id \in Ids, NEW list, Put(id, list)
  PROVE  /\ Lists' = [Lists EXCEPT ![id] = list]
         /\ Sets' = [Sets EXCEPT ![id] = ToSet(list)]
<1>1. get_data_by_id(id)' = list
  BY DEF Put, get_data_by_id, Has
<1>2. \A x \in Ids : x # id => get_data_by_id(x)' = get_data_by_id(x)
  BY DEF Put, get_data_by_id, Has
<1> QED BY <1>1, <1>2 DEF Lists, Sets

LEMMA InitInv == Init => IInv /\ Queue!Init
<1> SUFFICES ASSUME Init PROVE IInv /\ Queue!Init
  OBVIOUS
<1>1. \A id : get_data_by_id(id) = <<>>
  BY DEF Init, get_data_by_id, Has
<1>2. <<>> \in Seq(Item) /\ Ordered(<<>>) /\ Upto(<<>>, 0, 0) /\ ToSet(<<>>) = {}
  BY DEF Ordered, Upto, ToSet
<1>3. 0 \in 0 .. MaxBlocks /\ 0 \in 0 .. MaxPairs
  BY DataToSendAssumption
<1> QED BY <1>1, <1>2, <1>3 DEF Init, IInv, Lists, Queue!Init

(* Lemma: a chunk that is newer than all others is added to the set.       *)
LEMMA AddAdds ==
  ASSUME IInv, NEW id \in Ids, NEW cursor \in Cursors,
         rdata' \in 1 .. MaxBlocks, nth' \in 1 .. MaxPairs,
         rdata < rdata' \/ (rdata = rdata' /\ nth < nth'),
         add_dataref_to_id(id, cursor, rdata', nth')
  PROVE  IInv' /\ \E item \in Item : Queue!Add(id, item)
<1> DEFINE item == [cursor |-> cursor, rdata |-> rdata', nth |-> nth', limit_ids |-> {}]
           list == Lists[id]
           new == Merge(list, item)
<1>1. item \in Item
  BY DEF Item
<1>2. /\ item.rdata = rdata' /\ item.nth = nth'
      /\ rdata \in Nat /\ nth \in Nat /\ rdata' \in Nat /\ nth' \in Nat
  BY DataToSendAssumption DEF IInv
<1>3. Put(id, new)
  BY DEF add_dataref_to_id, Lists
<1> HIDE DEF item, list, new
<1>4. /\ list \in Seq(Item) /\ Ordered(list) /\ Upto(list, rdata, nth)
  BY DEF IInv, list
<1>5. \A it \in Item : it.rdata \in Nat /\ it.nth \in Nat
  BY ItemsHaveNumbers
<1>6. \A i \in DOMAIN list : list[i] \in Item
  BY <1>4
<1>7. \A i \in DOMAIN list : \/ list[i].rdata < item.rdata
                             \/ list[i].rdata = item.rdata /\ list[i].nth < item.nth
  BY <1>2, <1>4, <1>5, <1>6 DEF Upto
<1>8. new \in Seq(Item) /\ Ordered(new) /\ ToSet(new) = ToSet(list) \cup {item}
  BY <1>1, <1>4, <1>7, MergeKeepsOrder DEF new
<1>9. Upto(new, rdata', nth')
  <2>1. ASSUME NEW i \in DOMAIN new
        PROVE  new[i].rdata < rdata' \/ (new[i].rdata = rdata' /\ new[i].nth <= nth')
    <3>1. new[i] \in ToSet(new)
      BY DEF ToSet
    <3>2. new[i] = item \/ \E k \in DOMAIN list : new[i] = list[k]
      BY <1>8, <3>1 DEF ToSet
    <3> QED BY <1>2, <1>5, <1>6, <1>7, <3>2
  <2> QED BY <2>1 DEF Upto
<1>10. Lists' = [Lists EXCEPT ![id] = new] /\ Sets' = [Sets EXCEPT ![id] = ToSet(new)]
  BY <1>3, PutIs
<1>11. ASSUME NEW x \in Ids
       PROVE  Lists'[x] \in Seq(Item) /\ Ordered(Lists'[x]) /\ Upto(Lists'[x], rdata', nth')
  <2>1. CASE x = id
    <3>1. Lists'[x] = new
      BY <1>10, <2>1 DEF Lists
    <3> QED BY <1>8, <1>9, <3>1
  <2>2. CASE x # id
    <3>1. Lists'[x] = Lists[x]
      BY <1>10, <2>2 DEF Lists
    <3>2. Lists[x] \in Seq(Item) /\ Ordered(Lists[x]) /\ Upto(Lists[x], rdata, nth)
      BY DEF IInv
    <3>3. \A i \in DOMAIN Lists[x] : Lists[x][i] \in Item
      BY <3>2
    <3>4. Upto(Lists[x], rdata', nth')
      BY <1>2, <1>5, <3>2, <3>3 DEF Upto
    <3> QED BY <3>1, <3>2, <3>4
  <2> QED BY <2>1, <2>2
<1>12. IInv'
  <2>1. rdata' \in 0 .. MaxBlocks /\ nth' \in 0 .. MaxPairs /\ rdata' # 0
    BY DataToSendAssumption
  <2> QED BY <1>11, <2>1 DEF IInv
<1>13. Queue!Add(id, item)
  <2>1. Sets[id] = ToSet(list)
    BY DEF Sets, Lists, list
  <2>2. Sets' = [Sets EXCEPT ![id] = Sets[id] \cup {item}]
    BY <1>8, <1>10, <2>1
  <2> QED BY <2>2 DEF Queue!Add, Sets
<1> QED BY <1>1, <1>12, <1>13

(* Lemma: nothing but the list of id changes.                              *)
LEMMA OneListChanges ==
  ASSUME IInv, NEW id \in Ids, NEW list \in Seq(Item), Ordered(list), Upto(list, rdata, nth),
         Lists' = [Lists EXCEPT ![id] = list], UNCHANGED <<rdata, nth>>
  PROVE  IInv'
<1>1. \A x \in Ids : Lists'[x] = IF x = id THEN list ELSE Lists[x]
  BY DEF Lists
<1>2. \A x \in Ids : Lists'[x] \in Seq(Item) /\ Ordered(Lists'[x]) /\ Upto(Lists'[x], rdata, nth)
  BY <1>1 DEF IInv
<1> QED BY <1>2 DEF IInv

LEMMA CleanCleans ==
  ASSUME IInv, NEW id \in Ids, clean_old_data(id)
  PROVE  IInv' /\ Queue!Clean(id)
<1> DEFINE list == Lists[id]
           kept == SubSeq(list, 1, MaxDataForId)
<1>1. list \in Seq(Item) /\ Ordered(list) /\ Upto(list, rdata, nth)
  BY DEF IInv
<1>2. Len(list) >= MaxDataForId /\ Put(id, kept) /\ UNCHANGED <<rdata, nth>>
  BY DEF clean_old_data, Lists, get_data_by_id
<1> HIDE DEF list
<1>3. /\ kept \in Seq(Item) /\ Ordered(kept) /\ Upto(kept, rdata, nth)
      /\ ToSet(kept) = clean_old_data_for_id(ToSet(list), MaxDataForId)
  BY <1>1, <1>2, PoppingRotates
<1> HIDE DEF kept
<1>4. Lists' = [Lists EXCEPT ![id] = kept] /\ Sets' = [Sets EXCEPT ![id] = ToSet(kept)]
  BY <1>2, PutIs
<1>5. IInv'
  BY <1>2, <1>3, <1>4, OneListChanges
<1>6. Sets[id] = ToSet(list)
  BY DEF Sets, Lists, list
<1>7. Sets' = [Sets EXCEPT ![id] = Queue!clean_old_data_for_id(Sets[id], MaxDataForId)]
  BY <1>3, <1>4, <1>6, SameRotation
<1> QED BY <1>5, <1>7 DEF Queue!Clean, Sets

LEMMA ClearClears ==
  ASSUME IInv, NEW id \in Ids, clear_id(id)
  PROVE  IInv' /\ Queue!Clear(id)
<1>1. get_data_by_id(id)' = <<>>
  BY DEF clear_id, get_data_by_id, Has
<1>2. \A x \in Ids : x # id => get_data_by_id(x)' = get_data_by_id(x)
  BY DEF clear_id, get_data_by_id, Has
<1>3. Lists' = [Lists EXCEPT ![id] = <<>>]
  BY <1>1, <1>2 DEF Lists
<1>4. <<>> \in Seq(Item) /\ Ordered(<<>>) /\ Upto(<<>>, rdata, nth) /\ ToSet(<<>>) = {}
  BY DEF Ordered, Upto, ToSet
<1>5. Sets' = [Sets EXCEPT ![id] = {}]
  BY <1>1, <1>2, <1>4 DEF Sets
<1>6. IInv'
  BY <1>3, <1>4, OneListChanges DEF clear_id
<1> QED BY <1>5, <1>6 DEF Queue!Clear, Sets

LEMMA Step == IInv /\ [Next]_vars => IInv' /\ [Queue!Next]_Sets
<1> SUFFICES ASSUME IInv, [Next]_vars PROVE IInv' /\ [Queue!Next]_Sets
  OBVIOUS
<1>1. CASE UNCHANGED vars
  <2>1. UNCHANGED <<Lists, Sets, rdata, nth>>
    BY <1>1 DEF vars, Lists, Sets, get_data_by_id, Has
  <2> QED BY <2>1 DEF IInv
<1>2. ASSUME NEW id \in Ids, clean_old_data(id) PROVE IInv' /\ Queue!Next
  BY <1>2, CleanCleans DEF Queue!Next
<1>3. ASSUME NEW id \in Ids, clear_id(id) PROVE IInv' /\ Queue!Next
  BY <1>3, ClearClears DEF Queue!Next
<1>4. ASSUME NEW id \in Ids, NEW cursor \in Cursors, NewBlock(id, cursor)
      PROVE  IInv' /\ Queue!Next
  <2>1. /\ rdata' \in 1 .. MaxBlocks /\ nth' \in 1 .. MaxPairs /\ rdata < rdata'
        /\ add_dataref_to_id(id, cursor, rdata', nth')
    <3>1. rdata' = rdata + 1 /\ nth' = 1 /\ rdata \in 0 .. MaxBlocks /\ rdata < MaxBlocks
      BY <1>4 DEF NewBlock, IInv
    <3>2. add_dataref_to_id(id, cursor, rdata', nth')
      BY <1>4, <3>1 DEF NewBlock
    <3> QED BY <3>1, <3>2, DataToSendAssumption
  <2>2. IInv' /\ \E item \in Item : Queue!Add(id, item)
    BY <2>1, AddAdds
  <2> QED BY <2>2 DEF Queue!Next
<1>5. ASSUME NEW id \in Ids, NEW cursor \in Cursors, NextPair(id, cursor)
      PROVE  IInv' /\ Queue!Next
  <2>1. /\ rdata' \in 1 .. MaxBlocks /\ nth' \in 1 .. MaxPairs /\ rdata = rdata' /\ nth < nth'
        /\ add_dataref_to_id(id, cursor, rdata', nth')
    <3>1. /\ rdata' = rdata /\ nth' = nth + 1 /\ nth \in 1 .. MaxPairs - 1
          /\ rdata \in 0 .. MaxBlocks /\ rdata # 0
      BY <1>5 DEF NextPair, IInv
    <3>2. add_dataref_to_id(id, cursor, rdata', nth')
      BY <1>5, <3>1 DEF NextPair
    <3> QED BY <3>1, <3>2, DataToSendAssumption
  <2>2. IInv' /\ \E item \in Item : Queue!Add(id, item)
    BY <2>1, AddAdds
  <2> QED BY <2>2 DEF Queue!Next
<1> QED BY <1>1, <1>2, <1>3, <1>4, <1>5 DEF Next

(* The list is in the order the loop over it relies on (Common.h:172),     *)
(* and equal cursors in the order rotation drops them (DataToSend.h:86),   *)
(* for any sequence of merges, rotations and clears.                       *)
THEOREM ListIsOrdered == Spec => []OrderedAsMerged
<1>1. IInv => OrderedAsMerged
  <2> SUFFICES ASSUME IInv, NEW id \in Ids
      PROVE  \A i, j \in DOMAIN Lists[id] :
               i < j <=> StandsBefore(Lists[id][i], Lists[id][j])
    BY DEF OrderedAsMerged, Lists
  <2>1. Lists[id] \in Seq(Item) /\ Ordered(Lists[id])
    BY DEF IInv
  <2> QED BY <2>1, PositionsAreTold
<1> QED BY <1>1, InitInv, Step, PTL DEF Spec

(* The std::list of the code (DataToSend.h:51) is the set of items that    *)
(* module Realplexor works with: merge adds an item and pop_back rotates.  *)
THEOREM ListIsQueue == Spec => ImplementsQueues
<1>1. IInv /\ [Next]_vars => IInv' /\ [Queue!Next]_Sets
  BY Step
<1> QED BY <1>1, InitInv, PTL DEF Spec, ImplementsQueues, Queue!Spec, Sets
----------------------------------------------------------------------------
(* Counting up, and folding a list.                                        *)

(* Lemma: a set with 0 that has k + 1 with k has all numbers up to n.      *)
LEMMA CountUp ==
  ASSUME NEW n \in Nat, NEW S, 0 \in S, \A k \in 0 .. n - 1 : k \in S => k + 1 \in S
  PROVE  \A k \in 0 .. n : k \in S
<1> DEFINE T == {k \in 1 .. n : k \notin S}
<1> SUFFICES ASSUME T # {} PROVE FALSE
  OBVIOUS
<1>1. Min(T) \in T /\ \A j \in T : Min(T) <= j
  <2>1. T \subseteq 1 .. n
    OBVIOUS
  <2> HIDE DEF T
  <2> QED BY <2>1, FirstPosition
<1>2. PICK m \in T : \A j \in T : m <= j
  BY <1>1
<1>3. m - 1 \in 0 .. n - 1 /\ m - 1 \notin S
  BY <1>2
<1>4. m - 1 \in 1 .. n /\ ~ (m <= m - 1)
  BY <1>3
<1> QED BY <1>2, <1>3, <1>4

(* Lemma: a non-empty set of positions has a last one.                     *)
LEMMA LastPosition ==
  ASSUME NEW n \in Nat, NEW S, S \subseteq 1 .. n, S # {}
  PROVE  Max(S) \in S /\ \A j \in S : Max(S) >= j
<1> DEFINE T == {n + 1 - k : k \in S}
<1>1. \A k \in S : k \in 1 .. n
  OBVIOUS
<1>2. T \subseteq 1 .. n /\ T # {}
  <2>1. \A k \in 1 .. n : n + 1 - k \in 1 .. n
    OBVIOUS
  <2> QED BY <1>1, <2>1
<1>3. Min(T) \in T /\ \A j \in T : Min(T) <= j
  <2> HIDE DEF T
  <2> QED BY <1>2, FirstPosition
<1>4. PICK k \in S : \A j \in S : n + 1 - k <= n + 1 - j
  BY <1>3
<1>5. \A j \in S : k >= j
  BY <1>1, <1>4
<1> QED BY <1>5 DEF Max

(* What a fold from left to right is defined by, when each step is a       *)
(* function of what was folded so far and of the position.                 *)
Folds(g, n, base, F) ==
  \A s \in SUBSET (1 .. n) :
    g[s] = IF s = {} THEN base ELSE F[<<g[s \ {Max(s)}], Max(s)>>]

(* Lemma: such a fold exists.                                              *)
LEMMA FoldExists ==
  ASSUME NEW n \in Nat, NEW Acc, NEW base \in Acc, NEW F \in [Acc \X (1 .. n) -> Acc]
  PROVE  \E g \in [SUBSET (1 .. n) -> Acc] : Folds(g, n, base, F)
<1> DEFINE Solves(g, k) == Folds(g, k, base, F)
           S == {k \in 0 .. n : \E g \in [SUBSET (1 .. k) -> Acc] : Solves(g, k)}
<1>1. 0 \in S
  <2>1. SUBSET (1 .. 0) = {{}}
    OBVIOUS
  <2>2. [s \in SUBSET (1 .. 0) |-> base] \in [SUBSET (1 .. 0) -> Acc]
    OBVIOUS
  <2>3. Solves([s \in SUBSET (1 .. 0) |-> base], 0)
    BY <2>1 DEF Folds
  <2>4. 0 \in 0 .. n
    OBVIOUS
  <2> HIDE DEF Solves
  <2> QED BY <2>2, <2>3, <2>4
<1>2. ASSUME NEW k \in 0 .. n - 1, k \in S PROVE k + 1 \in S
  <2>1. PICK g \in [SUBSET (1 .. k) -> Acc] : Solves(g, k)
    BY <1>2
  <2> DEFINE h == [s \in SUBSET (1 .. k + 1) |->
                     IF k + 1 \in s THEN F[<<g[s \ {k + 1}], k + 1>>] ELSE g[s]]
  <2>2. /\ k \in Nat /\ k + 1 \in 1 .. n
        /\ \A s \in SUBSET (1 .. k + 1) : s \ {k + 1} \in SUBSET (1 .. k)
        /\ \A s \in SUBSET (1 .. k + 1) : k + 1 \notin s => s \in SUBSET (1 .. k)
    OBVIOUS
  <2>3. h \in [SUBSET (1 .. k + 1) -> Acc]
    <3> SUFFICES ASSUME NEW s \in SUBSET (1 .. k + 1) PROVE h[s] \in Acc
      BY DEF h
    <3>1. CASE k + 1 \in s
      BY <2>2, <3>1
    <3>2. CASE k + 1 \notin s
      BY <2>2, <3>2
    <3> QED BY <3>1, <3>2
  <2>4. ASSUME NEW s \in SUBSET (1 .. k + 1)
        PROVE  h[s] = IF s = {} THEN base ELSE F[<<h[s \ {Max(s)}], Max(s)>>]
    <3>1. CASE k + 1 \in s
      <4> HIDE DEF h
      <4>1. Max(s) \in s /\ \A j \in s : Max(s) >= j
        <5>1. k + 1 \in Nat /\ s \subseteq 1 .. k + 1 /\ s # {}
          BY <2>2, <3>1
        <5> QED BY <5>1, LastPosition
      <4>2. Max(s) = k + 1
        <5>1. PICK m \in s : m = Max(s) /\ \A j \in s : m >= j
          BY <4>1
        <5>2. m \in 1 .. k + 1 /\ m >= k + 1
          BY <3>1, <5>1
        <5> QED BY <2>2, <5>1, <5>2
      <4> USE DEF h
      <4>3. h[s \ {k + 1}] = g[s \ {k + 1}]
        BY <2>2
      <4>4. h[s] = F[<<g[s \ {k + 1}], k + 1>>]
        BY <3>1
      <4> HIDE DEF h
      <4> QED BY <3>1, <4>2, <4>3, <4>4
    <3>2. CASE k + 1 \notin s
      <4>1. s \in SUBSET (1 .. k) /\ s \ {Max(s)} \in SUBSET (1 .. k)
        BY <2>2, <3>2
      <4>2. h[s] = g[s] /\ h[s \ {Max(s)}] = g[s \ {Max(s)}]
        BY <2>2, <3>2, <4>1
      <4> HIDE DEF h
      <4> QED BY <2>1, <4>1, <4>2 DEF Folds
    <3> QED BY <3>1, <3>2
  <2>5. Solves(h, k + 1)
    <3> HIDE DEF h
    <3> QED BY <2>4 DEF Folds
  <2>6. k + 1 \in 0 .. n
    BY <2>2
  <2> HIDE DEF h, Solves
  <2> QED BY <2>3, <2>5, <2>6
<1>3. n \in S
  <2> HIDE DEF S
  <2>1. \A k \in 0 .. n : k \in S
    BY <1>1, <1>2, CountUp
  <2> QED BY <2>1
<1> QED BY <1>3
----------------------------------------------------------------------------
(* The walk over the events, newest first, of both servers.                *)

Event == [cursor : Nat, type : Types, id : Ids]
Picked == [events : Seq(Event), seen : SUBSET Ids]
NonePicked == [events |-> <<>>, seen |-> {}]

(* One step of the walk: the C++ server pushes to the front, the prototype *)
(* to the back.                                                            *)
Pick(front, matched, acc, e) ==
  IF e.id \in matched \ acc.seen
  THEN [events |-> IF front THEN <<e>> \o acc.events ELSE Append(acc.events, e),
        seen |-> acc.seen \cup {e.id}]
  ELSE acc

Folded(front, matched, walked) ==
  CHOOSE iter :
    iter = [s \in SUBSET (DOMAIN walked) |->
              IF s = {} THEN NonePicked
              ELSE Pick(front, matched, iter[s \ {Max(s)}], walked[Max(s)])]

Answer(front, matched, walked) == Folded(front, matched, walked)[DOMAIN walked].events

(* Lemma: the fold of module Events is Folded.                             *)
LEMMA FoldIsFolded ==
  ASSUME NEW matched, NEW walked
  PROVE  /\ FoldLeft(LAMBDA acc, e :
                        IF e.id \in matched \ acc.seen
                        THEN [events |-> <<e>> \o acc.events, seen |-> acc.seen \cup {e.id}]
                        ELSE acc, NonePicked, walked)
               = Folded(TRUE, matched, walked)[DOMAIN walked]
         /\ FoldLeft(LAMBDA acc, e :
                        IF e.id \in matched \ acc.seen
                        THEN [events |-> Append(acc.events, e), seen |-> acc.seen \cup {e.id}]
                        ELSE acc, NonePicked, walked)
               = Folded(FALSE, matched, walked)[DOMAIN walked]
BY DEF FoldLeft, MapThenFoldSet, Folded, Pick, NonePicked

(* Lemma: a step of the walk picks events.                                 *)
LEMMA PickPicks ==
  ASSUME NEW front \in BOOLEAN, NEW matched \in SUBSET Ids, NEW acc \in Picked, NEW e \in Event
  PROVE  Pick(front, matched, acc, e) \in Picked
<1>1. acc.events \in Seq(Event) /\ acc.seen \in SUBSET Ids /\ e.id \in Ids
  BY DEF Picked, Event
<1>2. <<e>> \o acc.events \in Seq(Event) /\ Append(acc.events, e) \in Seq(Event)
  BY <1>1
<1>3. acc.seen \cup {e.id} \in SUBSET Ids
  BY <1>1
<1> QED BY <1>2, <1>3 DEF Pick, Picked

(* Lemma: the walk goes through the list step by step.                     *)
LEMMA WalkSteps ==
  ASSUME NEW front \in BOOLEAN, NEW matched \in SUBSET Ids, NEW walked \in Seq(Event)
  PROVE  \E r \in [0 .. Len(walked) -> Picked] :
           /\ r[0] = NonePicked
           /\ \A k \in 0 .. Len(walked) - 1 :
                r[k + 1] = Pick(front, matched, r[k], walked[k + 1])
           /\ Answer(front, matched, walked) = r[Len(walked)].events
<1> DEFINE n == Len(walked)
           F == [p \in Picked \X (1 .. n) |-> Pick(front, matched, p[1], walked[p[2]])]
           iter == Folded(front, matched, walked)
           r == [k \in 0 .. n |-> iter[1 .. k]]
<1>1. n \in Nat /\ DOMAIN walked = 1 .. n /\ \A k \in 1 .. n : walked[k] \in Event
  OBVIOUS
<1>2. F \in [Picked \X (1 .. n) -> Picked]
  BY <1>1, PickPicks
<1>3. NonePicked \in Picked
  BY DEF NonePicked, Picked
<1> HIDE DEF n
<1>4. PICK g \in [SUBSET (1 .. n) -> Picked] : Folds(g, n, NonePicked, F)
  <2> HIDE DEF F
  <2>1. n \in Nat
    BY <1>1
  <2> QED BY <2>1, <1>2, <1>3, FoldExists
<1>5. \A s \in SUBSET (1 .. n) :
        g[s] = IF s = {} THEN NonePicked
               ELSE Pick(front, matched, g[s \ {Max(s)}], walked[Max(s)])
  <2> SUFFICES ASSUME NEW s \in SUBSET (1 .. n), s # {}
        PROVE  g[s] = Pick(front, matched, g[s \ {Max(s)}], walked[Max(s)])
    BY <1>4 DEF Folds
  <2>1. Max(s) \in 1 .. n
    BY <1>1, LastPosition
  <2>2. g[s \ {Max(s)}] \in Picked
    OBVIOUS
  <2> QED BY <1>4, <2>1, <2>2 DEF Folds
<1>6. g = [s \in SUBSET (DOMAIN walked) |->
             IF s = {} THEN NonePicked
             ELSE Pick(front, matched, g[s \ {Max(s)}], walked[Max(s)])]
  BY <1>1, <1>5
<1>7. iter = [s \in SUBSET (DOMAIN walked) |->
                IF s = {} THEN NonePicked
                ELSE Pick(front, matched, iter[s \ {Max(s)}], walked[Max(s)])]
  BY <1>6 DEF Folded
<1> HIDE DEF iter
<1>8. iter[{}] = NonePicked
  BY <1>7
<1>9. ASSUME NEW k \in 0 .. n - 1
      PROVE  iter[1 .. k + 1] = Pick(front, matched, iter[1 .. k], walked[k + 1])
  <2>1. 1 .. k + 1 \subseteq 1 .. n /\ k + 1 \in 1 .. k + 1 /\ k + 1 \in Nat
    BY <1>1
  <2>2. Max(1 .. k + 1) \in 1 .. k + 1 /\ \A j \in 1 .. k + 1 : Max(1 .. k + 1) >= j
    BY <2>1, LastPosition
  <2>3. Max(1 .. k + 1) = k + 1
    BY <2>1, <2>2
  <2>4. (1 .. k + 1) \ {k + 1} = 1 .. k
    BY <2>1
  <2>5. 1 .. k + 1 \in SUBSET (DOMAIN walked)
    BY <1>1, <2>1
  <2> QED BY <1>7, <2>1, <2>3, <2>4, <2>5
<1>10. /\ r[0] = NonePicked
       /\ \A k \in 0 .. n - 1 : r[k + 1] = Pick(front, matched, r[k], walked[k + 1])
  <2>1. 1 .. 0 = {} /\ 0 \in 0 .. n
    BY <1>1
  <2>2. \A k \in 0 .. n - 1 : k \in 0 .. n /\ k + 1 \in 0 .. n
    BY <1>1
  <2> QED BY <1>8, <1>9, <2>1, <2>2
<1> HIDE DEF r
<1>11. \A k \in 0 .. n : r[k] \in Picked
  <2> DEFINE S == {k \in 0 .. n : r[k] \in Picked}
  <2>1. 0 \in S
    BY <1>1, <1>3, <1>10
  <2>2. ASSUME NEW k \in 0 .. n - 1, k \in S PROVE k + 1 \in S
    <3>1. k + 1 \in 1 .. n /\ r[k] \in Picked
      BY <1>1, <2>2
    <3>2. r[k + 1] = Pick(front, matched, r[k], walked[k + 1])
      BY <1>10
    <3>3. r[k + 1] \in Picked
      BY <1>1, <3>1, <3>2, PickPicks
    <3> QED BY <3>1, <3>3
  <2> HIDE DEF S
  <2>3. \A k \in 0 .. n : k \in S
    BY <1>1, <2>1, <2>2, CountUp
  <2> QED BY <2>3 DEF S
<1>12. r \in [0 .. n -> Picked] /\ iter[DOMAIN walked] = r[n]
  <2>1. n \in 0 .. n
    BY <1>1
  <2> QED BY <1>1, <1>11, <2>1 DEF r
<1>13. Answer(front, matched, walked) = r[n].events
  BY <1>12 DEF Answer, iter
<1> QED BY <1>10, <1>12, <1>13 DEF n
Decreasing(list) == \A i, j \in DOMAIN list : i < j => list[i].cursor > list[j].cursor
Increasing(list) == \A i, j \in DOMAIN list : i < j => list[i].cursor < list[j].cursor

(* The events of matched IDs than which there is none newer of their ID.   *)
Newest(events, matched) ==
  {e \in events : e.id \in matched /\ \A o \in events : o.id = e.id => o.cursor <= e.cursor}

(* The first event of its ID, which is matched.                            *)
FirstOfId(walked, matched, k) ==
  walked[k].id \in matched /\ \A j \in 1 .. k - 1 : walked[j].id # walked[k].id

(* What the walk has picked after k events.                                *)
PickedAfter(walked, matched, k, acc) ==
  /\ acc.seen = {walked[j].id : j \in 1 .. k} \cap matched
  /\ \A i \in DOMAIN acc.events :
       \E j \in 1 .. k : acc.events[i] = walked[j] /\ FirstOfId(walked, matched, j)
  /\ \A j \in 1 .. k : FirstOfId(walked, matched, j) =>
       \E i \in DOMAIN acc.events : acc.events[i] = walked[j]
  /\ Increasing(acc.events)

(* Lemma: what it is to push to the front.                                 *)
LEMMA PushFront ==
  ASSUME NEW list \in Seq(Event), NEW e \in Event
  PROVE  /\ DOMAIN (<<e>> \o list) = 1 .. Len(list) + 1
         /\ (<<e>> \o list)[1] = e
         /\ \A i \in 2 .. Len(list) + 1 : (<<e>> \o list)[i] = list[i - 1]
         /\ \A i \in DOMAIN list : i + 1 \in 2 .. Len(list) + 1 /\ (<<e>> \o list)[i + 1] = list[i]
OBVIOUS

(* Lemma: what the beginning of a list is.                                 *)
LEMMA Beginning ==
  ASSUME NEW list \in Seq(Event), NEW n \in 0 .. Len(list)
  PROVE  /\ SubSeq(list, 1, n) \in Seq(Event) /\ Len(SubSeq(list, 1, n)) = n
         /\ \A k \in 1 .. n : k \in 1 .. Len(list) /\ SubSeq(list, 1, n)[k] = list[k]
OBVIOUS

(* Lemma: one more event.                                                  *)
LEMMA PickOneMore ==
  ASSUME NEW walked \in Seq(Event), Decreasing(walked), NEW matched \in SUBSET Ids,
         NEW k \in 0 .. Len(walked) - 1, NEW acc \in Picked, PickedAfter(walked, matched, k, acc)
  PROVE  PickedAfter(walked, matched, k + 1, Pick(TRUE, matched, acc, walked[k + 1]))
<1> DEFINE e == walked[k + 1]
<1>1. /\ k \in Nat /\ e \in Event /\ e.cursor \in Nat
      /\ \A j \in 1 .. k + 1 : /\ j \in DOMAIN walked /\ walked[j] \in Event
                           /\ walked[j].cursor \in Nat
      /\ \A j \in 1 .. k + 1 : j = k + 1 \/ j \in 1 .. k
      /\ \A j \in 1 .. k : j \in 1 .. k + 1 /\ walked[j].cursor > e.cursor
      /\ k + 1 \in 1 .. k + 1
  <2>1. /\ k \in Nat /\ k + 1 \in 1 .. k + 1 /\ DOMAIN walked = 1 .. Len(walked)
        /\ \A j \in 1 .. k + 1 : (j = k + 1 \/ j \in 1 .. k) /\ j \in 1 .. Len(walked)
        /\ \A j \in 1 .. k : j \in 1 .. k + 1 /\ j < k + 1
    OBVIOUS
  <2>2. \A j \in 1 .. Len(walked) : walked[j] \in Event
    OBVIOUS
  <2>3. \A j \in 1 .. Len(walked) : walked[j].cursor \in Nat
    BY <2>2 DEF Event
  <2> HIDE DEF e
  <2>4. \A j \in 1 .. k : walked[j].cursor > walked[k + 1].cursor
    BY <2>1 DEF Decreasing
  <2> QED BY <2>1, <2>2, <2>3, <2>4 DEF e
<1>2. acc.events \in Seq(Event)
  BY DEF Picked
<1> HIDE DEF e
<1>3. CASE e.id \in matched \ acc.seen
  <2> DEFINE list == <<e>> \o acc.events
             n == Len(acc.events)
  <2>1. /\ Pick(TRUE, matched, acc, e).events = list
        /\ Pick(TRUE, matched, acc, e).seen = acc.seen \cup {e.id}
    BY <1>3 DEF Pick
  <2>2. /\ DOMAIN list = 1 .. n + 1 /\ list[1] = e /\ n \in Nat /\ DOMAIN acc.events = 1 .. n
        /\ \A i \in 2 .. n + 1 : list[i] = acc.events[i - 1] /\ i - 1 \in DOMAIN acc.events
        /\ \A i \in DOMAIN acc.events : i + 1 \in 1 .. n + 1 /\ list[i + 1] = acc.events[i]
    BY <1>1, <1>2, PushFront
  <2>3. FirstOfId(walked, matched, k + 1)
    BY <1>3 DEF FirstOfId, PickedAfter, e
  <2> HIDE DEF list, n
  <2>4. acc.seen \cup {e.id} = {walked[j].id : j \in 1 .. k + 1} \cap matched
    BY <1>1, <1>3 DEF PickedAfter, e
  <2>5. ASSUME NEW i \in DOMAIN list
        PROVE  \E j \in 1 .. k + 1 : list[i] = walked[j] /\ FirstOfId(walked, matched, j)
    <3>1. CASE i = 1
      BY <1>1, <2>2, <2>3, <3>1 DEF e
    <3>2. CASE i \in 2 .. n + 1
      BY <1>1, <2>2, <3>2 DEF PickedAfter
    <3> QED BY <2>2, <3>1, <3>2
  <2>6. ASSUME NEW j \in 1 .. k + 1, FirstOfId(walked, matched, j)
        PROVE  \E i \in DOMAIN list : list[i] = walked[j]
    <3>1. CASE j = k + 1
      <4>1. 1 \in DOMAIN list
        BY <2>2
      <4> QED BY <2>2, <3>1, <4>1 DEF e
    <3>2. CASE j \in 1 .. k
      BY <2>2, <2>6, <3>2 DEF PickedAfter
    <3> QED BY <1>1, <3>1, <3>2
  <2>7. Increasing(list)
    <3> SUFFICES ASSUME NEW i \in 1 .. n + 1, NEW j \in 1 .. n + 1, i < j
          PROVE  list[i].cursor < list[j].cursor
      BY <2>2 DEF Increasing
    <3>1. j \in 2 .. n + 1 /\ j - 1 \in DOMAIN acc.events /\ list[j] = acc.events[j - 1]
      BY <2>2
    <3>2. CASE i = 1
      <4>1. PICK m \in 1 .. k : list[j] = walked[m]
        BY <3>1 DEF PickedAfter
      <4> QED BY <1>1, <2>2, <3>2, <4>1
    <3>3. CASE i # 1
      <4>1. i \in 2 .. n + 1 /\ i - 1 \in DOMAIN acc.events /\ list[i] = acc.events[i - 1]
        BY <2>2, <3>3
      <4>2. i - 1 < j - 1
        BY <2>2
      <4> QED BY <3>1, <4>1, <4>2 DEF PickedAfter, Increasing
    <3> QED BY <3>2, <3>3
  <2> QED BY <2>1, <2>4, <2>5, <2>6, <2>7 DEF PickedAfter, e
<1>4. CASE e.id \notin matched \ acc.seen
  <2>1. Pick(TRUE, matched, acc, e) = acc
    BY <1>4 DEF Pick
  <2>2. ~ FirstOfId(walked, matched, k + 1)
    <3>1. 1 .. k + 1 - 1 = 1 .. k
      OBVIOUS
    <3>2. e.id \in matched => \E j \in 1 .. k : walked[j].id = e.id
      BY <1>4 DEF PickedAfter
    <3> QED BY <3>1, <3>2 DEF FirstOfId, e
  <2>3. acc.seen = {walked[j].id : j \in 1 .. k + 1} \cap matched
    BY <1>1, <1>4 DEF PickedAfter, e
  <2>4. \A i \in DOMAIN acc.events :
          \E j \in 1 .. k + 1 : acc.events[i] = walked[j] /\ FirstOfId(walked, matched, j)
    BY <1>1 DEF PickedAfter
  <2>5. \A j \in 1 .. k + 1 : FirstOfId(walked, matched, j) =>
          \E i \in DOMAIN acc.events : acc.events[i] = walked[j]
    BY <1>1, <2>2 DEF PickedAfter
  <2> QED BY <2>1, <2>3, <2>4, <2>5 DEF PickedAfter, e
<1> QED BY <1>3, <1>4

(* Lemma: a walk over events, newest first, answers with the newest event  *)
(* of each matched ID, oldest first.                                       *)
LEMMA WalkPicksNewest ==
  ASSUME NEW walked \in Seq(Event), Decreasing(walked), NEW matched \in SUBSET Ids
  PROVE  /\ Answer(TRUE, matched, walked) \in Seq(Event)
         /\ ToSet(Answer(TRUE, matched, walked)) = Newest(ToSet(walked), matched)
         /\ Increasing(Answer(TRUE, matched, walked))
<1> DEFINE n == Len(walked)
<1>1. PICK r \in [0 .. n -> Picked] :
        /\ r[0] = NonePicked
        /\ \A k \in 0 .. n - 1 : r[k + 1] = Pick(TRUE, matched, r[k], walked[k + 1])
        /\ Answer(TRUE, matched, walked) = r[n].events
  BY WalkSteps
<1>2. n \in Nat /\ DOMAIN walked = 1 .. n /\ \A j \in 1 .. n : walked[j] \in Event
  OBVIOUS
<1> HIDE DEF n
<1>3. \A k \in 0 .. n : PickedAfter(walked, matched, k, r[k])
  <2> DEFINE S == {k \in 0 .. n : PickedAfter(walked, matched, k, r[k])}
  <2>1. 0 \in S
    <3>1. PickedAfter(walked, matched, 0, NonePicked)
      BY DEF PickedAfter, NonePicked, Increasing
    <3> QED BY <1>1, <1>2, <3>1
  <2>2. ASSUME NEW k \in 0 .. n - 1, k \in S PROVE k + 1 \in S
    <3>1. k \in 0 .. Len(walked) - 1 /\ r[k] \in Picked /\ k + 1 \in 0 .. n
      BY <1>2, <2>2 DEF n
    <3>2. PickedAfter(walked, matched, k, r[k])
      BY <2>2
    <3>3. PickedAfter(walked, matched, k + 1, Pick(TRUE, matched, r[k], walked[k + 1]))
      BY <3>1, <3>2, PickOneMore
    <3>4. PickedAfter(walked, matched, k + 1, r[k + 1])
      BY <1>1, <3>3
    <3> QED BY <3>1, <3>4
  <2> HIDE DEF S
  <2>3. \A k \in 0 .. n : k \in S
    BY <1>2, <2>1, <2>2, CountUp
  <2> QED BY <2>3 DEF S
<1>4. n \in 0 .. n /\ r[n] \in Picked
  BY <1>2
<1>5. PickedAfter(walked, matched, n, r[n]) /\ r[n].events \in Seq(Event)
  BY <1>3, <1>4 DEF Picked
<1>6. \A j \in 1 .. n : walked[j] \in Event /\ walked[j].cursor \in Nat /\ j \in Nat
  BY <1>2 DEF Event
<1>7. ASSUME NEW j \in 1 .. n
      PROVE  FirstOfId(walked, matched, j) <=> walked[j] \in Newest(ToSet(walked), matched)
  <2>1. ASSUME FirstOfId(walked, matched, j), NEW i \in 1 .. n, walked[i].id = walked[j].id
        PROVE  walked[i].cursor <= walked[j].cursor
    <3>1. ~ (i \in 1 .. j - 1)
      BY <2>1 DEF FirstOfId
    <3>2. i = j \/ j < i
      BY <1>6, <3>1
    <3> QED BY <1>2, <1>6, <3>2 DEF Decreasing
  <2>2. ASSUME walked[j] \in Newest(ToSet(walked), matched), NEW i \in 1 .. j - 1
        PROVE  walked[i].id # walked[j].id
    <3>1. i \in 1 .. n /\ i < j
      BY <1>2
    <3>2. walked[i].cursor > walked[j].cursor
      BY <1>2, <3>1 DEF Decreasing
    <3> QED BY <1>2, <1>6, <2>2, <3>1, <3>2 DEF Newest, ToSet
  <2> QED BY <1>2, <2>1, <2>2 DEF FirstOfId, Newest, ToSet
<1>8. ToSet(r[n].events) = Newest(ToSet(walked), matched)
  <2>1. ASSUME NEW e \in ToSet(r[n].events) PROVE e \in Newest(ToSet(walked), matched)
    <3>1. PICK i \in DOMAIN r[n].events : e = r[n].events[i]
      BY DEF ToSet
    <3> QED BY <1>5, <1>7, <3>1 DEF PickedAfter
  <2>2. ASSUME NEW e \in Newest(ToSet(walked), matched) PROVE e \in ToSet(r[n].events)
    <3>1. PICK j \in 1 .. n : e = walked[j]
      BY <1>2 DEF Newest, ToSet
    <3> QED BY <1>5, <1>7, <3>1 DEF PickedAfter, ToSet
  <2> QED BY <2>1, <2>2
<1> QED BY <1>1, <1>5, <1>8 DEF PickedAfter, n

(* Lemma: pushing to the back gives the answer the other way round.        *)
LEMMA WalksMirror ==
  ASSUME NEW walked \in Seq(Event), NEW matched \in SUBSET Ids
  PROVE  Reverse(Answer(FALSE, matched, walked)) = Answer(TRUE, matched, walked)
<1> DEFINE n == Len(walked)
<1>1. PICK r \in [0 .. n -> Picked] :
        /\ r[0] = NonePicked
        /\ \A k \in 0 .. n - 1 : r[k + 1] = Pick(TRUE, matched, r[k], walked[k + 1])
        /\ Answer(TRUE, matched, walked) = r[n].events
  BY WalkSteps
<1>2. PICK t \in [0 .. n -> Picked] :
        /\ t[0] = NonePicked
        /\ \A k \in 0 .. n - 1 : t[k + 1] = Pick(FALSE, matched, t[k], walked[k + 1])
        /\ Answer(FALSE, matched, walked) = t[n].events
  BY WalkSteps
<1>3. n \in Nat /\ \A k \in 1 .. n : walked[k] \in Event
  OBVIOUS
<1> HIDE DEF n
<1>4. ASSUME NEW list \in Seq(Event), NEW e \in Event
      PROVE  Reverse(Append(list, e)) = <<e>> \o Reverse(list)
  BY DEF Reverse
<1> DEFINE Same(k) == t[k].seen = r[k].seen /\ Reverse(t[k].events) = r[k].events
           S == {k \in 0 .. n : Same(k)}
<1>5. 0 \in S
  <2>1. Reverse(<<>>) = <<>>
    BY DEF Reverse
  <2>2. NonePicked.events = <<>>
    BY DEF NonePicked
  <2>3. Same(0)
    BY <1>1, <1>2, <2>1, <2>2
  <2>4. 0 \in 0 .. n
    BY <1>3
  <2> HIDE DEF Same
  <2> QED BY <2>3, <2>4
<1>6. ASSUME NEW k \in 0 .. n - 1, k \in S PROVE k + 1 \in S
  <2>1. k + 1 \in 1 .. n /\ k + 1 \in 0 .. n /\ k \in 0 .. n
    BY <1>3, <1>6
  <2>2. /\ r[k + 1] = Pick(TRUE, matched, r[k], walked[k + 1])
        /\ t[k + 1] = Pick(FALSE, matched, t[k], walked[k + 1])
    BY <1>1, <1>2
  <2>3. Same(k)
    BY <1>6
  <2>4. t[k].events \in Seq(Event) /\ walked[k + 1] \in Event
    BY <1>3, <2>1 DEF Picked
  <2>5. Reverse(Append(t[k].events, walked[k + 1])) = <<walked[k + 1]>> \o r[k].events
    BY <1>4, <2>3, <2>4
  <2>6. Same(k + 1)
    <3>1. CASE walked[k + 1].id \in matched \ r[k].seen
      <4>1. /\ r[k + 1] = [events |-> <<walked[k + 1]>> \o r[k].events,
                           seen |-> r[k].seen \cup {walked[k + 1].id}]
            /\ t[k + 1] = [events |-> Append(t[k].events, walked[k + 1]),
                           seen |-> t[k].seen \cup {walked[k + 1].id}]
        BY <2>2, <2>3, <3>1 DEF Pick
      <4> QED BY <2>3, <2>5, <4>1
    <3>2. CASE walked[k + 1].id \notin matched \ r[k].seen
      BY <2>2, <2>3, <3>2 DEF Pick
    <3> QED BY <3>1, <3>2
  <2> HIDE DEF Same
  <2> QED BY <2>1, <2>6
<1>7. n \in S
  <2> HIDE DEF S
  <2>1. n \in 0 .. n
    BY <1>3
  <2> QED BY <1>3, <1>5, <1>6, <2>1, CountUp
<1> QED BY <1>1, <1>2, <1>7
----------------------------------------------------------------------------
(* The list of the C++ server.                                             *)

(* The events of the history are consecutive, one at each position.        *)
HistoryOK ==
  /\ cur_pos \in Nat /\ cur_pos >= InitialPos /\ history \subseteq Event
  /\ \A e \in history : e.cursor \in InitialPos + 1 .. cur_pos
  /\ \A c \in InitialPos + 1 .. cur_pos : \E e \in history : e.cursor = c
  /\ \A e, o \in history : e.cursor = o.cursor => e = o

(* The list has the last n events, newest first.                           *)
LastEvents(list, n) ==
  /\ list \in Seq(Event) /\ Len(list) = n
  /\ \A k \in 1 .. n : list[k] \in history /\ list[k].cursor = cur_pos + 1 - k

ChainOK ==
  /\ LastEvents(chain, Len(chain))
  /\ Len(chain) <= EventChainLen + 1 /\ Len(chain) <= cur_pos - InitialPos
  /\ Len(chain) = EventChainLen + 1 \/ Len(chain) = cur_pos - InitialPos

EventsInv == HistoryOK /\ ChainOK

(* Lemma: a step of the history.                                           *)
LEMMA HistoryGrows ==
  ASSUME HistoryOK, NEW type \in Types, NEW id \in Ids, notify(type, id),
         NEW event, event = [cursor |-> cur_pos + 1, type |-> type, id |-> id]
  PROVE  HistoryOK' /\ event \in Event /\ event \in history' /\ history \subseteq history'
<1>1. /\ cur_pos \in Nat /\ cur_pos' = cur_pos + 1 /\ history' = history \cup {event}
      /\ event.cursor = cur_pos + 1 /\ cur_pos >= InitialPos
  BY DEF notify, HistoryOK
<1>2. event \in Event
  BY <1>1 DEF Event
<1>3. \A e \in history' : e.cursor \in InitialPos + 1 .. cur_pos'
  BY <1>1 DEF HistoryOK, InitialPos
<1>4. \A c \in InitialPos + 1 .. cur_pos' : \E e \in history' : e.cursor = c
  BY <1>1 DEF HistoryOK, InitialPos
<1>5. \A e, o \in history' : e.cursor = o.cursor => e = o
  BY <1>1 DEF HistoryOK, InitialPos
<1> QED BY <1>1, <1>2, <1>3, <1>4, <1>5 DEF HistoryOK, InitialPos

LEMMA ChainGrows ==
  ASSUME EventsInv, NEW type \in Types, NEW id \in Ids, notify(type, id)
  PROVE  ChainOK'
<1> DEFINE event == [cursor |-> cur_pos + 1, type |-> type, id |-> id]
           kept == IF Len(chain) > EventChainLen THEN Front(chain) ELSE chain
<1>1. event \in Event /\ event \in history' /\ history \subseteq history'
  BY HistoryGrows DEF EventsInv
<1>2. cur_pos \in Nat /\ cur_pos' = cur_pos + 1 /\ chain' = <<event>> \o kept
      /\ event.cursor = cur_pos + 1
  BY DEF notify, EventsInv, HistoryOK
<1>3. /\ chain \in Seq(Event) /\ Len(chain) \in Nat /\ EventChainLen \in Nat
      /\ \A k \in 1 .. Len(chain) : chain[k] \in history /\ chain[k].cursor = cur_pos + 1 - k
      /\ Len(chain) <= EventChainLen + 1 /\ Len(chain) <= cur_pos - InitialPos
      /\ Len(chain) = EventChainLen + 1 \/ Len(chain) = cur_pos - InitialPos
  BY EventsAssumption DEF EventsInv, ChainOK, LastEvents
<1>4. /\ kept \in Seq(Event)
      /\ Len(kept) = IF Len(chain) > EventChainLen THEN Len(chain) - 1 ELSE Len(chain)
      /\ \A k \in 1 .. Len(kept) : k \in 1 .. Len(chain) /\ kept[k] = chain[k]
  <2>1. CASE Len(chain) > EventChainLen
    <3>1. Len(chain) - 1 \in 0 .. Len(chain)
      BY <1>3, <2>1
    <3>2. kept = SubSeq(chain, 1, Len(chain) - 1)
      BY <2>1 DEF Front
    <3> HIDE DEF kept
    <3> QED BY <1>3, <2>1, <3>1, <3>2, Beginning
  <2>2. CASE ~ (Len(chain) > EventChainLen)
    BY <1>3, <2>2
  <2> QED BY <2>1, <2>2
<1> HIDE DEF event, kept
<1>5. /\ chain' \in Seq(Event) /\ Len(chain') = Len(kept) + 1
      /\ chain'[1] = event /\ \A k \in 2 .. Len(kept) + 1 : chain'[k] = kept[k - 1]
  BY <1>1, <1>2, <1>4, PushFront
<1>6. ASSUME NEW k \in 1 .. Len(chain')
      PROVE  chain'[k] \in history' /\ chain'[k].cursor = cur_pos' + 1 - k
  <2>1. CASE k = 1
    BY <1>1, <1>2, <1>5, <2>1
  <2>2. CASE k # 1
    <3>1. k \in 2 .. Len(kept) + 1 /\ k - 1 \in 1 .. Len(kept) /\ k \in Nat
      BY <1>4, <1>5, <2>2
    <3>2. chain'[k] = chain[k - 1] /\ k - 1 \in 1 .. Len(chain)
      BY <1>4, <1>5, <3>1
    <3>3. chain[k - 1] \in history /\ chain[k - 1].cursor = cur_pos + 1 - (k - 1)
      BY <1>3, <3>2
    <3> QED BY <1>1, <1>2, <3>1, <3>2, <3>3
  <2> QED BY <2>1, <2>2
<1>7. /\ Len(chain') <= EventChainLen + 1 /\ Len(chain') <= cur_pos' - InitialPos
      /\ Len(chain') = EventChainLen + 1 \/ Len(chain') = cur_pos' - InitialPos
  BY <1>2, <1>3, <1>4, <1>5 DEF InitialPos
<1> QED BY <1>5, <1>6, <1>7 DEF ChainOK, LastEvents

LEMMA EventsInvariance == EventsSpec => []EventsInv
<1>1. EventsInit => EventsInv
  BY EventsAssumption
  DEF EventsInit, EventsInv, HistoryOK, ChainOK, LastEvents, InitialPos, Event
<1>2. EventsInv /\ [EventsNext]_eventsVars => EventsInv'
  <2> SUFFICES ASSUME EventsInv, [EventsNext]_eventsVars PROVE EventsInv'
    OBVIOUS
  <2>1. CASE Restart
    BY <2>1, EventsAssumption
    DEF Restart, EventsInv, HistoryOK, ChainOK, LastEvents, InitialPos, Event
  <2>2. ASSUME NEW type \in Types, NEW id \in Ids, notify(type, id) PROVE EventsInv'
    BY <2>2, HistoryGrows, ChainGrows DEF EventsInv
  <2>3. CASE UNCHANGED eventsVars
    BY <2>3 DEF eventsVars, EventsInv, HistoryOK, ChainOK, LastEvents
  <2> QED BY <2>1, <2>2, <2>3 DEF EventsNext
<1> QED BY <1>1, <1>2, PTL DEF EventsSpec

(* Lemma: a list of the last events has all after a position.              *)
LEMMA LastEventsAreAll ==
  ASSUME HistoryOK, NEW n \in 0 .. cur_pos - InitialPos, NEW list, LastEvents(list, n)
  PROVE  ToSet(list) = {e \in history : e.cursor > cur_pos - n} /\ Decreasing(list)
<1>1. /\ DOMAIN list = 1 .. n /\ n \in Nat /\ cur_pos \in Nat /\ cur_pos - n >= InitialPos
      /\ \A k \in 1 .. n : list[k] \in history /\ list[k].cursor = cur_pos + 1 - k
  BY DEF LastEvents, HistoryOK, InitialPos
<1>2. ASSUME NEW e \in history, e.cursor > cur_pos - n PROVE e \in ToSet(list)
  <2>1. e.cursor \in InitialPos + 1 .. cur_pos
    BY DEF HistoryOK
  <2>2. PICK k \in 1 .. n : k = cur_pos + 1 - e.cursor
    BY <1>1, <1>2, <2>1 DEF InitialPos
  <2>3. list[k] \in history /\ list[k].cursor = e.cursor
    BY <1>1, <2>1, <2>2 DEF InitialPos
  <2> QED BY <1>1, <2>3 DEF HistoryOK, ToSet
<1>3. ASSUME NEW e \in ToSet(list) PROVE e \in history /\ e.cursor > cur_pos - n
  BY <1>1 DEF ToSet
<1>4. Decreasing(list)
  BY <1>1 DEF Decreasing
<1> QED BY <1>2, <1>3, <1>4

(* Lemma: and there is only one such list.                                 *)
LEMMA LastEventsAreTold ==
  ASSUME HistoryOK, NEW n \in Nat, NEW list, NEW other, LastEvents(list, n), LastEvents(other, n)
  PROVE  list = other
<1>1. \A k \in 1 .. n : list[k] = other[k]
  BY DEF LastEvents, HistoryOK
<1> QED BY <1>1 DEF LastEvents

(* Theorem: the list of Events.h:47 is, newest first, the set of the       *)
(* newest events that module Realplexor keeps.                             *)
THEOREM ListIsRecent == EventsSpec => []ChainIsRecent
<1>1. ASSUME EventsInv PROVE ChainIsRecent
  <2>1. /\ LastEvents(chain, Len(chain)) /\ HistoryOK /\ Len(chain) \in Nat
        /\ Len(chain) <= EventChainLen + 1 /\ Len(chain) <= cur_pos - InitialPos
        /\ Len(chain) = EventChainLen + 1 \/ Len(chain) = cur_pos - InitialPos
        /\ EventChainLen \in Nat /\ cur_pos \in Nat
    BY <1>1, EventsAssumption DEF EventsInv, ChainOK, LastEvents, HistoryOK
  <2>2. Len(chain) \in 0 .. cur_pos - InitialPos
    BY <2>1 DEF InitialPos
  <2>3. ToSet(chain) = {e \in history : e.cursor > cur_pos - Len(chain)} /\ Decreasing(chain)
    BY <2>1, <2>2, LastEventsAreAll
  <2>4. \A e \in history : \/ Len(chain) = EventChainLen + 1
                         \/ /\ e.cursor > cur_pos - Len(chain)
                            /\ e.cursor > cur_pos - (EventChainLen + 1)
    <3>1. \A e \in history : e.cursor \in Nat /\ e.cursor > InitialPos
      BY <2>1 DEF HistoryOK, InitialPos
    <3> QED BY <2>1, <3>1 DEF InitialPos
  <2> QED BY <2>3, <2>4 DEF ChainIsRecent, KeepRecent, Decreasing
<1> QED BY <1>1, EventsInvariance, PTL

(* Lemma: what an answer from the last events is.                          *)
LEMMA AnswerMissesNothing ==
  ASSUME HistoryOK, NEW from \in InitialPos .. cur_pos, NEW matched \in SUBSET Ids,
         NEW list, LastEvents(list, cur_pos - from)
  PROVE  /\ ToSet(Answer(TRUE, matched, list))
               = get_recent_events(history, cur_pos, from, matched, "FAKE")
         /\ Increasing(Answer(TRUE, matched, list))
         /\ Answer(TRUE, matched, list) \in Seq(Event)
<1>1. cur_pos \in Nat /\ from \in Nat /\ from # 0 /\ cur_pos - from \in 0 .. cur_pos - InitialPos
      /\ cur_pos - (cur_pos - from) = from
  BY DEF HistoryOK, InitialPos
<1>2. ToSet(list) = {e \in history : e.cursor > from} /\ Decreasing(list) /\ list \in Seq(Event)
  BY <1>1, LastEventsAreAll DEF LastEvents
<1>3. /\ ToSet(Answer(TRUE, matched, list)) = Newest(ToSet(list), matched)
      /\ Increasing(Answer(TRUE, matched, list))
      /\ Answer(TRUE, matched, list) \in Seq(Event)
  BY <1>2, WalkPicksNewest
<1>4. \A e \in history : e.cursor \in Nat
  BY DEF HistoryOK, Event
<1>5. Newest(ToSet(list), matched) = get_recent_events(history, cur_pos, from, matched, "FAKE")
  BY <1>1, <1>2, <1>4 DEF Newest, get_recent_events
<1> QED BY <1>3, <1>5
(* Lemma: the answer of the C++ server walks over the events after from.   *)
LEMMA CppWalksLast ==
  ASSUME EventsInv, NEW from \in InitialPos .. cur_pos, NEW matched \in SUBSET Ids,
         cur_pos - from <= EventChainLen + 1
  PROVE  \E list : /\ LastEvents(list, cur_pos - from)
                   /\ recent_events(from, matched) = Answer(TRUE, matched, list)
<1> DEFINE n == cur_pos - from
           Visited == {k \in DOMAIN chain : \A j \in 1 .. k : chain[j].cursor > from}
           list == SubSeq(chain, 1, n)
<1>1. /\ chain \in Seq(Event) /\ Len(chain) \in Nat /\ DOMAIN chain = 1 .. Len(chain)
      /\ \A k \in 1 .. Len(chain) : chain[k] \in history /\ chain[k].cursor = cur_pos + 1 - k
      /\ cur_pos \in Nat /\ from \in Nat /\ from # 0 /\ EventChainLen \in Nat
  BY EventsAssumption DEF EventsInv, HistoryOK, ChainOK, LastEvents, InitialPos
<1>2. n \in 0 .. Len(chain)
  <2>1. \/ Len(chain) = EventChainLen + 1
        \/ Len(chain) = cur_pos - InitialPos
    BY DEF EventsInv, ChainOK
  <2>2. n \in Nat /\ n <= cur_pos - InitialPos
    BY <1>1 DEF InitialPos
  <2>3. n <= Len(chain)
    BY <1>1, <2>1, <2>2 DEF InitialPos
  <2> HIDE DEF n
  <2> QED BY <1>1, <2>2, <2>3
<1>3. Visited = 1 .. n
  <2>1. ASSUME NEW k \in Visited PROVE k \in 1 .. n
    <3>1. k \in 1 .. Len(chain) /\ k \in 1 .. k
      BY <1>1
    <3>2. chain[k].cursor > from
      BY <3>1
    <3> QED BY <1>1, <3>1, <3>2
  <2>2. ASSUME NEW k \in 1 .. n PROVE k \in Visited
    <3>1. \A j \in 1 .. k : j \in 1 .. Len(chain) /\ chain[j].cursor > from
      BY <1>1, <1>2
    <3>2. k \in DOMAIN chain
      BY <1>1, <1>2
    <3> QED BY <3>1, <3>2
  <2> QED BY <2>1, <2>2
<1>4. Cardinality(Visited) = n
  <2>1. n \in Int /\ n >= 0
    BY <1>1, <1>2
  <2>2. Cardinality(1 .. n) = IF 1 > n THEN 0 ELSE n - 1 + 1
    BY <2>1, FS_Interval
  <2> HIDE DEF Visited, n
  <2> QED BY <1>3, <2>1, <2>2
<1>5. LastEvents(list, n)
  BY <1>1, <1>2, Beginning DEF LastEvents
<1>6. recent_events(from, matched) = Answer(TRUE, matched, list)
  <2>1. recent_events(from, matched) = Walk(from, matched)
    BY <1>1 DEF recent_events
  <2>2. Walk(from, matched)
          = FoldLeft(LAMBDA acc, e :
                       IF e.id \in matched \ acc.seen
                       THEN [events |-> <<e>> \o acc.events, seen |-> acc.seen \cup {e.id}]
                       ELSE acc, NonePicked, SubSeq(chain, 1, Cardinality(Visited))).events
    BY DEF Walk, NonePicked
  <2> HIDE DEF Visited
  <2> QED BY <1>4, <2>1, <2>2, FoldIsFolded DEF Answer
<1> QED BY <1>5, <1>6

(* Theorem: a watcher that polls before the list forgets events newer than *)
(* its position gets the last event of every ID that had any, in order     *)
(* (get_recent_events, Events.h:58).                                       *)
THEOREM PolledInTimeMissesNothing == EventsSpec => []WatchMissesNothing
<1>1. ASSUME EventsInv PROVE WatchMissesNothing
  <2> SUFFICES ASSUME NEW from \in InitialPos .. cur_pos, NEW matched \in SUBSET Ids,
                      cur_pos - from <= EventChainLen + 1
        PROVE  /\ ToSet(recent_events(from, matched))
                     = get_recent_events(history, cur_pos, from, matched, "FAKE")
               /\ Increasing(recent_events(from, matched))
    BY DEF WatchMissesNothing, Increasing
  <2>1. PICK list : /\ LastEvents(list, cur_pos - from)
                    /\ recent_events(from, matched) = Answer(TRUE, matched, list)
    BY <1>1, CppWalksLast
  <2> QED BY <1>1, <2>1, AnswerMissesNothing DEF EventsInv
<1> QED BY <1>1, EventsInvariance, PTL
----------------------------------------------------------------------------
(* The chains of the prototype.                                            *)

(* How many events there are in the chains opened after the k-th.          *)
Later(list, k) ==
  IF k = Len(list) THEN 0
  ELSE IF k = Len(list) - 1 THEN Len(Last(list))
  ELSE Len(Last(list)) + (EventChainLen + 1)

ChainsOK ==
  /\ chains \in Seq(Seq(Event)) /\ 1 <= Len(chains) /\ Len(chains) <= 3
  /\ Len(Last(chains)) <= EventChainLen + 1
  /\ \A k \in 1 .. Len(chains) - 1 : Len(chains[k]) = EventChainLen + 1
  /\ \A k \in 1 .. Len(chains) : \A i \in 1 .. Len(chains[k]) :
       /\ chains[k][i] \in history
       /\ chains[k][i].cursor = cur_pos - Later(chains, k) - Len(chains[k]) + i
  /\ Later(chains, 1) + Len(chains[1]) <= cur_pos - InitialPos
  /\ \/ Later(chains, 1) + Len(chains[1]) = cur_pos - InitialPos
     \/ Len(chains) = 3 /\ Len(Last(chains)) >= 1

ChainsInv == EventsInv /\ ChainsOK

(* Lemma: when a chain is opened, and which is dropped.                    *)
LEMMA OpenedIs ==
  ASSUME ChainsInv
  PROVE  /\ Len(Last(chains)) <= EventChainLen => Opened = chains
         /\ Len(Last(chains)) > EventChainLen =>
              Opened = IF Len(chains) = 3 THEN Tail(Append(chains, <<>>))
                       ELSE Append(chains, <<>>)
<1> DEFINE more == Append(chains, <<>>)
           all == IF Len(Last(chains)) > EventChainLen THEN more ELSE chains
           count == Len(chains)
           len == Len(Last(chains))
<1>1. chains \in Seq(Seq(Event)) /\ count \in Nat /\ count <= 3
  BY DEF ChainsInv, ChainsOK
<1>2. len \in Nat /\ EventChainLen \in Nat
  BY EventsAssumption DEF ChainsInv, ChainsOK, Last
<1>3. Len(more) = count + 1
  <2>1. <<>> \in Seq(Event)
    OBVIOUS
  <2> QED BY <1>1, <2>1
<1>4. Opened = IF Len(all) > 3 THEN Tail(all) ELSE all
  BY Zenon DEF Opened
<1> HIDE DEF more, count
<1>5. ASSUME len <= EventChainLen PROVE Opened = chains
  <2>1. ~ (len > EventChainLen)
    <3> HIDE DEF len
    <3> QED BY <1>2, <1>5
  <2>2. ~ (count > 3)
    BY <1>1
  <2> QED BY <1>4, <2>1, <2>2, Zenon DEF count
<1>6. ASSUME len > EventChainLen
      PROVE  Opened = IF count = 3 THEN Tail(more) ELSE more
  <2>1. count + 1 > 3 <=> count = 3
    BY <1>1
  <2> QED BY <1>3, <1>4, <1>6, <2>1, Zenon
<1> QED BY <1>5, <1>6 DEF count, more

(* Lemma: what has grown, s chains being dropped, is as it was but for the *)
(* new event.                                                              *)
LEMMA GrownIsOK ==
  ASSUME ChainsInv, cur_pos' = cur_pos + 1, history \subseteq history',
         NEW s \in {0, 1}, NEW count \in Nat, NEW m \in Nat,
         count = Len(chains), 1 <= m, m <= 3, m = Len(chains'), chains' \in Seq(Seq(Event)),
         \A k \in 1 .. m - 1 : /\ k + s \in 1 .. count /\ chains'[k] = chains[k + s]
                              /\ Len(chains[k + s]) = EventChainLen + 1
                              /\ Later(chains', k) = Later(chains, k + s) + 1,
         Len(chains'[m]) >= 1, Len(chains'[m]) <= EventChainLen + 1,
         \A i \in 1 .. Len(chains'[m]) : /\ chains'[m][i] \in history'
                                        /\ chains'[m][i].cursor = cur_pos' - Len(chains'[m]) + i,
         Later(chains', 1) + Len(chains'[1]) <= cur_pos' - InitialPos,
         Later(chains', 1) + Len(chains'[1]) = cur_pos' - InitialPos \/ m = 3
  PROVE  ChainsOK'
<1>1. cur_pos \in Nat /\ EventChainLen \in Nat
  BY EventsAssumption DEF ChainsInv, EventsInv, HistoryOK
<1>2. Last(chains') = chains'[m] /\ Later(chains', m) = 0
  BY DEF Last, Later
<1>3. ASSUME NEW k \in 1 .. m, NEW i \in 1 .. Len(chains'[k])
      PROVE  /\ chains'[k][i] \in history'
             /\ chains'[k][i].cursor = cur_pos' - Later(chains', k) - Len(chains'[k]) + i
  <2>1. CASE k = m
    <3>1. Len(chains'[m]) \in Nat
      OBVIOUS
    <3>2. cur_pos' - 0 = cur_pos'
      BY <1>1
    <3> QED BY <1>1, <1>2, <2>1, <3>1, <3>2
  <2>2. CASE k # m
    <3>1. k \in 1 .. m - 1
      BY <2>2
    <3>2. /\ chains'[k] = chains[k + s] /\ Later(chains', k) = Later(chains, k + s) + 1
          /\ k + s \in 1 .. count /\ Len(chains[k + s]) \in Nat
      <4>1. /\ chains'[k] = chains[k + s] /\ Len(chains[k + s]) = EventChainLen + 1
            /\ Later(chains', k) = Later(chains, k + s) + 1 /\ k + s \in 1 .. count
        BY <3>1
      <4>2. EventChainLen + 1 \in Nat
        BY <1>1
      <4> QED BY <4>1, <4>2
    <3>3. Later(chains, k + s) \in Nat
      <4>1. Len(Last(chains)) \in Nat
        BY DEF ChainsInv, ChainsOK, Last
      <4> QED BY <1>1, <4>1 DEF Later
    <3>4. i \in 1 .. Len(chains[k + s]) /\ i \in Nat
      BY <3>2
    <3>5. /\ chains[k + s][i] \in history
          /\ chains[k + s][i].cursor = cur_pos - Later(chains, k + s) - Len(chains[k + s]) + i
      BY <3>2, <3>4 DEF ChainsInv, ChainsOK
    <3>6. cur_pos - Later(chains, k + s) = cur_pos' - Later(chains', k)
      BY <1>1, <3>2, <3>3
    <3> QED BY <3>2, <3>5, <3>6
  <2> QED BY <2>1, <2>2
<1>4. \A k \in 1 .. m - 1 : Len(chains'[k]) = EventChainLen + 1
  OBVIOUS
<1>6. Len(Last(chains')) <= EventChainLen + 1 /\ (m = 3 => Len(Last(chains')) >= 1)
  BY <1>2
<1>7. ASSUME Later(chains', 1) + Len(chains'[1]) = cur_pos' - InitialPos \/ m = 3
      PROVE  \/ Later(chains', 1) + Len(chains'[1]) = cur_pos' - InitialPos
             \/ m = 3 /\ Len(Last(chains')) >= 1
  BY <1>6, <1>7
<1> QED BY <1>3, <1>4, <1>6, <1>7, Zenon DEF ChainsOK

(* A list with its last element set.                                       *)
LastSet(list, e) == [list EXCEPT ![Len(list)] = e]

(* Lemma: a new element x of a list is set.                                *)
LEMMA AppendThenSet ==
  ASSUME NEW S, NEW list \in Seq(S), NEW x \in S, NEW e \in S
  PROVE  /\ LastSet(Append(list, x), e) \in Seq(S)
         /\ Len(LastSet(Append(list, x), e)) = Len(list) + 1
         /\ LastSet(Append(list, x), e)[Len(list) + 1] = e
         /\ Last(Append(list, x)) = x
         /\ \A k \in 1 .. Len(list) : LastSet(Append(list, x), e)[k] = list[k]
<1> DEFINE more == Append(list, x)
           new == LastSet(more, e)
           n == Len(list)
<1>1. n \in Nat
  OBVIOUS
<1>2. /\ more \in Seq(S) /\ Len(more) = n + 1
      /\ more[n + 1] = x /\ \A k \in 1 .. n : more[k] = list[k]
  BY AppendProperties
<1> HIDE DEF more, n
<1>3. n + 1 \in 1 .. Len(more)
  BY <1>1, <1>2
<1>4. /\ new \in Seq(S) /\ Len(new) = n + 1
      /\ \A j \in 1 .. n + 1 : new[j] = IF j = n + 1 THEN e ELSE more[j]
  BY <1>2, <1>3, ExceptSeq DEF LastSet
<1> HIDE DEF new
<1>5. ASSUME NEW k \in 1 .. n PROVE k \in 1 .. n + 1 /\ k # n + 1
  BY <1>1
<1>6. n + 1 \in 1 .. n + 1
  BY <1>1
<1>7. new[n + 1] = e /\ \A k \in 1 .. n : new[k] = list[k]
  BY <1>2, <1>4, <1>5, <1>6
<1> QED BY <1>2, <1>4, <1>7 DEF new, more, n, Last

(* Lemma: the same when the first element is dropped.                      *)
LEMMA AppendThenDrop ==
  ASSUME NEW S, NEW list \in Seq(S), NEW x \in S, NEW e \in S, list # <<>>
  PROVE  /\ LastSet(Tail(Append(list, x)), e) \in Seq(S)
         /\ Len(LastSet(Tail(Append(list, x)), e)) = Len(list)
         /\ LastSet(Tail(Append(list, x)), e)[Len(list)] = e
         /\ Last(Tail(Append(list, x))) = x
         /\ \A k \in 1 .. Len(list) - 1 : LastSet(Tail(Append(list, x)), e)[k] = list[k + 1]
<1> DEFINE all == Append(list, x)
           more == Tail(all)
           new == LastSet(more, e)
           n == Len(list)
<1>1. n \in Nat /\ n # 0
  BY EmptySeq
<1>2. /\ all \in Seq(S) /\ Len(all) = n + 1 /\ all # <<>>
      /\ all[n + 1] = x /\ \A k \in 1 .. n : all[k] = list[k]
  BY AppendProperties
<1> HIDE DEF all, n
<1>3. /\ more \in Seq(S) /\ Len(more) = n
      /\ \A i \in 1 .. n : more[i] = all[i + 1]
  BY <1>1, <1>2, HeadTailProperties
<1> HIDE DEF more
<1>4. ASSUME NEW k \in 1 .. n - 1 PROVE more[k] = list[k + 1] /\ k \in 1 .. n /\ k # n
  <2>1. k \in 1 .. n /\ k + 1 \in 1 .. n /\ k # n
    BY <1>1
  <2> QED BY <1>2, <1>3, <2>1
<1>5. n \in 1 .. n
  BY <1>1
<1>6. /\ new \in Seq(S) /\ Len(new) = n
      /\ \A j \in 1 .. n : new[j] = IF j = n THEN e ELSE more[j]
  BY <1>3, <1>5, ExceptSeq DEF LastSet
<1> HIDE DEF new
<1>7. new[n] = e /\ \A k \in 1 .. n - 1 : new[k] = list[k + 1]
  BY <1>4, <1>5, <1>6
<1>8. more[Len(more)] = x
  BY <1>2, <1>3, <1>5
<1> QED BY <1>6, <1>7, <1>8 DEF new, more, all, n, Last

(* Lemma: a new chain with one event, one.                                 *)
LEMMA ChainIsAdded ==
  ASSUME NEW S, chains \in Seq(S), <<>> \in S, NEW one \in S
  PROVE  /\ LastSet(Append(chains, <<>>), one) \in Seq(S)
         /\ Len(LastSet(Append(chains, <<>>), one)) = Len(chains) + 1
         /\ LastSet(Append(chains, <<>>), one)[Len(chains) + 1] = one
         /\ Last(Append(chains, <<>>)) = <<>>
         /\ \A k \in 1 .. Len(chains) : LastSet(Append(chains, <<>>), one)[k] = chains[k]
BY AppendThenSet

(* Lemma: a new chain with one event where the oldest chain is dropped.    *)
LEMMA ChainIsMoved ==
  ASSUME NEW S, chains \in Seq(S), <<>> \in S, NEW one \in S, chains # <<>>
  PROVE  /\ LastSet(Tail(Append(chains, <<>>)), one) \in Seq(S)
         /\ Len(LastSet(Tail(Append(chains, <<>>)), one)) = Len(chains)
         /\ LastSet(Tail(Append(chains, <<>>)), one)[Len(chains)] = one
         /\ Last(Tail(Append(chains, <<>>))) = <<>>
         /\ \A k \in 1 .. Len(chains) - 1 :
              LastSet(Tail(Append(chains, <<>>)), one)[k] = chains[k + 1]
BY AppendThenDrop

(* Lemma: the new event gets into the last chain or a new one.             *)
LEMMA ChainsGrow ==
  ASSUME ChainsInv, NEW type \in Types, NEW id \in Ids, notify(type, id), perl_notify(type, id)
  PROVE  ChainsOK'
<1> DEFINE event == [cursor |-> cur_pos + 1, type |-> type, id |-> id]
           full == EventChainLen + 1
           count == Len(chains)
           len == Len(Last(chains))
           m == Len(chains')
<1>1. event \in Event /\ event \in history' /\ history \subseteq history'
  BY HistoryGrows DEF ChainsInv, EventsInv
<1>2. /\ cur_pos \in Nat /\ cur_pos' = cur_pos + 1 /\ event.cursor = cur_pos + 1
      /\ EventChainLen \in Nat /\ full \in Nat
  BY EventsAssumption DEF notify, ChainsInv, EventsInv, HistoryOK
<1>3. chains' = [Opened EXCEPT ![Len(Opened)] = Append(@, event)]
  BY DEF perl_notify
<1>4. /\ chains \in Seq(Seq(Event)) /\ 1 <= count /\ count <= 3 /\ count \in Nat
      /\ len \in Nat /\ len <= full /\ len = Len(chains[count]) /\ chains # <<>>
      /\ \A k \in 1 .. count : chains[k] \in Seq(Event) /\ Len(chains[k]) \in Nat
      /\ \A k \in 1 .. count - 1 : Len(chains[k]) = full
      /\ \A i \in 1 .. len : /\ chains[count][i] \in history
                            /\ chains[count][i].cursor = cur_pos - len + i
  <2>1. Later(chains, count) = 0
    BY DEF Later
  <2>2. /\ chains \in Seq(Seq(Event)) /\ 1 <= count /\ count <= 3 /\ count \in Nat
        /\ len \in Nat /\ len <= full /\ len = Len(chains[count])
    BY DEF ChainsInv, ChainsOK, Last
  <2>3. \A k \in 1 .. count : chains[k] \in Seq(Event) /\ Len(chains[k]) \in Nat
    BY <2>2
  <2>4. \A k \in 1 .. count - 1 : Len(chains[k]) = full
    BY DEF ChainsInv, ChainsOK
  <2>5. count \in 1 .. count
    <3> HIDE DEF count
    <3> QED BY <2>2
  <2>6. \A i \in 1 .. len : /\ chains[count][i] \in history
                          /\ chains[count][i].cursor = cur_pos - 0 - len + i
    BY <2>1, <2>2, <2>5 DEF ChainsInv, ChainsOK
  <2>7. cur_pos - 0 = cur_pos
    BY <1>2
  <2>8. chains # <<>>
    BY <2>2
  <2> QED BY <2>2, <2>3, <2>4, <2>6, <2>7, <2>8
<1>5. count \in Nat /\ 1 <= count /\ count <= 3 /\ len \in Nat /\ len <= full
  BY <1>4
<1> HIDE DEF event
<1>6. <<>> \in Seq(Event) /\ Append(<<>>, event) = <<event>> /\ <<event>> \in Seq(Event)
  BY <1>1
<1>7. /\ \A k \in Nat : Later(chains, k) = IF k = count THEN 0
                                  ELSE IF k = count - 1 THEN len ELSE len + full
      /\ \A k \in Nat : Later(chains', k) = IF k = m THEN 0
                                   ELSE IF k = m - 1 THEN Len(chains'[m])
                                   ELSE Len(chains'[m]) + full
  BY DEF Later, Last
<1>8. /\ Later(chains, 1) + Len(chains[1]) <= cur_pos - InitialPos
       /\ \/ Later(chains, 1) + Len(chains[1]) = cur_pos - InitialPos
          \/ count = 3
  BY DEF ChainsInv, ChainsOK
<1>9. CASE len <= EventChainLen
  <2>1. chains' = [chains EXCEPT ![count] = Append(chains[count], event)]
    BY <1>3, <1>9, OpenedIs
  <2>2. /\ chains' \in Seq(Seq(Event)) /\ m = count
        /\ chains'[count] = Append(chains[count], event)
        /\ \A k \in 1 .. count - 1 : chains'[k] = chains[k]
    BY <1>1, <1>4, <2>1
  <2>3. /\ Len(chains'[count]) = len + 1
        /\ \A i \in 1 .. len + 1 : /\ chains'[count][i] \in history'
                                 /\ chains'[count][i].cursor = cur_pos' - (len + 1) + i
    <3>1. chains[count] \in Seq(Event) /\ len = Len(chains[count])
      BY <1>4
    <3>2. /\ Len(chains'[count]) = len + 1 /\ chains'[count][len + 1] = event
          /\ \A i \in 1 .. len : chains'[count][i] = chains[count][i]
      BY <1>1, <2>2, <3>1, AppendProperties
    <3> HIDE DEF len, count
    <3>3. ASSUME NEW i \in 1 .. len + 1
          PROVE  /\ chains'[count][i] \in history'
                 /\ chains'[count][i].cursor = cur_pos' - (len + 1) + i
      <4>1. len \in Nat
        BY <1>5
      <4>2. CASE i = len + 1
        <5>1. cur_pos' - (len + 1) + (len + 1) = cur_pos + 1
          BY <1>2, <4>1
        <5> QED BY <1>1, <1>2, <3>2, <4>2, <5>1
      <4>3. CASE i \in 1 .. len
        <5>1. cur_pos' - (len + 1) + i = cur_pos - len + i
          BY <1>2, <4>1
        <5>2. /\ chains[count][i] \in history /\ chains[count][i].cursor = cur_pos - len + i
              /\ chains'[count][i] = chains[count][i]
          BY <1>4, <3>2, <4>3
        <5> QED BY <1>1, <5>1, <5>2
      <4> QED BY <4>1, <4>2, <4>3
    <3> QED BY <3>2, <3>3
  <2> HIDE DEF count, len, m, full
  <2>4. ASSUME NEW k \in 1 .. m - 1
        PROVE  /\ k + 0 \in 1 .. count /\ chains'[k] = chains[k + 0]
               /\ Len(chains[k + 0]) = full /\ Later(chains', k) = Later(chains, k + 0) + 1
    <3>1. k \in 1 .. count - 1 /\ k + 0 = k /\ k \in Nat /\ k \in 1 .. count
      BY <1>5, <2>2
    <3>2. full \in Nat /\ m = count /\ Len(chains'[m]) = len + 1
      BY <1>2, <2>2, <2>3
    <3>3. /\ Later(chains, k) = IF k = count - 1 THEN len ELSE len + full
          /\ Later(chains', k) = IF k = count - 1 THEN len + 1 ELSE len + 1 + full
      BY <1>7, <1>5, <3>1, <3>2
    <3>4. Later(chains', k) = Later(chains, k) + 1
      BY <1>5, <3>2, <3>3
    <3> QED BY <1>4, <2>2, <3>1, <3>4
  <2>5. Later(chains', 1) + Len(chains'[1]) = Later(chains, 1) + Len(chains[1]) + 1
    <3>1. CASE count = 1
      <4>1. Later(chains, 1) = 0 /\ Later(chains', 1) = 0
        BY <1>7, <2>2, <3>1
      <4> QED BY <1>4, <1>5, <2>3, <3>1, <4>1
    <3>2. CASE count # 1
      <4>1. 1 \in 1 .. m - 1 /\ 1 \in 1 .. count
        BY <1>5, <2>2, <3>2
      <4>2. Later(chains, 1) \in Nat
        BY <1>2, <1>7, <1>5
      <4>3. Len(chains[1]) \in Nat
        BY <1>4, <4>1
      <4> QED BY <2>4, <4>1, <4>2, <4>3
    <3> QED BY <3>1, <3>2
  <2>6. /\ cur_pos' = cur_pos + 1 /\ m \in Nat /\ 1 <= m /\ m <= 3
        /\ Len(chains'[m]) >= 1 /\ Len(chains'[m]) <= full
    BY <1>2, <1>9, <1>5, <2>2, <2>3 DEF full
  <2>7. /\ Later(chains', 1) + Len(chains'[1]) <= cur_pos' - InitialPos
        /\ Later(chains', 1) + Len(chains'[1]) = cur_pos' - InitialPos \/ m = 3
    <3>1. Later(chains, 1) + Len(chains[1]) \in Nat
      <4>1. Later(chains, 1) \in Nat
        BY <1>2, <1>7, <1>5
      <4>2. 1 \in 1 .. count
        BY <1>5
      <4> QED BY <1>4, <4>1, <4>2
    <3> DEFINE total == Later(chains, 1) + Len(chains[1])
    <3>2. Later(chains', 1) + Len(chains'[1]) = total + 1 /\ total \in Nat
      BY <2>5, <3>1
    <3>3. total <= cur_pos - InitialPos /\ (total = cur_pos - InitialPos \/ m = 3)
      BY <1>8, <2>2
    <3> HIDE DEF total
    <3> QED BY <1>2, <3>2, <3>3 DEF InitialPos
  <2>8. \A i \in 1 .. Len(chains'[m]) :
          /\ chains'[m][i] \in history'
          /\ chains'[m][i].cursor = cur_pos' - Len(chains'[m]) + i
    BY <2>2, <2>3, Zenon
  <2>9. /\ \A k \in 1 .. m - 1 :
             /\ k + 0 \in 1 .. count /\ chains'[k] = chains[k + 0]
             /\ Len(chains[k + 0]) = EventChainLen + 1
             /\ Later(chains', k) = Later(chains, k + 0) + 1
        /\ Len(chains'[m]) <= EventChainLen + 1 /\ Len(chains'[m]) >= 1
    BY <2>4, <2>6, Zenon DEF full
  <2>10. 0 \in {0, 1} /\ count \in Nat /\ m = Len(chains') /\ count = Len(chains)
    BY <1>5 DEF m, count
  <2> QED
    BY <1>1, <2>2, <2>6, <2>7, <2>8, <2>9, <2>10, GrownIsOK, Zenon
<1> DEFINE one == <<event>>
<1>10. CASE len > EventChainLen /\ count = 3
  <2> DEFINE S == Seq(Event)
             more == Tail(Append(chains, <<>>))
  <2>1. chains \in Seq(S) /\ <<>> \in S /\ one \in S /\ chains # <<>>
    BY <1>4, <1>6
  <2> HIDE DEF S, one
  <2>2. /\ LastSet(more, one) \in Seq(S) /\ Len(LastSet(more, one)) = Len(chains)
        /\ LastSet(more, one)[Len(chains)] = one
        /\ Last(more) = <<>>
        /\ \A k \in 1 .. Len(chains) - 1 : LastSet(more, one)[k] = chains[k + 1]
    BY <2>1, ChainIsMoved
  <2>3. Opened = more
    BY <1>10, OpenedIs, Zenon
  <2> HIDE DEF more
  <2>4. chains' = LastSet(more, one)
    BY <1>3, <1>6, <2>2, <2>3 DEF LastSet, Last, one
  <2>5. /\ chains' \in Seq(Seq(Event)) /\ m = count /\ chains'[m] = one
        /\ \A k \in 1 .. count - 1 : chains'[k] = chains[k + 1]
    BY <2>2, <2>4 DEF S
  <2> HIDE DEF S, one, count, len, m, full
  <2>6. len = full /\ full \in Nat
    BY <1>2, <1>5, <1>10 DEF full
  <2>7. /\ Len(chains'[m]) = 1
        /\ \A i \in 1 .. 1 : /\ chains'[m][i] \in history'
                           /\ chains'[m][i].cursor = cur_pos' - 1 + i
    <3>1. Len(one) = 1 /\ one[1] = event
      BY DEF one
    <3>2. \A i \in 1 .. 1 : i = 1
      OBVIOUS
    <3>3. cur_pos' - 1 + 1 = cur_pos + 1
      BY <1>2
    <3> QED BY <1>1, <1>2, <2>5, <3>1, <3>2, <3>3
  <2>8. ASSUME NEW k \in 1 .. m - 1
        PROVE  /\ k + 1 \in 1 .. count /\ chains'[k] = chains[k + 1]
               /\ Len(chains[k + 1]) = full
               /\ Later(chains', k) = Later(chains, k + 1) + 1
    <3>1. k \in 1 .. count - 1 /\ k + 1 \in 1 .. count /\ k \in Nat /\ k + 1 \in Nat
      BY <1>5, <2>5
    <3>2. Len(chains[k + 1]) = full
      <4>1. k + 1 = count \/ k + 1 \in 1 .. count - 1
        BY <1>5, <3>1
      <4> QED BY <1>4, <2>6, <4>1
    <3>3. /\ Later(chains, k + 1) = IF k = count - 1 THEN 0 ELSE len
          /\ Later(chains', k) = IF k = count - 1 THEN 1 ELSE 1 + full
      <4>1. k = 1 \/ k = 2
        BY <1>10, <3>1
      <4>2. count = 3 /\ m = 3
        BY <1>10, <2>5
      <4> QED BY <1>7, <2>7, <4>1, <4>2
    <3> QED BY <2>5, <2>6, <3>1, <3>2, <3>3
  <2>9. Later(chains', 1) + Len(chains'[1]) <= cur_pos' - InitialPos /\ m = 3
    <3>1. count = 3 /\ m = 3
      BY <1>10, <2>5
    <3>2. Later(chains', 1) = 1 + full /\ Later(chains, 1) = len + full
      BY <1>7, <2>7, <3>1
    <3>3. 1 \in 1 .. count - 1 /\ 1 \in 1 .. m - 1
      BY <3>1
    <3>4. Len(chains'[1]) = full /\ Len(chains[1]) = full
      BY <1>4, <2>8, <3>3
    <3> QED BY <1>2, <1>8, <2>6, <3>1, <3>2, <3>4 DEF InitialPos, full
  <2>10. cur_pos' = cur_pos + 1 /\ m \in Nat /\ 1 <= m /\ m <= 3 /\ full >= 1 /\ 1 \in {0, 1}
    BY <1>2, <1>5, <2>5 DEF full
  <2>11. /\ Len(chains'[m]) >= 1 /\ Len(chains'[m]) <= full
         /\ \A i \in 1 .. Len(chains'[m]) :
              /\ chains'[m][i] \in history'
              /\ chains'[m][i].cursor = cur_pos' - Len(chains'[m]) + i
    BY <2>6, <2>7, <2>10
  <2> QED
    BY <1>1, <1>5, <2>5, <2>8, <2>9, <2>10, <2>11, GrownIsOK DEF count, m, full
<1>11. CASE len > EventChainLen /\ count # 3
  <2> DEFINE S == Seq(Event)
             more == Append(chains, <<>>)
  <2>1. chains \in Seq(S) /\ <<>> \in S /\ one \in S
    BY <1>4, <1>6
  <2> HIDE DEF S, one
  <2>2. /\ LastSet(more, one) \in Seq(S) /\ Len(LastSet(more, one)) = Len(chains) + 1
        /\ LastSet(more, one)[Len(chains) + 1] = one
        /\ Last(more) = <<>>
        /\ \A k \in 1 .. Len(chains) : LastSet(more, one)[k] = chains[k]
    BY <2>1, ChainIsAdded
  <2>3. Opened = more
    BY <1>11, OpenedIs, Zenon
  <2> HIDE DEF more
  <2>4. chains' = LastSet(more, one)
    BY <1>3, <1>6, <2>2, <2>3 DEF LastSet, Last, one
  <2>5. /\ chains' \in Seq(Seq(Event)) /\ m = count + 1 /\ chains'[m] = one
        /\ \A k \in 1 .. count : chains'[k] = chains[k]
    BY <2>2, <2>4 DEF S
  <2> HIDE DEF S, one, count, len, m, full
  <2>6. len = full /\ full \in Nat
    BY <1>2, <1>5, <1>11 DEF full
  <2>7. /\ Len(chains'[m]) = 1
        /\ \A i \in 1 .. 1 : /\ chains'[m][i] \in history'
                           /\ chains'[m][i].cursor = cur_pos' - 1 + i
    <3>1. Len(one) = 1 /\ one[1] = event
      BY DEF one
    <3>2. \A i \in 1 .. 1 : i = 1
      OBVIOUS
    <3>3. cur_pos' - 1 + 1 = cur_pos + 1
      BY <1>2
    <3> QED BY <1>1, <1>2, <2>5, <3>1, <3>2, <3>3
  <2>8. ASSUME NEW k \in 1 .. m - 1
        PROVE  /\ k + 0 \in 1 .. count /\ chains'[k] = chains[k + 0]
               /\ Len(chains[k + 0]) = full
               /\ Later(chains', k) = Later(chains, k + 0) + 1
    <3>1. k \in 1 .. count /\ k + 0 = k /\ k \in Nat
      BY <1>5, <2>5
    <3>2. Len(chains[k]) = full
      <4>1. k = count \/ k \in 1 .. count - 1
        BY <1>5, <3>1
      <4> QED BY <1>4, <2>6, <4>1
    <3>3. /\ Later(chains, k) = IF k = count THEN 0 ELSE len
          /\ Later(chains', k) = IF k = count THEN 1 ELSE 1 + full
      <4>1. count = 1 \/ count = 2
        BY <1>11, <1>5
      <4>2. k = count \/ (k = 1 /\ count = 2)
        BY <3>1, <4>1
      <4> QED BY <1>7, <2>5, <2>7, <4>1, <4>2
    <3> QED BY <2>5, <2>6, <3>1, <3>2, <3>3
  <2>9. /\ Later(chains', 1) + Len(chains'[1]) <= cur_pos' - InitialPos
        /\ Later(chains', 1) + Len(chains'[1]) = cur_pos' - InitialPos
    <3>1. 1 \in 1 .. m - 1 /\ 1 \in 1 .. count /\ 1 + 0 = 1
      BY <1>5, <2>5
    <3>2. /\ Later(chains', 1) = Later(chains, 1) + 1
          /\ Len(chains'[1]) = full /\ Len(chains[1]) = full
      BY <2>8, <3>1
    <3>3. Later(chains, 1) \in Nat
      BY <1>7, <1>5, <2>6
    <3> QED BY <1>2, <1>11, <1>8, <2>6, <3>2, <3>3 DEF InitialPos
  <2>10. /\ cur_pos' = cur_pos + 1 /\ m \in Nat /\ 1 <= m /\ m <= 3 /\ full >= 1
         /\ 0 \in {0, 1}
    BY <1>2, <1>11, <1>5, <2>5 DEF full
  <2>11. /\ Len(chains'[m]) >= 1 /\ Len(chains'[m]) <= full
         /\ \A i \in 1 .. Len(chains'[m]) :
              /\ chains'[m][i] \in history'
              /\ chains'[m][i].cursor = cur_pos' - Len(chains'[m]) + i
    BY <2>6, <2>7, <2>10
  <2> QED
    BY <1>1, <1>5, <2>5, <2>8, <2>9, <2>10, <2>11, GrownIsOK DEF count, m, full
<1> QED BY <1>2, <1>9, <1>10, <1>11, <1>5

(* Lemma: one empty chain, as Perl starts with.                            *)
LEMMA EmptyChainIsOK ==
  /\ chains = <<<<>>>> /\ cur_pos = InitialPos => ChainsOK
  /\ chains' = <<<<>>>> /\ cur_pos' = InitialPos => ChainsOK'
<1> DEFINE list == <<<<>>>>
<1>1. /\ list \in Seq(Seq(Event)) /\ Len(list) = 1 /\ list[1] = <<>> /\ Len(<<>>) = 0
      /\ Last(list) = <<>>
  BY DEF Last
<1> HIDE DEF list
<1>2. Later(list, 1) = 0
  BY <1>1 DEF Later
<1>3. 1 <= Len(list) /\ Len(list) <= 3 /\ 1 .. Len(list) = {1} /\ 1 .. Len(list) - 1 = {}
  <2>1. 1 .. 1 = {1} /\ 1 .. 1 - 1 = {} /\ 1 <= 1 /\ 1 <= 3
    OBVIOUS
  <2> QED BY <1>1, <2>1, Zenon
<1>4. Len(Last(list)) <= EventChainLen + 1
  <2>1. 0 <= EventChainLen + 1
    BY EventsAssumption
  <2> QED BY <1>1, <2>1, Zenon
<1>5. 1 .. Len(list[1]) = {}
  <2>1. 1 .. 0 = {}
    OBVIOUS
  <2> QED BY <1>1, <2>1, Zenon
<1>6. Later(list, 1) + Len(list[1]) = InitialPos - InitialPos
  <2>1. 0 + 0 = InitialPos - InitialPos
    BY DEF InitialPos
  <2> QED BY <1>1, <1>2, <2>1, Zenon
<1>7. Later(list, 1) + Len(list[1]) <= InitialPos - InitialPos
  <2>1. InitialPos - InitialPos <= InitialPos - InitialPos
    BY DEF InitialPos
  <2> QED BY <1>6, <2>1, Zenon
<1>8. chains = list /\ cur_pos = InitialPos => ChainsOK
  BY <1>1, <1>3, <1>4, <1>5, <1>6, <1>7, Zenon DEF ChainsOK
<1>9. chains' = list /\ cur_pos' = InitialPos => ChainsOK'
  BY <1>1, <1>3, <1>4, <1>5, <1>6, <1>7, Zenon DEF ChainsOK
<1> QED BY <1>8, <1>9 DEF list

(* Lemma: the invariant of the prototype's chains.                         *)
LEMMA ChainsInvariance == ChainsSpec => []ChainsInv
<1>1. ChainsInit => ChainsInv
  <2> SUFFICES ASSUME ChainsInit PROVE ChainsInv
    OBVIOUS
  <2>1. EventsInv
    BY EventsAssumption
    DEF ChainsInit, EventsInit, EventsInv, HistoryOK, ChainOK, LastEvents, InitialPos, Event
  <2> QED BY <2>1, EmptyChainIsOK DEF ChainsInv, ChainsInit, EventsInit
<1>2. ChainsInv /\ [ChainsNext]_chainsVars => ChainsInv'
  <2> SUFFICES ASSUME ChainsInv, [ChainsNext]_chainsVars PROVE ChainsInv'
    OBVIOUS
  <2>1. CASE Restart /\ chains' = <<<<>>>>
    <3>1. EventsInv'
      BY <2>1, EventsAssumption
      DEF Restart, EventsInv, HistoryOK, ChainOK, LastEvents, InitialPos, Event
    <3> QED BY <2>1, <3>1, EmptyChainIsOK DEF ChainsInv, Restart
  <2>2. ASSUME NEW type \in Types, NEW id \in Ids, notify(type, id), perl_notify(type, id)
        PROVE  ChainsInv'
    BY <2>2, ChainsGrow, HistoryGrows, ChainGrows DEF ChainsInv, EventsInv
  <2>3. CASE UNCHANGED chainsVars
    BY <2>3 DEF chainsVars, eventsVars, ChainsInv, ChainsOK, EventsInv, HistoryOK, ChainOK,
                LastEvents
  <2> QED BY <2>1, <2>2, <2>3 DEF ChainsNext
<1> QED BY <1>1, <1>2, PTL DEF ChainsSpec

----------------------------------------------------------------------------
(* The events of all chains.                                               *)

(* The events of a list go back, one by one, from the position pos.        *)
GoesBack(list, pos) ==
  /\ list \in Seq(Event)
  /\ \A i \in 1 .. Len(list) : list[i] \in history /\ list[i].cursor = pos + 1 - i

(* Lemma: two such lists in a row.                                         *)
LEMMA BackAndFurther ==
  ASSUME NEW a, NEW b, NEW p \in Int, GoesBack(a, p), GoesBack(b, p - Len(a))
  PROVE  GoesBack(a \o b, p) /\ Len(a \o b) = Len(a) + Len(b)
<1> DEFINE n == Len(a)
           m == Len(b)
           ab == a \o b
<1>1. /\ a \in Seq(Event) /\ n \in Nat /\ b \in Seq(Event) /\ m \in Nat
      /\ \A i \in 1 .. n : a[i] \in history /\ a[i].cursor = p + 1 - i
      /\ \A i \in 1 .. m : b[i] \in history /\ b[i].cursor = p - n + 1 - i
  BY DEF GoesBack
<1>2. /\ ab \in Seq(Event) /\ Len(ab) = n + m
      /\ \A i \in 1 .. n + m : ab[i] = IF i <= n THEN a[i] ELSE b[i - n]
  BY <1>1, ConcatProperties
<1> HIDE DEF n, m, ab
<1>3. ASSUME NEW i \in 1 .. n + m PROVE ab[i] \in history /\ ab[i].cursor = p + 1 - i
  <2>1. CASE i <= n
    <3>1. i \in 1 .. n
      BY <1>1, <2>1
    <3> QED BY <1>1, <1>2, <2>1, <3>1
  <2>2. CASE ~ (i <= n)
    <3>1. i - n \in 1 .. m /\ p - n + 1 - (i - n) = p + 1 - i
      BY <1>1, <2>2
    <3> QED BY <1>1, <1>2, <2>2, <3>1
  <2> QED BY <2>1, <2>2
<1> QED BY <1>2, <1>3 DEF GoesBack, n, m, ab

(* Lemma: a chain the other way round.                                     *)
LEMMA ChainGoesBack ==
  ASSUME ChainsInv, NEW k \in 1 .. Len(chains)
  PROVE  /\ GoesBack(Reverse(chains[k]), cur_pos - Later(chains, k))
         /\ Len(Reverse(chains[k])) = Len(chains[k]) /\ Len(chains[k]) \in Nat
<1> DEFINE c == chains[k]
           n == Len(c)
           r == Reverse(c)
           p == cur_pos - Later(chains, k)
<1>1. /\ c \in Seq(Event)
      /\ \A i \in 1 .. n : c[i] \in history /\ c[i].cursor = p - n + i
  BY DEF ChainsInv, ChainsOK
<1>2. n \in Nat
  BY <1>1
<1>3. p \in Int
  <2>1. Len(Last(chains)) \in Nat
    BY DEF ChainsInv, ChainsOK, Last
  <2> QED BY <2>1, EventsAssumption DEF Later, ChainsInv, EventsInv, HistoryOK
<1>4. \A i \in 1 .. n : n - i + 1 \in 1 .. n
  BY <1>2
<1> HIDE DEF c, p
<1>5. r \in Seq(Event) /\ Len(r) = n /\ \A i \in 1 .. n : r[i] = c[n - i + 1]
  BY <1>1, <1>2, <1>4 DEF Reverse
<1> HIDE DEF r, n
<1>6. ASSUME NEW i \in 1 .. n PROVE r[i] \in history /\ r[i].cursor = p + 1 - i
  <2>1. p - n + (n - i + 1) = p + 1 - i
    BY <1>2, <1>3
  <2> QED BY <1>1, <1>4, <1>5, <2>1
<1> QED BY <1>2, <1>5, <1>6 DEF GoesBack, c, p, r, n

(* Two lists in a row.                                                     *)
Joined(a, b) == a \o b

(* What FlattenSeq makes of n lists in a row.                              *)
InARow(s, n) ==
  CHOOSE flatten :
    flatten = [i \in 1 .. n |-> IF i = 1 THEN s[i] ELSE Joined(flatten[i - 1], s[i])]

(* Lemma: FlattenSeq is InARow.                                            *)
LEMMA FlattenIs ==
  ASSUME NEW s, Len(s) # 0
  PROVE  FlattenSeq(s) = InARow(s, Len(s))[Len(s)]
BY DEF FlattenSeq, InARow, Joined

(* Lemma: up to three lists in a row.                                      *)
LEMMA ThreeInARow ==
  ASSUME NEW s, NEW n \in {1, 2, 3}
  PROVE  InARow(s, n)[n] = IF n = 1 THEN s[1] ELSE IF n = 2 THEN Joined(s[1], s[2])
                           ELSE Joined(Joined(s[1], s[2]), s[3])
<1> DEFINE f == [i \in 1 .. n |-> IF i = 1 THEN s[1] ELSE IF i = 2 THEN Joined(s[1], s[2])
                                 ELSE Joined(Joined(s[1], s[2]), s[3])]
           flatten == InARow(s, n)
<1>1. f = [i \in 1 .. n |-> IF i = 1 THEN s[i] ELSE Joined(f[i - 1], s[i])]
  <2> SUFFICES ASSUME NEW i \in 1 .. n
               PROVE  f[i] = IF i = 1 THEN s[i] ELSE Joined(f[i - 1], s[i])
    OBVIOUS
  <2>1. i \in {1, 2, 3} /\ (i # 1 => i - 1 \in 1 .. n)
    OBVIOUS
  <2>2. CASE i = 1
    BY <2>2
  <2>3. CASE i = 2
    BY <2>1, <2>3
  <2>4. CASE i = 3
    BY <2>1, <2>4
  <2> QED BY <2>1, <2>2, <2>3, <2>4
<1>2. flatten = [i \in 1 .. n |-> IF i = 1 THEN s[i] ELSE Joined(flatten[i - 1], s[i])]
  <2> HIDE DEF f
  <2> QED BY <1>1 DEF InARow
<1> HIDE DEF flatten
<1>3. 1 \in 1 .. n /\ n \in 1 .. n /\ (n # 1 => 2 \in 1 .. n) /\ (n = 3 => 3 \in 1 .. n)
  OBVIOUS
<1>4. flatten[1] = s[1]
  BY <1>2, <1>3
<1>5. n # 1 => flatten[2] = Joined(s[1], s[2])
  <2>1. n # 1 => flatten[2] = Joined(flatten[1], s[2])
    BY <1>2, <1>3
  <2> QED BY <1>4, <2>1
<1>6. n = 3 => flatten[3] = Joined(Joined(s[1], s[2]), s[3])
  <2>1. n = 3 => flatten[3] = Joined(flatten[2], s[3])
    BY <1>2, <1>3
  <2> QED BY <1>5, <2>1
<1>7. CASE n = 1
  BY <1>4, <1>7 DEF flatten
<1>8. CASE n = 2
  BY <1>5, <1>8 DEF flatten
<1>9. CASE n = 3
  BY <1>6, <1>9 DEF flatten
<1> QED BY <1>7, <1>8, <1>9

(* Lemma: the loops of get_recent_events come to the last events, newest   *)
(* first.                                                                  *)
LEMMA AllChainsGoBack ==
  ASSUME ChainsInv
  PROVE  LastEvents(NewestFirst, Later(chains, 1) + Len(chains[1]))
<1> DEFINE n == Len(chains)
           rows == [k \in DOMAIN chains |-> Reverse(chains[k])]
           s == Reverse(rows)
           last == Len(Last(chains))
<1>1. /\ DOMAIN chains = 1 .. n /\ n \in Nat /\ 1 <= n /\ n <= 3
      /\ last = Len(chains[n]) /\ last \in Nat
      /\ \A k \in 1 .. n - 1 : Len(chains[k]) = EventChainLen + 1
      /\ cur_pos \in Nat /\ EventChainLen \in Nat
  BY EventsAssumption DEF ChainsInv, ChainsOK, Last, EventsInv, HistoryOK
<1>2. \A k \in 1 .. n : /\ GoesBack(Reverse(chains[k]), cur_pos - Later(chains, k))
                       /\ Len(Reverse(chains[k])) = Len(chains[k]) /\ Len(chains[k]) \in Nat
  BY ChainGoesBack
<1>3. \A k \in Nat : Later(chains, k) = IF k = n THEN 0 ELSE IF k = n - 1 THEN last
                                        ELSE last + (EventChainLen + 1)
  BY DEF Later
<1> HIDE DEF n, last
<1>4. Len(rows) = n /\ \A k \in 1 .. n : rows[k] = Reverse(chains[k])
  <2>1. rows = [k \in 1 .. n |-> Reverse(chains[k])]
    BY <1>1, Zenon
  <2> HIDE DEF rows
  <2> QED BY <1>1, <2>1
<1>5. \A i \in 1 .. n : n - i + 1 \in 1 .. n
  BY <1>1
<1>6. Len(s) = n /\ \A i \in 1 .. n : s[i] = Reverse(chains[n - i + 1])
  <2> HIDE DEF rows
  <2>1. s = [i \in 1 .. n |-> rows[n - i + 1]]
    BY <1>4 DEF Reverse
  <2> HIDE DEF s
  <2> QED BY <1>1, <1>4, <1>5, <2>1
<1> HIDE DEF s
<1>7. NewestFirst = InARow(s, n)[n]
  <2>1. NewestFirst = FlattenSeq(s)
    BY DEF NewestFirst, s
  <2>2. n # 0
    BY <1>1
  <2> QED BY <1>6, <2>1, <2>2, FlattenIs, Zenon
<1>8. n \in {1, 2, 3}
  BY <1>1
<1>9. GoesBack(NewestFirst, cur_pos) /\ Len(NewestFirst) = Later(chains, 1) + Len(chains[1])
  <2>1. GoesBack(s[1], cur_pos) /\ Len(s[1]) = last
    <3>1. /\ n \in 1 .. n /\ 1 \in 1 .. n /\ n - 1 + 1 = n
          /\ Later(chains, n) = 0 /\ cur_pos - 0 = cur_pos
      BY <1>1, <1>3
    <3> QED BY <1>1, <1>2, <1>6, <3>1
  <2>2. ASSUME n # 1
        PROVE  GoesBack(s[2], cur_pos - last) /\ Len(s[2]) = EventChainLen + 1
    <3>1. /\ n - 1 \in 1 .. n /\ n - 1 \in 1 .. n - 1 /\ n - 1 \in Nat /\ 2 \in 1 .. n
          /\ n - 2 + 1 = n - 1 /\ n - 1 # n
      BY <1>1, <2>2
    <3>2. Later(chains, n - 1) = last
      BY <1>3, <3>1
    <3> QED BY <1>1, <1>2, <1>6, <3>1, <3>2
  <2>3. ASSUME n = 3
        PROVE  /\ GoesBack(s[3], cur_pos - (last + (EventChainLen + 1)))
               /\ Len(s[3]) = EventChainLen + 1
    <3>1. /\ 1 \in 1 .. n /\ 1 \in 1 .. n - 1 /\ 1 # n /\ 1 # n - 1 /\ 3 \in 1 .. n
          /\ n - 3 + 1 = 1
      BY <2>3
    <3>2. Later(chains, 1) = last + (EventChainLen + 1)
      BY <1>3, <3>1
    <3> QED BY <1>1, <1>2, <1>6, <3>1, <3>2
  <2>4. ASSUME n # 1
        PROVE  /\ GoesBack(s[1] \o s[2], cur_pos)
               /\ Len(s[1] \o s[2]) = last + (EventChainLen + 1)
    <3>1. /\ GoesBack(s[1], cur_pos) /\ GoesBack(s[2], cur_pos - Len(s[1]))
          /\ Len(s[1]) = last /\ Len(s[2]) = EventChainLen + 1
      BY <2>1, <2>2, <2>4, Zenon
    <3>2. cur_pos \in Int
      BY <1>1
    <3> QED BY <3>1, <3>2, BackAndFurther
  <2>5. ASSUME n = 3
        PROVE  /\ GoesBack((s[1] \o s[2]) \o s[3], cur_pos)
               /\ Len((s[1] \o s[2]) \o s[3]) = last + (EventChainLen + 1) + (EventChainLen + 1)
    <3> DEFINE two == s[1] \o s[2]
    <3>1. n # 1
      BY <2>5
    <3>2. GoesBack(two, cur_pos) /\ Len(two) = last + (EventChainLen + 1)
      BY <2>4, <3>1
    <3> HIDE DEF two
    <3>3. GoesBack(s[3], cur_pos - Len(two)) /\ Len(s[3]) = EventChainLen + 1
      BY <2>3, <2>5, <3>2, Zenon
    <3>4. cur_pos \in Int
      BY <1>1
    <3>5. GoesBack(two \o s[3], cur_pos) /\ Len(two \o s[3]) = Len(two) + Len(s[3])
      BY <3>2, <3>3, <3>4, BackAndFurther
    <3> QED BY <3>2, <3>3, <3>5, Zenon DEF two
  <2>6. CASE n = 1
    <3>1. NewestFirst = s[1]
      BY <1>7, <1>8, <2>6, ThreeInARow
    <3>2. Later(chains, 1) = 0 /\ Len(chains[1]) = last
      BY <1>1, <1>3, <2>6
    <3> QED BY <1>1, <2>1, <3>1, <3>2
  <2>7. CASE n = 2
    <3>1. NewestFirst = s[1] \o s[2]
      <4>1. NewestFirst = Joined(s[1], s[2])
        BY <1>7, <1>8, <2>7, ThreeInARow
      <4> QED BY <4>1 DEF Joined
    <3>2. Later(chains, 1) = last /\ Len(chains[1]) = EventChainLen + 1
      BY <1>1, <1>3, <2>7
    <3>3. GoesBack(NewestFirst, cur_pos) /\ Len(NewestFirst) = last + (EventChainLen + 1)
      <4>1. n # 1
        BY <2>7
      <4> QED BY <2>4, <3>1, <4>1, Zenon
    <3> QED BY <3>2, <3>3
  <2>8. CASE n = 3
    <3>1. NewestFirst = (s[1] \o s[2]) \o s[3]
      <4>1. NewestFirst = Joined(Joined(s[1], s[2]), s[3])
        BY <1>7, <1>8, <2>8, ThreeInARow
      <4> QED BY <4>1 DEF Joined
    <3>2. Later(chains, 1) = last + (EventChainLen + 1) /\ Len(chains[1]) = EventChainLen + 1
      BY <1>1, <1>3, <2>8
    <3>3. /\ GoesBack(NewestFirst, cur_pos)
          /\ Len(NewestFirst) = last + (EventChainLen + 1) + (EventChainLen + 1)
      BY <2>5, <2>8, <3>1, Zenon
    <3> QED BY <3>2, <3>3
  <2> QED BY <1>8, <2>6, <2>7, <2>8
<1> QED BY <1>9 DEF GoesBack, LastEvents

(* Lemma: the answer of the prototype walks over the events after from.    *)
LEMMA PerlWalksLast ==
  ASSUME ChainsInv, NEW from \in InitialPos .. cur_pos, NEW matched \in SUBSET Ids,
         cur_pos - from <= 2 * (EventChainLen + 1) + 1
  PROVE  \E list : /\ LastEvents(list, cur_pos - from)
                   /\ perl_recent_events(from, matched) = Answer(TRUE, matched, list)
<1> DEFINE n == cur_pos - from
           kept == Later(chains, 1) + Len(chains[1])
           newest == NewestFirst
           Older == {i \in 1 .. Len(newest) : newest[i].cursor <= from}
           older == IF Older # {} THEN Min(Older) ELSE 0
           walked == IF older = 0 THEN newest ELSE SubSeq(newest, 1, older - 1)
<1>1. cur_pos \in Nat /\ from \in Nat /\ EventChainLen \in Nat /\ n \in Nat
  BY EventsAssumption DEF ChainsInv, EventsInv, HistoryOK, InitialPos
<1>2. LastEvents(newest, kept)
  BY AllChainsGoBack
<1>3. kept \in Nat /\ n <= kept
  <2> DEFINE last == Len(Last(chains))
  <2>1. /\ kept <= cur_pos - InitialPos
        /\ kept = cur_pos - InitialPos \/ (Len(chains) = 3 /\ last >= 1)
    BY DEF ChainsInv, ChainsOK
  <2>2. kept \in Nat
    BY <1>2 DEF LastEvents
  <2>3. CASE kept = cur_pos - InitialPos
    BY <1>1, <2>2, <2>3 DEF InitialPos
  <2>4. CASE Len(chains) = 3 /\ last >= 1
    <3>1. Later(chains, 1) = last + (EventChainLen + 1)
      BY <2>4 DEF Later
    <3>2. Len(chains[1]) = EventChainLen + 1
      BY <2>4 DEF ChainsInv, ChainsOK
    <3>3. last \in Nat
      BY DEF ChainsInv, ChainsOK, Last
    <3> HIDE DEF last
    <3> QED BY <1>1, <2>2, <2>4, <3>1, <3>2, <3>3
  <2> QED BY <2>1, <2>2, <2>3, <2>4
<1> HIDE DEF kept, newest
<1>4. /\ newest \in Seq(Event) /\ Len(newest) = kept
      /\ \A k \in 1 .. kept : newest[k] \in history /\ newest[k].cursor = cur_pos + 1 - k
  BY <1>2 DEF LastEvents
<1>5. \A i \in 1 .. kept : i \in Older <=> i > n
  BY <1>1, <1>3, <1>4
<1>6. Older \subseteq 1 .. kept
  BY <1>4
<1>7. LastEvents(walked, n)
  <2> HIDE DEF Older
  <2>1. CASE n = kept
    <3>1. Older = {}
      BY <1>1, <1>3, <1>5, <1>6, <2>1
    <3>2. walked = newest
      BY <3>1
    <3> QED BY <1>2, <2>1, <3>2
  <2>2. CASE n # kept
    <3>1. n + 1 \in 1 .. kept /\ n + 1 > n /\ n + 1 # 0 /\ n + 1 - 1 = n /\ n \in 0 .. kept
      BY <1>1, <1>3, <2>2
    <3>2. n + 1 \in Older
      BY <1>5, <3>1
    <3>3. Min(Older) \in Older /\ \A j \in Older : Min(Older) <= j
      BY <1>3, <1>6, <3>2, FirstPosition
    <3> DEFINE first == Min(Older)
    <3>4. first \in 1 .. kept /\ first > n /\ first <= n + 1
      BY <1>5, <1>6, <3>2, <3>3
    <3>5. first = n + 1
      <4> HIDE DEF first
      <4> QED BY <1>1, <1>3, <3>4
    <3>6. walked = SubSeq(newest, 1, n)
      <4>1. Older # {} /\ older = n + 1
        BY <3>2, <3>5, Zenon
      <4> HIDE DEF older
      <4>2. walked = SubSeq(newest, 1, older - 1)
        BY <3>1, <4>1
      <4> HIDE DEF walked, n
      <4> QED BY <3>1, <4>1, <4>2
    <3> HIDE DEF walked, n
    <3>7. /\ walked \in Seq(Event) /\ Len(walked) = n
          /\ \A k \in 1 .. n : k \in 1 .. kept /\ walked[k] = newest[k]
      BY <1>4, <3>1, <3>6, Beginning
    <3> QED BY <1>4, <3>7 DEF LastEvents
  <2> QED BY <2>1, <2>2
<1>8. perl_recent_events(from, matched) = Reverse(Answer(FALSE, matched, walked))
  <2>1. SelectInSeq(newest, LAMBDA e : e.cursor <= from) = older
    BY DEF SelectInSeq
  <2>2. perl_recent_events(from, matched)
          = Reverse(FoldLeft(LAMBDA acc, e :
                       IF e.id \in matched \ acc.seen
                       THEN [events |-> Append(acc.events, e), seen |-> acc.seen \cup {e.id}]
                       ELSE acc, NonePicked, walked).events)
    BY <2>1 DEF perl_recent_events, NonePicked, newest
  <2> HIDE DEF walked
  <2> QED BY <2>2, FoldIsFolded DEF Answer
<1>9. walked \in Seq(Event)
  BY <1>7 DEF LastEvents
<1> HIDE DEF walked
<1> QED BY <1>7, <1>8, <1>9, WalksMirror

(* Theorem: a watcher of the prototype that is no further behind than two  *)
(* full chains and one event misses no change (get_recent_events,          *)
(* perl/Storage/Events.pm).                                                *)
THEOREM PrototypeMissesNothing == ChainsSpec => []PerlMissesNothing
<1>1. ASSUME ChainsInv PROVE PerlMissesNothing
  <2> SUFFICES ASSUME NEW from \in InitialPos .. cur_pos, NEW matched \in SUBSET Ids,
                      cur_pos - from <= 2 * (EventChainLen + 1) + 1
        PROVE  ToSet(perl_recent_events(from, matched))
                 = get_recent_events(history, cur_pos, from, matched, "FAKE")
    BY DEF PerlMissesNothing
  <2>1. PICK list : /\ LastEvents(list, cur_pos - from)
                    /\ perl_recent_events(from, matched) = Answer(TRUE, matched, list)
    BY <1>1, PerlWalksLast
  <2> QED BY <1>1, <2>1, AnswerMissesNothing DEF ChainsInv, EventsInv
<1> QED BY <1>1, ChainsInvariance, PTL

(* Theorem: a watcher that does not fall behind the list of the C++ server *)
(* gets the same answers from both (Events.h:58, perl/Storage/Events.pm).  *)
THEOREM PrototypeAnswersAsCpp == ChainsSpec => []AnswersAsCpp
<1>1. ASSUME ChainsInv PROVE AnswersAsCpp
  <2> SUFFICES ASSUME NEW from \in InitialPos .. cur_pos, NEW matched \in SUBSET Ids,
                      cur_pos - from <= EventChainLen + 1
        PROVE  perl_recent_events(from, matched) = recent_events(from, matched)
    BY DEF AnswersAsCpp
  <2>1. cur_pos - from \in Nat /\ cur_pos - from <= 2 * (EventChainLen + 1) + 1
    BY <1>1, EventsAssumption DEF ChainsInv, EventsInv, HistoryOK, InitialPos
  <2>2. PICK list : /\ LastEvents(list, cur_pos - from)
                    /\ perl_recent_events(from, matched) = Answer(TRUE, matched, list)
    BY <1>1, <2>1, PerlWalksLast
  <2>3. PICK other : /\ LastEvents(other, cur_pos - from)
                     /\ recent_events(from, matched) = Answer(TRUE, matched, other)
    BY <1>1, CppWalksLast DEF ChainsInv
  <2>4. list = other
    BY <1>1, <2>1, <2>2, <2>3, LastEventsAreTold DEF ChainsInv, EventsInv
  <2> QED BY <2>2, <2>3, <2>4
<1> QED BY <1>1, ChainsInvariance, PTL

----------------------------------------------------------------------------
(* The binary search of Tie::Array::Sorted.                                *)

(* What a range p of positions is narrowed to, and the place found.        *)
Narrow(array, elem, g, p) ==
  LET mid == (p[1] + p[2]) \div 2
      cmp == comp(elem, array[mid + 1])
  IN IF p[2] < p[1] THEN p[1]
     ELSE IF cmp = 0 THEN mid
     ELSE IF cmp > 0 THEN g[<<mid + 1, p[2]>>]
     ELSE g[<<p[1], mid - 1>>]

Ranges(n) == (0 .. n) \X (-1 .. n - 1)

Searches(array, elem, n, k, g) ==
  \A p \in Ranges(n) : p[2] - p[1] < k => g[p] = Narrow(array, elem, g, p)

LEMMA Middle ==
  ASSUME NEW lo \in Int, NEW hi \in Int, lo <= hi
  PROVE  (lo + hi) \div 2 \in Int /\ lo <= (lo + hi) \div 2 /\ (lo + hi) \div 2 <= hi
OBVIOUS

(* Lemma: the ranges that are searched next are smaller.                   *)
LEMMA NarrowNarrows ==
  ASSUME NEW n \in Nat, NEW p \in Ranges(n), ~ (p[2] < p[1]), NEW mid, mid = (p[1] + p[2]) \div 2
  PROVE  /\ mid \in 0 .. n - 1 /\ mid + 1 \in 1 .. n /\ p[1] <= mid /\ mid <= p[2]
         /\ <<mid + 1, p[2]>> \in Ranges(n) /\ p[2] - (mid + 1) < p[2] - p[1]
         /\ <<p[1], mid - 1>> \in Ranges(n) /\ mid - 1 - p[1] < p[2] - p[1]
<1>1. p[1] \in 0 .. n /\ p[2] \in -1 .. n - 1
  BY DEF Ranges
<1>2. mid \in Int /\ p[1] <= mid /\ mid <= p[2]
  BY <1>1, Middle
<1>3. /\ mid \in 0 .. n - 1 /\ mid + 1 \in 1 .. n /\ mid + 1 \in 0 .. n /\ mid - 1 \in -1 .. n - 1
      /\ p[2] - (mid + 1) < p[2] - p[1] /\ mid - 1 - p[1] < p[2] - p[1]
  BY <1>1, <1>2
<1> QED BY <1>1, <1>2, <1>3 DEF Ranges

(* Lemma: there is such a search.                                          *)
LEMMA SearchExists ==
  ASSUME NEW n \in Nat, NEW array, \A i \in 1 .. n : array[i] \in Item, NEW elem \in Item
  PROVE  \E g \in [Ranges(n) -> 0 .. n] : Searches(array, elem, n, n, g)
<1> DEFINE S == {k \in 0 .. n : \E g \in [Ranges(n) -> 0 .. n] : Searches(array, elem, n, k, g)}
<1>1. n \in Nat /\ \A p \in Ranges(n) : p[1] \in 0 .. n /\ p[2] \in -1 .. n - 1
  BY DEF Ranges
<1>2. 0 \in S
  <2> DEFINE g == [p \in Ranges(n) |-> p[1]]
  <2>1. g \in [Ranges(n) -> 0 .. n]
    BY <1>1
  <2>2. Searches(array, elem, n, 0, g)
    BY <1>1 DEF Searches, Narrow
  <2>3. 0 \in 0 .. n
    BY <1>1
  <2> HIDE DEF g
  <2> QED BY <2>1, <2>2, <2>3
<1>3. ASSUME NEW k \in 0 .. n - 1, k \in S PROVE k + 1 \in S
  <2>1. PICK g \in [Ranges(n) -> 0 .. n] : Searches(array, elem, n, k, g)
    BY <1>3
  <2> DEFINE h == [p \in Ranges(n) |-> Narrow(array, elem, g, p)]
  <2>2. ASSUME NEW p \in Ranges(n) PROVE Narrow(array, elem, g, p) \in 0 .. n
    <3> DEFINE mid == (p[1] + p[2]) \div 2
    <3>1. CASE p[2] < p[1]
      BY <1>1, <3>1 DEF Narrow
    <3>2. CASE ~ (p[2] < p[1])
      <4>1. /\ mid \in 0 .. n /\ <<mid + 1, p[2]>> \in Ranges(n) /\ <<p[1], mid - 1>> \in Ranges(n)
        BY <1>1, <3>2, NarrowNarrows
      <4>2. g[<<mid + 1, p[2]>>] \in 0 .. n /\ g[<<p[1], mid - 1>>] \in 0 .. n
        BY <4>1
      <4> QED BY <3>2, <4>1, <4>2 DEF Narrow
    <3> QED BY <3>1, <3>2
  <2>3. h \in [Ranges(n) -> 0 .. n]
    BY <2>2
  <2>4. ASSUME NEW p \in Ranges(n), p[2] - p[1] < k + 1
        PROVE  h[p] = Narrow(array, elem, h, p)
    <3> DEFINE mid == (p[1] + p[2]) \div 2
    <3>1. h[p] = Narrow(array, elem, g, p)
      OBVIOUS
    <3>2. \A q \in Ranges(n) : q[2] - q[1] < k => h[q] = g[q]
      BY <2>1 DEF Searches
    <3> HIDE DEF h
    <3>3. CASE p[2] < p[1]
      BY <3>1, <3>3 DEF Narrow
    <3>4. CASE ~ (p[2] < p[1])
      <4>1. /\ <<mid + 1, p[2]>> \in Ranges(n) /\ p[2] - (mid + 1) < k
            /\ <<p[1], mid - 1>> \in Ranges(n) /\ mid - 1 - p[1] < k
        <5>1. /\ <<mid + 1, p[2]>> \in Ranges(n) /\ p[2] - (mid + 1) < p[2] - p[1]
              /\ <<p[1], mid - 1>> \in Ranges(n) /\ mid - 1 - p[1] < p[2] - p[1] /\ mid \in Int
          BY <1>1, <3>4, NarrowNarrows
        <5>2. p[2] - p[1] <= k /\ p[2] \in Int /\ p[1] \in Int /\ k \in Int
          BY <1>1, <2>4
        <5> HIDE DEF mid
        <5>3. p[2] - (mid + 1) < k /\ mid - 1 - p[1] < k
          BY <5>1, <5>2
        <5> QED BY <5>1, <5>3
      <4>2. /\ h[<<mid + 1, p[2]>>] = g[<<mid + 1, p[2]>>]
            /\ h[<<p[1], mid - 1>>] = g[<<p[1], mid - 1>>]
        BY <3>2, <4>1
      <4> QED BY <3>1, <4>2 DEF Narrow
    <3> QED BY <3>3, <3>4
  <2>5. Searches(array, elem, n, k + 1, h)
    <3> HIDE DEF h
    <3> QED BY <2>4 DEF Searches
  <2>6. k + 1 \in 0 .. n
    BY <1>1
  <2> HIDE DEF h
  <2> QED BY <2>3, <2>5, <2>6
<1>4. n \in S
  <2> HIDE DEF S
  <2>1. \A k \in 0 .. n : k \in S
    BY <1>1, <1>2, <1>3, CountUp
  <2>2. n \in 0 .. n
    BY <1>1
  <2> QED BY <2>1, <2>2
<1> QED BY <1>4

(* The cursors of the array, bigger ones first.                            *)
Falling(array, n) ==
  \A i, j \in 1 .. n : i < j => array[i].cursor >= array[j].cursor

(* The item can be put behind the first k of the array.                    *)
Fits(array, elem, n, k) ==
  /\ k \in 0 .. n
  /\ \A i \in 1 .. n : /\ i <= k => array[i].cursor >= elem.cursor
                       /\ i > k => array[i].cursor <= elem.cursor

(* What is known when the range p is left to be searched.                  *)
Left(array, elem, n, p) ==
  /\ p[2] >= p[1] - 1
  /\ \A i \in 1 .. n : /\ i <= p[1] => array[i].cursor >= elem.cursor
                       /\ i > p[2] + 1 => array[i].cursor <= elem.cursor

(* Lemma: the search finds a place that fits.                              *)
LEMMA SearchFits ==
  ASSUME NEW n \in Nat, NEW array, \A i \in 1 .. n : array[i] \in Item, Falling(array, n),
         NEW elem \in Item, NEW g, Searches(array, elem, n, n, g)
  PROVE  Fits(array, elem, n, g[<<0, n - 1>>])
<1> DEFINE S ==
      {k \in 0 .. n : \A p \in Ranges(n) : p[2] - p[1] < k /\ Left(array, elem, n, p)
                                            => Fits(array, elem, n, g[p])}
<1>1. /\ n \in Nat /\ \A p \in Ranges(n) : p[1] \in 0 .. n /\ p[2] \in -1 .. n - 1
      /\ \A i \in 1 .. n : array[i].cursor \in Nat
      /\ elem.cursor \in Nat
  BY ItemsHaveNumbers DEF Ranges
<1>2. ASSUME NEW p \in Ranges(n), p[2] < p[1], Left(array, elem, n, p), p[2] - p[1] < n
      PROVE  Fits(array, elem, n, g[p])
  <2>1. g[p] = p[1]
    BY <1>2 DEF Searches, Narrow
  <2>2. p[1] \in 0 .. n /\ p[2] + 1 = p[1]
    BY <1>1, <1>2 DEF Left
  <2> QED BY <1>2, <2>1, <2>2 DEF Left, Fits
<1>3. 0 \in S
  <2>1. ASSUME NEW p \in Ranges(n), p[2] - p[1] < 0, Left(array, elem, n, p)
        PROVE  Fits(array, elem, n, g[p])
    <3>1. p[2] < p[1] /\ p[2] - p[1] < n
      BY <1>1, <2>1
    <3> QED BY <1>2, <2>1, <3>1
  <2>2. 0 \in 0 .. n
    BY <1>1
  <2> QED BY <2>1, <2>2
<1>4. ASSUME NEW k \in 0 .. n - 1, k \in S PROVE k + 1 \in S
  <2>1. ASSUME NEW p \in Ranges(n), p[2] - p[1] < k + 1, Left(array, elem, n, p)
        PROVE  Fits(array, elem, n, g[p])
    <3> DEFINE mid == (p[1] + p[2]) \div 2
               right == <<mid + 1, p[2]>>
               left == <<p[1], mid - 1>>
    <3>1. k \in Int /\ k + 1 <= n /\ p[1] \in Int /\ p[2] \in Int
      BY <1>1
    <3>2. p[2] - p[1] < n
      BY <1>1, <2>1, <3>1
    <3>3. CASE p[2] < p[1]
      BY <1>2, <2>1, <3>2, <3>3
    <3>4. CASE ~ (p[2] < p[1])
      <4>1. /\ mid \in 0 .. n - 1 /\ mid + 1 \in 1 .. n /\ p[1] <= mid /\ mid <= p[2]
            /\ right \in Ranges(n) /\ p[2] - (mid + 1) < p[2] - p[1]
            /\ left \in Ranges(n) /\ mid - 1 - p[1] < p[2] - p[1]
        BY <1>1, <3>4, NarrowNarrows
      <4>2. g[p] = IF comp(elem, array[mid + 1]) = 0 THEN mid
                   ELSE IF comp(elem, array[mid + 1]) > 0 THEN g[right] ELSE g[left]
        BY <3>2, <3>4 DEF Searches, Narrow
      <4>3. /\ right[1] = mid + 1 /\ right[2] = p[2] /\ left[1] = p[1] /\ left[2] = mid - 1
        OBVIOUS
      <4> HIDE DEF mid, right, left
      <4>4. right[2] - right[1] < k /\ left[2] - left[1] < k /\ mid \in Int
        BY <1>1, <2>1, <3>1, <4>1, <4>3
      <4> DEFINE c == array[mid + 1].cursor
      <4>5. c \in Nat /\ comp(elem, array[mid + 1]) = c - elem.cursor
        BY <1>1, <4>1 DEF comp
      <4>6. \A i \in 1 .. n : /\ i <= mid + 1 => array[i].cursor >= c
                              /\ i > mid => array[i].cursor <= c
        <5> SUFFICES ASSUME NEW i \in 1 .. n
                     PROVE  /\ i <= mid + 1 => array[i].cursor >= c
                            /\ i > mid => array[i].cursor <= c
          OBVIOUS
        <5>1. i < mid + 1 \/ i = mid + 1 \/ mid + 1 < i
          BY <4>4
        <5>2. i <= mid + 1 => ~ (mid + 1 < i)
          BY <4>4
        <5>3. i > mid => ~ (i < mid + 1)
          BY <4>4
        <5>4. i < mid + 1 => array[i].cursor >= c
          BY <4>1 DEF Falling
        <5>5. mid + 1 < i => c >= array[i].cursor
          BY <4>1 DEF Falling
        <5> QED BY <1>1, <4>5, <5>1, <5>2, <5>3, <5>4, <5>5
      <4> HIDE DEF c
      <4>7. CASE c = elem.cursor
        <5>1. g[p] = mid
          BY <1>1, <4>2, <4>5, <4>7
        <5>2. mid \in 0 .. n
          BY <1>1, <4>1
        <5>3. ASSUME NEW i \in 1 .. n
              PROVE  /\ i <= mid => array[i].cursor >= elem.cursor
                     /\ i > mid => array[i].cursor <= elem.cursor
          <6>1. i <= mid => i <= mid + 1
            BY <4>4
          <6>2. /\ i <= mid + 1 => array[i].cursor >= elem.cursor
                /\ i > mid => array[i].cursor <= elem.cursor
            BY <4>6, <4>7, Zenon
          <6> QED BY <6>1, <6>2, Zenon
        <5> QED BY <5>1, <5>2, <5>3, Zenon DEF Fits
      <4>8. CASE c > elem.cursor
        <5>1. g[p] = g[right]
          BY <1>1, <4>2, <4>5, <4>8
        <5>2. p[2] >= mid + 1 - 1
          BY <3>1, <4>1, <4>4
        <5>3. ASSUME NEW i \in 1 .. n
              PROVE  /\ i <= mid + 1 => array[i].cursor >= elem.cursor
                     /\ i > p[2] + 1 => array[i].cursor <= elem.cursor
          <6>1. i <= mid + 1 => array[i].cursor >= c
            BY <4>6
          <6>2. array[i].cursor \in Nat /\ elem.cursor \in Nat
            BY <1>1
          <6>3. array[i].cursor >= c => array[i].cursor >= elem.cursor
            BY <4>5, <4>8, <6>2
          <6>4. i > p[2] + 1 => array[i].cursor <= elem.cursor
            BY <2>1, Zenon DEF Left
          <6> QED BY <6>1, <6>3, <6>4, Zenon
        <5>4. Left(array, elem, n, right)
          <6>1. right[2] >= right[1] - 1
            BY <3>1, <4>3, <4>4, <5>2
          <6>2. ASSUME NEW i \in 1 .. n
                PROVE  /\ i <= right[1] => array[i].cursor >= elem.cursor
                       /\ i > right[2] + 1 => array[i].cursor <= elem.cursor
            <7> QED BY <4>3, <5>3
          <6> QED BY <6>1, <6>2, Zenon DEF Left
        <5> QED BY <1>4, <4>1, <4>4, <5>1, <5>4
      <4>9. CASE c < elem.cursor
        <5>1. g[p] = g[left]
          BY <1>1, <4>2, <4>5, <4>9
        <5>2. mid - 1 >= p[1] - 1 /\ mid - 1 + 1 = mid
          BY <3>1, <4>1, <4>4
        <5>3. ASSUME NEW i \in 1 .. n
              PROVE  /\ i <= p[1] => array[i].cursor >= elem.cursor
                     /\ i > mid => array[i].cursor <= elem.cursor
          <6>1. i > mid => array[i].cursor <= c
            BY <4>6
          <6>2. array[i].cursor \in Nat /\ elem.cursor \in Nat
            BY <1>1
          <6>3. array[i].cursor <= c => array[i].cursor <= elem.cursor
            BY <4>5, <4>9, <6>2
          <6>4. i <= p[1] => array[i].cursor >= elem.cursor
            BY <2>1, Zenon DEF Left
          <6> QED BY <6>1, <6>3, <6>4, Zenon
        <5>4. Left(array, elem, n, left)
          BY <4>3, <5>2, <5>3, Zenon DEF Left
        <5> QED BY <1>4, <4>1, <4>4, <5>1, <5>4
      <4> QED BY <1>1, <4>5, <4>7, <4>8, <4>9
    <3> QED BY <3>3, <3>4
  <2>2. k + 1 \in 0 .. n
    BY <1>1
  <2> QED BY <2>1, <2>2
<1>5. n \in S
  <2> HIDE DEF S
  <2>1. \A k \in 0 .. n : k \in S
    BY <1>1, <1>3, <1>4, CountUp
  <2>2. n \in 0 .. n
    BY <1>1
  <2> QED BY <2>1, <2>2
<1>6. /\ <<0, n - 1>> \in Ranges(n) /\ n - 1 - 0 < n
      /\ <<0, n - 1>>[1] = 0 /\ <<0, n - 1>>[2] = n - 1
  BY <1>1 DEF Ranges
<1>7. Left(array, elem, n, <<0, n - 1>>)
  <2>1. n - 1 >= 0 - 1 /\ \A i \in 1 .. n : ~ (i <= 0) /\ ~ (i > n - 1 + 1)
    BY <1>1
  <2> QED BY <1>6, <2>1 DEF Left
<1> QED BY <1>5, <1>6, <1>7


(* Lemma: so does the one of PUSH, for there is only one such search.      *)
SearchBody(array, elem, n, g) ==
  [range \in Ranges(n) |->
     LET lo == range[1]
         hi == range[2]
         mid == (lo + hi) \div 2
         cmp == comp(elem, array[mid + 1])
     IN IF hi < lo THEN lo
        ELSE IF cmp = 0 THEN mid
        ELSE IF cmp > 0 THEN g[<<mid + 1, hi>>]
        ELSE g[<<lo, mid - 1>>]]

LEMMA BodyNarrows ==
  ASSUME NEW n \in Nat, NEW array, NEW elem, NEW g
  PROVE  SearchBody(array, elem, n, g) = [p \in Ranges(n) |-> Narrow(array, elem, g, p)]
BY Zenon DEF SearchBody, Narrow

LEMMA PlaceFits ==
  ASSUME NEW array \in Seq(Item), NEW elem \in Item, Falling(array, Len(array))
  PROVE  Fits(array, elem, Len(array), Place(array, elem))
<1> DEFINE n == Len(array)
           Search == CHOOSE g : g = SearchBody(array, elem, n, g)
<1>1. Place(array, elem) = Search[<<0, n - 1>>]
  BY Zenon DEF Place, SearchBody, Ranges
<1>2. n \in Nat /\ \A i \in 1 .. n : array[i] \in Item
  OBVIOUS
<1> HIDE DEF n
<1>3. Falling(array, n)
  BY DEF n
<1>4. \E g : g = SearchBody(array, elem, n, g)
  <2>1. PICK g \in [Ranges(n) -> 0 .. n] : Searches(array, elem, n, n, g)
    BY <1>2, SearchExists
  <2> DEFINE body == SearchBody(array, elem, n, g)
  <2>2. body = [p \in Ranges(n) |-> Narrow(array, elem, g, p)]
    BY <1>2, BodyNarrows
  <2>3. g = [p \in Ranges(n) |-> g[p]]
    BY <2>1
  <2>4. ASSUME NEW p \in Ranges(n) PROVE g[p] = body[p]
    <3>1. body[p] = Narrow(array, elem, g, p)
      BY <2>2
    <3>2. p[2] - p[1] < n
      BY <1>2 DEF Ranges
    <3> QED BY <2>1, <3>1, <3>2 DEF Searches
  <2> HIDE DEF body
  <2>5. g = body
    BY <2>2, <2>3, <2>4
  <2> QED BY <2>5 DEF body
<1>5. Search = SearchBody(array, elem, n, Search)
  BY <1>4
<1> HIDE DEF Search
<1>6. Searches(array, elem, n, n, Search)
  BY <1>2, <1>5, BodyNarrows DEF Searches
<1> QED BY <1>1, <1>2, <1>3, <1>6, SearchFits DEF n

(* What the lists of the C++ server and the arrays have in common.         *)
SameCursors(list, array) ==
  /\ Len(list) = Len(array)
  /\ \A k \in DOMAIN list : list[k].cursor = array[k].cursor

(* In the falling cursors cur the place q is the one before those that are *)
(* not bigger than c, and p one among those equal to c.                    *)
TwoPlaces(n, cur, c, p, q) ==
  /\ n \in Nat /\ (\A k \in 1 .. n : cur[k] \in Nat) /\ c \in Nat
  /\ \A i, j \in 1 .. n : i < j => cur[i] >= cur[j]
  /\ p \in 1 .. n + 1 /\ q \in 1 .. n + 1
  /\ \A k \in 1 .. n : k < q => ~ (cur[k] <= c)
  /\ q <= n => cur[q] <= c
  /\ \A k \in 1 .. n : k < p => cur[k] >= c
  /\ \A k \in 1 .. n : ~ (k < p) => cur[k] <= c

(* Lemma: it is the same for the cursors where c is inserted.              *)
LEMMA EqualsAreEqual ==
  ASSUME NEW n, NEW cur, NEW c, NEW p, NEW q, TwoPlaces(n, cur, c, p, q), NEW k \in 1 .. n + 1
  PROVE  Spliced(cur, c, q, k) = Spliced(cur, c, p, k)
<1> USE DEF Spliced
<1>0. /\ n \in Nat /\ (\A i \in 1 .. n : cur[i] \in Nat) /\ c \in Nat
      /\ \A i, j \in 1 .. n : i < j => cur[i] >= cur[j]
      /\ p \in 1 .. n + 1 /\ q \in 1 .. n + 1
      /\ \A i \in 1 .. n : i < q => ~ (cur[i] <= c)
      /\ q <= n => cur[q] <= c
      /\ \A i \in 1 .. n : i < p => cur[i] >= c
      /\ \A i \in 1 .. n : ~ (i < p) => cur[i] <= c
  BY Zenon DEF TwoPlaces
<1> USE <1>0
<1>1. \A i \in 1 .. n : ~ (i < q) => cur[i] <= c
  <2> SUFFICES ASSUME NEW i \in 1 .. n, ~ (i < q) PROVE cur[i] <= c
    OBVIOUS
  <2>1. q \in 1 .. n /\ (i = q \/ q < i)
    OBVIOUS
  <2>2. cur[q] \in Nat /\ cur[i] \in Nat /\ cur[q] <= c
    BY <2>1
  <2>3. q < i => cur[q] >= cur[i]
    BY <2>1
  <2> QED BY <2>1, <2>2, <2>3
<1>2. CASE k < q
  <2>1. k \in 1 .. n
    BY <1>2
  <2>2. k < p
    BY <1>2, <2>1
  <2> QED BY <1>2, <2>2
<1>3. CASE k = q
  <2>1. CASE k < p
    <3>1. k \in 1 .. n /\ ~ (k < q)
      BY <1>3, <2>1
    <3>2. cur[k] >= c /\ cur[k] <= c /\ cur[k] \in Nat
      BY <1>1, <2>1, <3>1
    <3>3. cur[k] = c
      BY <3>2
    <3> QED BY <1>3, <2>1, <3>1, <3>3
  <2>2. CASE k = p
    BY <1>3, <2>2
  <2>3. CASE p < k
    <3>1. k - 1 \in 1 .. n /\ k - 1 < q /\ ~ (k - 1 < p)
      BY <1>3, <2>3
    <3> QED BY <3>1
  <2> QED BY <2>1, <2>2, <2>3
<1>4. CASE q < k
  <2>1. k - 1 \in 1 .. n /\ ~ (k - 1 < q) /\ ~ (k < q) /\ k # q
    BY <1>4
  <2>2. cur[k - 1] <= c /\ cur[k - 1] \in Nat
    BY <1>1, <2>1
  <2>3. CASE k < p
    <3>1. k \in 1 .. n /\ k - 1 < p
      BY <2>3
    <3>2. cur[k] >= c /\ cur[k] <= c /\ cur[k] \in Nat /\ cur[k - 1] >= c
      BY <1>1, <2>1, <2>3, <3>1
    <3>3. cur[k] = c /\ cur[k - 1] = c
      BY <2>2, <3>2
    <3> QED BY <2>1, <2>3, <3>3
  <2>4. CASE k = p
    <3>1. k - 1 < p
      BY <2>4
    <3>2. cur[k - 1] >= c
      BY <2>1, <3>1
    <3>3. cur[k - 1] = c
      BY <2>2, <3>2
    <3> QED BY <2>1, <2>4, <3>3
  <2>5. CASE p < k
    <3>1. ~ (k < p) /\ k # p
      BY <2>5
    <3> QED BY <2>1, <3>1
  <2> QED BY <2>3, <2>4, <2>5
<1> QED BY <1>2, <1>3, <1>4

(* Lemma: the array keeps pace with the list.                              *)
LEMMA BothInsert ==
  ASSUME NEW list \in Seq(Item), Ordered(list), NEW array \in Seq(Item),
         SameCursors(list, array), NEW item \in Item
  PROVE  LET new == InsertAt(array, Place(array, item) + 1, item)
         IN new \in Seq(Item) /\ SameCursors(Merge(list, item), new)
<1> DEFINE n == Len(list)
           p == Place(array, item) + 1
           cur == [k \in 1 .. n |-> array[k].cursor]
           new == InsertAt(array, p, item)
<1>1. n \in Nat /\ DOMAIN list = 1 .. n /\ Len(array) = n
  BY DEF SameCursors
<1>2. \A k \in 1 .. n : list[k] \in Item /\ array[k] \in Item
  BY <1>1
<1>3. PICK q \in 1 .. n + 1 :
        /\ Merge(list, item) \in Seq(Item) /\ Len(Merge(list, item)) = n + 1
        /\ \A k \in 1 .. n + 1 : Merge(list, item)[k] =
             IF k < q THEN list[k] ELSE IF k = q THEN item ELSE list[k - 1]
        /\ \A k \in 1 .. n : k < q => ~ (list[k].cursor <= item.cursor)
        /\ q <= n => list[q].cursor <= item.cursor
  BY MergeInserts
<1> HIDE DEF n
<1>4. \A k \in 1 .. n : list[k].cursor = cur[k] /\ array[k].cursor = cur[k] /\ cur[k] \in Nat
  BY <1>1, <1>2, ItemsHaveNumbers DEF SameCursors
<1> HIDE DEF cur
<1>5. \A i, j \in 1 .. n : i < j => cur[i] >= cur[j]
  <2> SUFFICES ASSUME NEW i \in 1 .. n, NEW j \in 1 .. n, i < j PROVE cur[i] >= cur[j]
    OBVIOUS
  <2>1. StandsBefore(list[i], list[j])
    BY <1>1 DEF Ordered
  <2>2. list[i].cursor >= list[j].cursor
    BY <1>4, <2>1 DEF StandsBefore
  <2> QED BY <1>4, <2>2
<1>6. Falling(array, n)
  BY <1>4, <1>5 DEF Falling
<1>7. Fits(array, item, n, Place(array, item))
  BY <1>1, <1>6, PlaceFits
<1>8. /\ p \in 1 .. n + 1 /\ item.cursor \in Nat
      /\ \A k \in 1 .. n : /\ k < p <=> k <= Place(array, item)
                           /\ ~ (k < p) <=> k > Place(array, item)
  BY <1>1, <1>7, ItemsHaveNumbers DEF Fits
<1>9. \A k \in 1 .. n : /\ k < p => cur[k] >= item.cursor
                        /\ ~ (k < p) => cur[k] <= item.cursor
  BY <1>4, <1>7, <1>8 DEF Fits
<1> HIDE DEF p
<1>10. /\ new \in Seq(Item) /\ Len(new) = n + 1
       /\ \A k \in 1 .. n + 1 :
            new[k] = IF k < p THEN array[k] ELSE IF k = p THEN item ELSE array[k - 1]
  <2>1. IsPlace(array, p)
    BY <1>1, <1>8 DEF IsPlace
  <2>2. IsSpliced(new, array, Len(array), item, p)
    BY <2>1, InsertInserts
  <2> QED BY <1>1, <2>2 DEF IsSpliced, Spliced
<1> HIDE DEF new
<1>11. /\ \A k \in 1 .. n : k < q => ~ (cur[k] <= item.cursor)
       /\ q <= n => cur[q] <= item.cursor
  <2>1. q <= n => q \in 1 .. n
    BY <1>1
  <2> QED BY <1>3, <1>4, <2>1
<1>12. ASSUME NEW k \in 1 .. n + 1
       PROVE  Merge(list, item)[k].cursor = new[k].cursor
  <2>1. Spliced(cur, item.cursor, q, k) = Spliced(cur, item.cursor, p, k)
    <3>1. n \in Nat /\ item.cursor \in Nat /\ p \in 1 .. n + 1
      BY <1>1, <1>8, Zenon
    <3>2. \A i \in 1 .. n : cur[i] \in Nat
      BY <1>4, Zenon
    <3>3. /\ \A i \in 1 .. n : i < p => cur[i] >= item.cursor
          /\ \A i \in 1 .. n : ~ (i < p) => cur[i] <= item.cursor
      BY <1>9
    <3>4. TwoPlaces(n, cur, item.cursor, p, q)
      BY <1>5, <1>11, <3>1, <3>2, <3>3 DEF TwoPlaces
    <3> QED BY <3>4, EqualsAreEqual
  <2>2. /\ k < q \/ k < p => k \in 1 .. n
        /\ (~ (k < q) /\ k # q) \/ (~ (k < p) /\ k # p) => k - 1 \in 1 .. n
    BY <1>1, <1>8
  <2>3. Merge(list, item)[k].cursor = Spliced(cur, item.cursor, q, k)
    BY <1>3, <1>4, <2>2 DEF Spliced
  <2>4. new[k].cursor = Spliced(cur, item.cursor, p, k)
    BY <1>4, <1>10, <2>2 DEF Spliced
  <2> QED BY <2>1, <2>3, <2>4
<1>13. SameCursors(Merge(list, item), new)
  <2>1. DOMAIN Merge(list, item) = 1 .. n + 1
    BY <1>1, <1>3
  <2> QED BY <1>3, <1>10, <1>12, <2>1 DEF SameCursors
<1> QED BY <1>10, <1>13 DEF new, p

(* Lemma: so do two truncated ones.                                        *)
LEMMA BothTruncate ==
  ASSUME NEW list \in Seq(Item), NEW array \in Seq(Item), SameCursors(list, array),
         NEW m \in Nat, Len(list) >= m
  PROVE  LET new == SubSeq(array, 1, Min({m, Len(array)}))
         IN new \in Seq(Item) /\ SameCursors(SubSeq(list, 1, m), new)
<1>1. Min({m, Len(array)}) = m
  <2>1. Len(array) \in Nat /\ m <= Len(array)
    BY DEF SameCursors
  <2> DEFINE n == Len(array)
  <2> HIDE DEF n
  <2> QED BY <2>1 DEF Min, n
<1>2. /\ SubSeq(array, 1, m) \in Seq(Item) /\ Len(SubSeq(array, 1, m)) = m
      /\ \A k \in 1 .. m : SubSeq(array, 1, m)[k] = array[k]
  BY DEF SameCursors
<1>3. /\ SubSeq(list, 1, m) \in Seq(Item) /\ Len(SubSeq(list, 1, m)) = m
      /\ \A k \in 1 .. m : SubSeq(list, 1, m)[k] = list[k] /\ k \in DOMAIN list
  OBVIOUS
<1>4. DOMAIN SubSeq(list, 1, m) = 1 .. m
  BY <1>3
<1> QED BY <1>1, <1>2, <1>3, <1>4 DEF SameCursors

----------------------------------------------------------------------------
(* The arrays of the prototype.                                            *)

PerlInv ==
  /\ IInv
  /\ arrays \in [Ids -> Seq(Item)]
  /\ \A id \in Ids : SameCursors(Lists[id], arrays[id])

(* Lemma: one list and one array change.                                   *)
LEMMA OneOfEachChanges ==
  ASSUME PerlInv, NEW id \in Ids, NEW list, NEW array \in Seq(Item), SameCursors(list, array),
         Lists' = [Lists EXCEPT ![id] = list], arrays' = [arrays EXCEPT ![id] = array], IInv'
  PROVE  PerlInv'
<1>1. ASSUME NEW x \in Ids PROVE SameCursors(Lists'[x], arrays'[x])
  <2>1. /\ Lists'[x] = IF x = id THEN list ELSE Lists[x]
        /\ arrays'[x] = IF x = id THEN array ELSE arrays[x]
    BY DEF PerlInv, Lists
  <2>2. SameCursors(Lists[x], arrays[x])
    BY DEF PerlInv
  <2> QED BY <2>1, <2>2
<1>2. arrays' \in [Ids -> Seq(Item)]
  BY DEF PerlInv
<1> QED BY <1>1, <1>2 DEF PerlInv

LEMMA BothAdd ==
  ASSUME PerlInv, IInv', NEW id \in Ids, NEW cursor \in Cursors,
         rdata' \in 1 .. MaxBlocks, nth' \in 1 .. MaxPairs,
         add_dataref_to_id(id, cursor, rdata', nth'), perl_add_dataref_to_id(id, cursor)
  PROVE  PerlInv'
<1> DEFINE item == [cursor |-> cursor, rdata |-> rdata', nth |-> nth', limit_ids |-> {}]
           list == Lists[id]
           array == arrays[id]
           new == InsertAt(array, Place(array, item) + 1, item)
<1>1. item \in Item
  BY DEF Item
<1>2. Put(id, Merge(list, item)) /\ arrays' = [arrays EXCEPT ![id] = new]
  BY DEF add_dataref_to_id, perl_add_dataref_to_id, Lists, PerlInv
<1>3. list \in Seq(Item) /\ Ordered(list) /\ array \in Seq(Item) /\ SameCursors(list, array)
  BY DEF PerlInv, IInv
<1> HIDE DEF item, list, array
<1>4. new \in Seq(Item) /\ SameCursors(Merge(list, item), new)
  BY <1>1, <1>3, BothInsert
<1> HIDE DEF new
<1>5. Lists' = [Lists EXCEPT ![id] = Merge(list, item)]
  BY <1>2, PutIs
<1> QED BY <1>2, <1>4, <1>5, OneOfEachChanges

LEMMA PerlStep == PerlInv /\ [PerlNext]_perlVars => PerlInv'
<1> SUFFICES ASSUME PerlInv, [PerlNext]_perlVars PROVE PerlInv'
  OBVIOUS
<1>1. CASE UNCHANGED perlVars
  <2>1. UNCHANGED <<Lists, arrays, rdata, nth>>
    BY <1>1 DEF perlVars, vars, Lists, get_data_by_id, Has
  <2> QED BY <2>1 DEF PerlInv, IInv
<1>2. ASSUME NEW id \in Ids, clean_old_data(id), perl_clean_old_data(id) PROVE PerlInv'
  <2> DEFINE list == Lists[id]
             array == arrays[id]
             kept == SubSeq(list, 1, MaxDataForId)
             new == SubSeq(array, 1, Min({MaxDataForId, Len(array)}))
  <2>1. IInv' /\ Len(list) >= MaxDataForId /\ Put(id, kept)
    BY <1>2, CleanCleans DEF clean_old_data, Lists, get_data_by_id, PerlInv
  <2>2. arrays' = [arrays EXCEPT ![id] = new]
    BY <1>2 DEF perl_clean_old_data, PerlInv
  <2>3. list \in Seq(Item) /\ array \in Seq(Item) /\ SameCursors(list, array)
    BY DEF PerlInv, IInv
  <2> HIDE DEF list, array
  <2>4. new \in Seq(Item) /\ SameCursors(kept, new)
    BY <2>1, <2>3, BothTruncate, DataToSendAssumption
  <2> HIDE DEF kept, new
  <2>5. Lists' = [Lists EXCEPT ![id] = kept]
    BY <2>1, PutIs
  <2> QED BY <2>1, <2>2, <2>4, <2>5, OneOfEachChanges
<1>3. ASSUME NEW id \in Ids, clear_id(id), perl_clear_id(id) PROVE PerlInv'
  <2>1. IInv'
    BY <1>3, ClearClears DEF PerlInv
  <2>2. /\ get_data_by_id(id)' = <<>>
        /\ \A x \in Ids : x # id => get_data_by_id(x)' = get_data_by_id(x)
    BY <1>3 DEF clear_id, get_data_by_id, Has
  <2>3. Lists' = [Lists EXCEPT ![id] = <<>>] /\ arrays' = [arrays EXCEPT ![id] = <<>>]
    BY <1>3, <2>2 DEF Lists, perl_clear_id
  <2>4. <<>> \in Seq(Item) /\ SameCursors(<<>>, <<>>)
    BY DEF SameCursors
  <2> QED BY <2>1, <2>3, <2>4, OneOfEachChanges
<1>4. ASSUME NEW id \in Ids, NEW cursor \in Cursors, NewBlock(id, cursor),
             perl_add_dataref_to_id(id, cursor)
      PROVE  PerlInv'
  <2>1. IInv'
    BY <1>4, Step DEF PerlInv, Next
  <2>2. /\ rdata' = rdata + 1 /\ nth' = 1 /\ rdata \in 0 .. MaxBlocks /\ rdata < MaxBlocks
        /\ add_dataref_to_id(id, cursor, rdata + 1, 1)
    BY <1>4 DEF NewBlock, PerlInv, IInv
  <2>3. add_dataref_to_id(id, cursor, rdata', nth')
    BY <2>2
  <2>4. rdata' \in 1 .. MaxBlocks /\ nth' \in 1 .. MaxPairs
    BY <2>2, DataToSendAssumption
  <2> QED BY <1>4, <2>1, <2>3, <2>4, BothAdd
<1>5. ASSUME NEW id \in Ids, NEW cursor \in Cursors, NextPair(id, cursor),
             perl_add_dataref_to_id(id, cursor)
      PROVE  PerlInv'
  <2>1. IInv'
    BY <1>5, Step DEF PerlInv, Next
  <2>2. /\ rdata' = rdata /\ nth' = nth + 1 /\ nth \in 1 .. MaxPairs - 1
        /\ rdata \in 0 .. MaxBlocks /\ rdata # 0
        /\ add_dataref_to_id(id, cursor, rdata, nth + 1)
    BY <1>5 DEF NextPair, PerlInv, IInv
  <2>3. add_dataref_to_id(id, cursor, rdata', nth')
    BY <2>2
  <2>4. rdata' \in 1 .. MaxBlocks /\ nth' \in 1 .. MaxPairs
    BY <2>2, DataToSendAssumption
  <2> QED BY <1>5, <2>1, <2>3, <2>4, BothAdd
<1> QED BY <1>1, <1>2, <1>3, <1>4, <1>5 DEF PerlNext

(* The sorted arrays of the prototype (perl/Storage/DataToSend.pm:22) keep *)
(* as many items of each cursor as the lists of the C++ server, in the     *)
(* same order of cursors, though its binary search may put an item on the  *)
(* other side of an equal one (Tie/Array/Sorted.pm:78-92).                 *)
THEOREM PrototypeKeepsAsMany == PerlSpec => []KeepsAsMany
<1>1. PerlInit => PerlInv
  <2> SUFFICES ASSUME PerlInit PROVE PerlInv
    OBVIOUS
  <2>1. IInv /\ \A id : get_data_by_id(id) = <<>>
    BY InitInv DEF PerlInit, Init, get_data_by_id, Has
  <2>2. <<>> \in Seq(Item) /\ SameCursors(<<>>, <<>>)
    BY DEF SameCursors
  <2> QED BY <2>1, <2>2 DEF PerlInit, PerlInv, Lists
<1>2. PerlInv => KeepsAsMany
  BY DEF PerlInv, KeepsAsMany, SameCursors, Lists
<1> QED BY <1>1, <1>2, PerlStep, PTL DEF PerlSpec
=============================================================================
