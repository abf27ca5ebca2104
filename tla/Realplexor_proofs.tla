------------------------- MODULE Realplexor_proofs --------------------------
(***************************************************************************)
(* Proofs about module Realplexor, for every set of IDs, connections and   *)
(* requests and for every value of the limits: its invariants, and that    *)
(* it implements module Presence (what the events and the answer to ONLINE *)
(* say) and module Comet (what its clients are answered).                  *)
(***************************************************************************)
EXTENDS Realplexor, FiniteSetTheorems, FunctionTheorems, WellFoundedInduction, TLAPS

(* Lemma: the IDs named by a list of pairs are IDs, and so are the own IDs *)
(* of a publication and the members of an order.                           *)
LEMMA NamedIds ==
  /\ \A pairs \in Seq(Pair) : IdsOf(pairs) \subseteq Ids
  /\ \A req \in InRequests : Listed(OwnIds(req)) \subseteq Ids
  /\ \A S \in SUBSET Ids : \A ids \in Orders(S) : Listed(ids) = S
<1>1. ASSUME NEW pairs \in Seq(Pair) PROVE IdsOf(pairs) \subseteq Ids
  <2>1. \A k \in DOMAIN pairs : pairs[k] \in Pair
    OBVIOUS
  <2> QED BY <2>1 DEF IdsOf, Pair
<1>2. ASSUME NEW req \in InRequests PROVE Listed(OwnIds(req)) \subseteq Ids
  <2>1. req.pairs \in Seq(Pair)
    BY InAssumption
  <2>2. \A k \in DOMAIN req.pairs : req.pairs[k] \in Pair
    BY <2>1
  <2> QED BY <2>2 DEF Listed, OwnIds, Pair
<1>3. ASSUME NEW S \in SUBSET Ids, NEW ids \in Orders(S) PROVE Listed(ids) = S
  BY DEF Orders
<1> QED BY <1>1, <1>2, <1>3

(* Lemma: a non-empty set of positions of a list has a last one.           *)
LessThan == {p \in Nat \X Nat : p[1] < p[2]}

LEMMA LastPosition ==
  ASSUME NEW n \in Nat, NEW S, S \subseteq 1 .. n, S # {}
  PROVE  \E k \in S : \A j \in S : j <= k
<1>1. IsWellFoundedOn(LessThan, Nat)
  BY NatLessThanWellFounded, Zenon DEF LessThan, OpToRel
<1> DEFINE T == {n - k : k \in S}
<1>2. T \subseteq Nat /\ T # {}
  <2>1. \A k \in S : k \in 1 .. n
    OBVIOUS
  <2>2. \A k \in 1 .. n : n - k \in Nat
    OBVIOUS
  <2> QED BY <2>1, <2>2
<1>3. PICK x \in T : \A y \in T : <<y, x>> \notin LessThan
  <2> HIDE DEF T
  <2> QED BY <1>1, <1>2, WFMin, Zenon
<1>4. \A y \in T : x <= y
  <2> HIDE DEF T
  <2>1. ASSUME NEW y \in T PROVE x <= y
    <3>1. x \in Nat /\ y \in Nat
      BY <1>2
    <3>2. ~ (y < x)
      BY <1>3, <3>1 DEF LessThan
    <3> QED BY <3>1, <3>2
  <2> QED BY <2>1
<1>5. PICK k \in S : x = n - k
  BY <1>3
<1>6. \A j \in S : n - k <= n - j
  BY <1>4, <1>5
<1> QED BY <1>6

(* Lemma: rotation drops items and nothing else.                           *)
LEMMA RotationDrops ==
  ASSUME NEW ids, NEW queues \in [Ids -> SUBSET Item]
  PROVE  /\ Rotate(ids, queues) \in [Ids -> SUBSET Item]
         /\ \A id \in Ids : Rotate(ids, queues)[id] \subseteq queues[id]
         /\ \A id \in Ids : id \notin Listed(ids) => Rotate(ids, queues)[id] = queues[id]
BY DEF Rotate, clean_old_data_for_id

(* Lemma: what send_pendings leaves in the variables is well typed.        *)
LEMMA SendPendingsType ==
  ASSUME TypeOK, NEW ids, NEW queues \in [Ids -> SUBSET Item],
         NEW listened \in [Ids -> [Fhs -> Cursor \cup {None}]],
         NEW pairs \in [Fhs -> Seq(Pair)],
         send_pendings(ids, queues, listened, pairs)
  PROVE  /\ data_to_send' \in [Ids -> SUBSET Item]
         /\ connected_fhs' \in [Ids -> [Fhs -> Cursor \cup {None}]]
         /\ pairs_by_fhs' \in [Fhs -> Seq(Pair)]
         /\ conn' \in [Fhs -> {"free", "open", "shut"}]
<1> DEFINE fs == Flushed(ids, Rotate(ids, queues), listened, pairs)
<1> HIDE DEF fs
<1>1. /\ data_to_send' = Rotate(ids, queues)
      /\ connected_fhs' = Forget(listened, pairs, fs)
      /\ pairs_by_fhs' = [f \in Fhs |-> IF f \in fs THEN <<>> ELSE pairs[f]]
      /\ conn' = [f \in Fhs |-> IF f \in fs THEN "shut" ELSE conn[f]]
  BY DEF send_pendings, fs
<1>2. data_to_send' \in [Ids -> SUBSET Item]
  BY <1>1, RotationDrops
<1>3. connected_fhs' \in [Ids -> [Fhs -> Cursor \cup {None}]]
  BY <1>1 DEF Forget
<1>4. pairs_by_fhs' \in [Fhs -> Seq(Pair)]
  BY <1>1
<1>5. conn' \in [Fhs -> {"free", "open", "shut"}]
  BY <1>1 DEF TypeOK
<1> QED BY <1>2, <1>3, <1>4, <1>5

----------------------------------------------------------------------------
(* Type correctness.                                                       *)

(* Lemma: registering pairs gives well-typed storages and events.          *)
LEMMA ListenType ==
  ASSUME NEW listened \in [Ids -> [Fhs -> Cursor \cup {None}]],
         NEW f \in Fhs, NEW pairs \in Seq(Pair)
  PROVE  Listen(listened, f, pairs) \in [Ids -> [Fhs -> Cursor \cup {None}]]
<1> DEFINE At(id) == {k \in DOMAIN pairs : pairs[k].id = id}
           last(id) == CHOOSE k \in At(id) : \A j \in At(id) : j <= k
<1> SUFFICES ASSUME NEW id \in Ids, id \in IdsOf(pairs)
             PROVE  [listened[id] EXCEPT ![f] = pairs[last(id)].cursor]
                      \in [Fhs -> Cursor \cup {None}]
  BY DEF Listen
<1>1. PICK n \in Nat : DOMAIN pairs = 1 .. n
  OBVIOUS
<1>2. \E k \in At(id) : \A j \in At(id) : j <= k
  <2>1. /\ At(id) \subseteq 1 .. n /\ At(id) # {}
    BY <1>1 DEF IdsOf
  <2> QED BY <2>1, LastPosition, <1>1
<1>3. last(id) \in DOMAIN pairs
  BY <1>2
<1>4. pairs[last(id)] \in Pair
  BY <1>3
<1> QED BY <1>4 DEF Pair

(* Lemma: the events of a registration are events, at later positions.     *)
LEMMA OnlineEventsType ==
  ASSUME TypeOK, NEW pairs \in Seq(Pair)
  PROVE  /\ OnlineEvents(pairs) \subseteq Event
         /\ Cardinality(Newcomers(pairs)) \in Nat
<1>1. /\ Newcomers(pairs) \subseteq Ids
      /\ \A k \in DOMAIN pairs : pairs[k] \in Pair
  BY NamedIds DEF Newcomers
<1>2. Cardinality(Newcomers(pairs)) \in Nat
  BY <1>1, IdsAssumption, FS_Subset, FS_CardinalityType
<1>3. PICK n \in Nat : DOMAIN pairs = 1 .. n
  OBVIOUS
<1> DEFINE At == {k \in DOMAIN pairs : /\ pairs[k].id \in Newcomers(pairs)
                                       /\ \A j \in 1 .. k - 1 : pairs[j].id # pairs[k].id}
<1>4. IsFiniteSet(At)
  <2>1. IsFiniteSet(1 .. n)
    BY FS_Interval, 1 \in Int, n \in Int
  <2> QED BY <1>3, <2>1, FS_Subset
<1>5. ASSUME NEW k \in At PROVE Cardinality({j \in At : j <= k}) \in Nat
  BY <1>4, FS_Subset, FS_CardinalityType
<1>6. ASSUME NEW k \in At
      PROVE [cursor |-> cur_pos + Cardinality({j \in At : j <= k}),
             type |-> "online", id |-> pairs[k].id] \in Event
  <2>1. pairs[k].id \in Ids
    BY <1>1 DEF Pair
  <2>2. cur_pos \in Nat
    BY DEF TypeOK
  <2> HIDE DEF At
  <2> QED BY <2>1, <2>2, <1>5 DEF Event
<1>7. OnlineEvents(pairs) = {[cursor |-> cur_pos + Cardinality({j \in At : j <= k}),
                              type |-> "online", id |-> pairs[k].id] : k \in At}
  BY DEF OnlineEvents
<1> HIDE DEF At
<1>8. OnlineEvents(pairs) \subseteq Event
  BY <1>6, <1>7
<1> QED BY <1>2, <1>8

(* Theorem: every reachable state is well typed.                           *)
LEMMA InitTypeOK == Init => TypeOK
BY DEF Init, TypeOK, InitialPos

LEMMA ConnectTypeOK == ASSUME TypeOK, NEW f \in Fhs, Connect(f) PROVE TypeOK'
BY DEF TypeOK, Connect

LEMMA SendScriptTypeOK == ASSUME TypeOK, NEW f \in Fhs, SendScript(f) PROVE TypeOK'
BY DEF TypeOK, SendScript

LEMMA CloseTypeOK == ASSUME TypeOK, NEW f \in Fhs, Close(f) PROVE TypeOK'
BY DEF TypeOK, Close, Forget

LEMMA CursorThrowsTypeOK ==
  ASSUME TypeOK, NEW f \in Fhs, NEW pairs, CursorThrows(f, pairs) PROVE TypeOK'
BY DEF TypeOK, CursorThrows

LEMMA RegisterTypeOK ==
  ASSUME TypeOK, NEW f \in Fhs, NEW pairs \in WaitRequests, NEW ids,
         Register(f, pairs, ids)
  PROVE  TypeOK'
<1>1. pairs \in Seq(Pair)
  BY WaitAssumption
<1>2. /\ data_to_send' \in [Ids -> SUBSET Item]
      /\ connected_fhs' \in [Ids -> [Fhs -> Cursor \cup {None}]]
      /\ pairs_by_fhs' \in [Fhs -> Seq(Pair)]
      /\ conn' \in [Fhs -> {"free", "open", "shut"}]
  <2>1. Listen(connected_fhs, f, pairs) \in [Ids -> [Fhs -> Cursor \cup {None}]]
    BY <1>1, ListenType DEF TypeOK
  <2>2. [pairs_by_fhs EXCEPT ![f] = pairs] \in [Fhs -> Seq(Pair)]
    BY <1>1 DEF TypeOK
  <2>3. data_to_send \in [Ids -> SUBSET Item]
    BY DEF TypeOK
  <2>4. send_pendings(ids, data_to_send, Listen(connected_fhs, f, pairs),
                      [pairs_by_fhs EXCEPT ![f] = pairs])
    BY DEF Register
  <2> QED BY <2>1, <2>2, <2>3, <2>4, SendPendingsType
<1>3. wait_pairs' \in [Fhs -> Seq(Pair)]
  BY <1>1 DEF Register, TypeOK
<1>4. online_timers' \in [Ids -> {"none", "stopped", "running"}]
  BY DEF Register, TypeOK
<1>5. cur_pos' \in Nat /\ chain' \subseteq Event
  BY <1>1, OnlineEventsType DEF Register, KeepRecent, TypeOK
<1>6. cleanup_timers' \in [Ids -> BOOLEAN] /\ published' \in Nat
  BY DEF Register, TypeOK
<1> QED BY <1>2, <1>3, <1>4, <1>5, <1>6 DEF TypeOK

LEMMA PublishTypeOK ==
  ASSUME TypeOK, NEW req \in InRequests, Publish(req)
  PROVE  TypeOK'
<1> DEFINE queues == [id \in Ids |-> data_to_send[id] \cup ItemsFor(id, req, published + 1)]
<1>1. queues \in [Ids -> SUBSET Item]
  <2>1. /\ \A k \in DOMAIN req.pairs : k \in Nat /\ req.pairs[k] \in Pair
        /\ req.limit_ids \subseteq Ids
        /\ published + 1 \in Nat
    <3>1. req.pairs \in Seq(Pair) /\ req.limit_ids \subseteq Ids
      BY InAssumption
    <3> QED BY <3>1 DEF TypeOK
  <2>2. \A id \in Ids : ItemsFor(id, req, published + 1) \subseteq Item
    BY <2>1 DEF ItemsFor, Item, Pair
  <2> QED BY <2>2 DEF TypeOK
<1>2. /\ connected_fhs \in [Ids -> [Fhs -> Cursor \cup {None}]]
      /\ pairs_by_fhs \in [Fhs -> Seq(Pair)]
      /\ send_pendings(OwnIds(req), queues, connected_fhs, pairs_by_fhs)
  BY DEF TypeOK, Publish
<1> HIDE DEF queues
<1>3. /\ data_to_send' \in [Ids -> SUBSET Item]
      /\ connected_fhs' \in [Ids -> [Fhs -> Cursor \cup {None}]]
      /\ pairs_by_fhs' \in [Fhs -> Seq(Pair)]
      /\ conn' \in [Fhs -> {"free", "open", "shut"}]
  BY <1>1, <1>2, SendPendingsType
<1>4. cleanup_timers' \in [Ids -> BOOLEAN] /\ published' \in Nat
  BY DEF Publish, TypeOK
<1> QED BY <1>3, <1>4 DEF Publish, TypeOK

LEMMA OnlineTimerTypeOK ==
  ASSUME TypeOK, NEW id \in Ids, OnlineTimerFires(id) PROVE TypeOK'
BY DEF TypeOK, OnlineTimerFires, KeepRecent, Event

LEMMA CleanupTimerTypeOK ==
  ASSUME TypeOK, NEW id \in Ids, CleanupTimerFires(id) PROVE TypeOK'
BY DEF TypeOK, CleanupTimerFires

THEOREM TypeCorrect == Spec => []TypeOK
<1>1. ASSUME TypeOK, [Next]_vars PROVE TypeOK'
  <2>1. CASE Next
    BY <2>1, <1>1, ConnectTypeOK, SendScriptTypeOK, CloseTypeOK, CursorThrowsTypeOK, RegisterTypeOK,
       PublishTypeOK, OnlineTimerTypeOK, CleanupTimerTypeOK DEF Next
  <2>2. CASE UNCHANGED vars
    BY <2>2, <1>1 DEF TypeOK, vars
  <2> QED BY <1>1, <2>1, <2>2
<1> QED BY <1>1, InitTypeOK, PTL DEF Spec

----------------------------------------------------------------------------
(* The inductive invariant.  IndexesAgree is what the rest leans on: a     *)
(* flush forgets a connection at the IDs that pairs_by_fhs names, and a    *)
(* close at those wait_pairs names.                                        *)
IInv ==
  /\ TypeOK
  /\ IndexesAgree
  /\ NothingPending
  /\ OnlineWhileListened
  /\ StoppedHasCloser
  /\ QueueHasReaper

(* The two indexes of listeners, given as values, agree.                   *)
Agree(listened, pairs) ==
  \A f \in Fhs, id \in Ids : listened[id][f] # None <=> id \in IdsOf(pairs[f])

(* Lemma: send_pendings keeps the two indexes in agreement.                *)
LEMMA SendPendingsAgrees ==
  ASSUME TypeOK, NEW ids, NEW queues, NEW listened, NEW pairs,
         send_pendings(ids, queues, listened, pairs), Agree(listened, pairs),
         \A f \in Fhs : pairs[f] # <<>> => conn[f] = "open" /\ pairs[f] = wait_pairs'[f]
  PROVE  IndexesAgree'
<1> DEFINE fs == Flushed(ids, Rotate(ids, queues), listened, pairs)
<1>1. /\ connected_fhs' = Forget(listened, pairs, fs)
      /\ pairs_by_fhs' = [f \in Fhs |-> IF f \in fs THEN <<>> ELSE pairs[f]]
      /\ conn' = [f \in Fhs |-> IF f \in fs THEN "shut" ELSE conn[f]]
  BY DEF send_pendings
<1> HIDE DEF fs
<1> SUFFICES ASSUME NEW f \in Fhs
             PROVE  /\ \A id \in Ids : Listens(f, id)' <=> id \in IdsOf(pairs_by_fhs[f])'
                    /\ (pairs_by_fhs[f] # <<>>
                         => conn[f] = "open" /\ pairs_by_fhs[f] = wait_pairs[f])'
  BY DEF IndexesAgree
<1>2. CASE f \in fs
  <2>1. pairs_by_fhs'[f] = <<>> /\ IdsOf(pairs_by_fhs'[f]) = {}
    BY <1>1, <1>2 DEF IdsOf
  <2>2. \A id \in Ids : connected_fhs'[id][f] = None
    BY <1>1, <1>2 DEF Forget, Agree
  <2> QED BY <2>1, <2>2 DEF Listens
<1>3. CASE f \notin fs
  <2>1. pairs_by_fhs'[f] = pairs[f] /\ conn'[f] = conn[f]
    BY <1>1, <1>3
  <2>2. \A id \in Ids : connected_fhs'[id][f] = listened[id][f]
    BY <1>1, <1>3 DEF Forget
  <2> QED BY <2>1, <2>2 DEF Listens, Agree
<1> QED BY <1>2, <1>3

(* Lemma: send_pendings leaves nothing pending if nothing was pending at   *)
(* the IDs it does not look at.                                            *)
LEMMA SendPendingsFlushes ==
  ASSUME NEW ids, NEW queues, NEW listened, NEW pairs,
         send_pendings(ids, queues, listened, pairs), Agree(listened, pairs),
         \A f \in Fhs : \A id \in Ids \ Listed(ids) :
           Unseen(queues[id], listened[id], pairs, f) = {}
  PROVE  NothingPending'
<1> DEFINE q == Rotate(ids, queues)
           fs == Flushed(ids, q, listened, pairs)
<1>1. /\ data_to_send' = q
      /\ connected_fhs' = Forget(listened, pairs, fs)
      /\ pairs_by_fhs' = [f \in Fhs |-> IF f \in fs THEN <<>> ELSE pairs[f]]
  BY DEF send_pendings
<1> SUFFICES ASSUME NEW f \in Fhs, NEW id \in Ids
             PROVE  Unseen(data_to_send'[id], connected_fhs'[id], pairs_by_fhs', f) = {}
  BY DEF NothingPending
<1>2. CASE f \in fs
  <2> HIDE DEF fs
  <2>1. connected_fhs'[id][f] = None
    BY <1>1, <1>2 DEF Forget, Agree
  <2> QED BY <2>1 DEF Unseen
<1>3. CASE f \notin fs
  <2>1. Unseen(q[id], listened[id], pairs, f) = {}
    <3>1. CASE id \in Listed(ids)
      BY <1>3, <3>1 DEF Flushed
    <3>2. CASE id \notin Listed(ids)
      <4>1. q[id] = queues[id]
        BY <3>2 DEF Rotate
      <4> QED BY <4>1, <3>2
    <3> QED BY <3>1, <3>2
  <2> HIDE DEF fs
  <2>2. connected_fhs'[id][f] = listened[id][f] /\ pairs_by_fhs'[f] = pairs[f]
    BY <1>1, <1>3 DEF Forget
  <2> HIDE DEF q
  <2> QED BY <1>1, <2>1, <2>2 DEF Unseen
<1> QED BY <1>2, <1>3

(* Lemma: a registration lists f at exactly the IDs of its pairs.          *)
LEMMA ListenAgrees ==
  ASSUME TypeOK, IndexesAgree, NEW f \in Fhs, NEW pairs \in Seq(Pair), wait_pairs[f] = <<>>
  PROVE  Agree(Listen(connected_fhs, f, pairs), [pairs_by_fhs EXCEPT ![f] = pairs])
<1> DEFINE listened == Listen(connected_fhs, f, pairs)
<1> SUFFICES ASSUME NEW g \in Fhs, NEW id \in Ids
             PROVE  listened[id][g] # None <=>
                      id \in IdsOf([pairs_by_fhs EXCEPT ![f] = pairs][g])
  BY DEF Agree
<1>1. \A h \in Fhs : Listens(h, id) <=> id \in IdsOf(pairs_by_fhs[h])
  BY DEF IndexesAgree
<1>2. CASE g # f
  <2>1. listened[id][g] = connected_fhs[id][g]
    BY <1>2 DEF Listen, TypeOK
  <2> QED BY <1>1, <1>2, <2>1 DEF Listens, TypeOK
<1>3. CASE g = f
  <2>1. [pairs_by_fhs EXCEPT ![f] = pairs][g] = pairs
    BY <1>3 DEF TypeOK
  <2>2. pairs_by_fhs[f] = <<>>
    BY DEF IndexesAgree
  <2>3. connected_fhs[id][f] = None
    BY <1>1, <2>2 DEF Listens, IdsOf
  <2>4. CASE id \notin IdsOf(pairs)
    BY <1>3, <2>1, <2>3, <2>4 DEF Listen
  <2>5. CASE id \in IdsOf(pairs)
    <3>1. PICK k \in DOMAIN pairs : listened[id] = [connected_fhs[id] EXCEPT ![f] = pairs[k].cursor]
      <4> DEFINE At == {k \in DOMAIN pairs : pairs[k].id = id}
                 last == CHOOSE k \in At : \A j \in At : j <= k
      <4>1. PICK n \in Nat : DOMAIN pairs = 1 .. n
        OBVIOUS
      <4>2. At \subseteq 1 .. n /\ At # {}
        BY <2>5, <4>1 DEF IdsOf
      <4>3. last \in At
        BY <4>1, <4>2, LastPosition
      <4>4. listened[id] = [connected_fhs[id] EXCEPT ![f] = pairs[last].cursor]
        BY <2>5 DEF Listen
      <4> QED BY <4>3, <4>4
    <3>2. pairs[k] \in Pair
      OBVIOUS
    <3>3. listened[id][f] = pairs[k].cursor
      BY <3>1 DEF TypeOK
    <3>4. listened[id][f] # None
      BY <3>2, <3>3, NoneAssumption DEF Pair
    <3> QED BY <1>3, <2>1, <2>5, <3>4
  <2> QED BY <2>4, <2>5
<1> QED BY <1>2, <1>3

(* One lemma per action: it preserves the inductive invariant.             *)
LEMMA RegisterIInv ==
  ASSUME IInv, NEW f \in Fhs, NEW pairs \in WaitRequests,
         NEW ids \in Orders(IdsOf(pairs)), Register(f, pairs, ids)
  PROVE  IInv'
<1> USE DEF IInv
<1> DEFINE listened == Listen(connected_fhs, f, pairs)
           listed == [pairs_by_fhs EXCEPT ![f] = pairs]
<1>1. /\ pairs \in Seq(Pair) /\ Listed(ids) = IdsOf(pairs)
      /\ conn[f] = "open" /\ wait_pairs[f] = <<>>
      /\ wait_pairs' = [wait_pairs EXCEPT ![f] = pairs]
      /\ send_pendings(ids, data_to_send, listened, listed)
  BY WaitAssumption, NamedIds DEF Register
<1>2. TypeOK'
  BY RegisterTypeOK
<1>3. Agree(listened, listed)
  BY <1>1, ListenAgrees
<1>4. IndexesAgree'
  <2> HIDE DEF listened
  <2>1. ASSUME NEW g \in Fhs, listed[g] # <<>>
        PROVE  conn[g] = "open" /\ listed[g] = wait_pairs'[g]
    <3>1. CASE g = f
      BY <1>1, <3>1 DEF TypeOK
    <3>2. CASE g # f
      BY <1>1, <2>1, <3>2 DEF IndexesAgree, TypeOK
    <3> QED BY <3>1, <3>2
  <2> HIDE DEF listed
  <2> QED BY <1>1, <1>3, <2>1, SendPendingsAgrees
<1>5. NothingPending'
  <2>1. ASSUME NEW g \in Fhs, NEW id \in Ids \ Listed(ids)
        PROVE  Unseen(data_to_send[id], listened[id], listed, g) = {}
    <3>1. listened[id] = connected_fhs[id]
      BY <1>1 DEF Listen
    <3>2. CASE g = f
      <4>1. listed[g] = pairs
        BY <3>2 DEF TypeOK
      <4>2. listened[id][g] = None
        BY <1>1, <1>3, <4>1 DEF Agree
      <4> QED BY <4>2 DEF Unseen
    <3>3. CASE g # f
      <4>1. listed[g] = pairs_by_fhs[g]
        BY <3>3 DEF TypeOK
      <4> QED BY <3>1, <4>1 DEF Unseen, NothingPending
    <3> QED BY <3>2, <3>3
  <2> HIDE DEF listened, listed
  <2> QED BY <1>1, <1>3, <2>1, SendPendingsFlushes
<1>6. \A g \in Fhs : conn[g] # "free" => conn'[g] # "free"
  BY <1>1 DEF send_pendings
<1>7. OnlineWhileListened'
  <2> SUFFICES ASSUME NEW id \in Ids, NEW g \in Fhs, connected_fhs'[id][g] # None
               PROVE  online_timers'[id] = "stopped"
    BY DEF OnlineWhileListened, Listens
  <2>1. CASE id \in IdsOf(pairs)
    BY <2>1 DEF Register
  <2>2. CASE id \notin IdsOf(pairs)
    <3>1. listened[id] = connected_fhs[id]
      BY <2>2 DEF Listen
    <3> HIDE DEF listened
    <3>2. connected_fhs[id][g] # None
      BY <1>1, <3>1 DEF send_pendings, Forget
    <3>3. online_timers'[id] = online_timers[id]
      BY <2>2 DEF Register
    <3> QED BY <3>2, <3>3 DEF OnlineWhileListened, Listens
  <2> QED BY <2>1, <2>2
<1>8. StoppedHasCloser'
  <2> SUFFICES ASSUME NEW id \in Ids, online_timers'[id] = "stopped"
               PROVE  \E g \in Fhs : conn'[g] # "free" /\ id \in IdsOf(wait_pairs'[g])
    BY DEF StoppedHasCloser
  <2>1. CASE id \in IdsOf(pairs)
    BY <1>1, <1>6, <2>1 DEF TypeOK
  <2>2. CASE id \notin IdsOf(pairs)
    <3>1. online_timers[id] = "stopped"
      BY <2>2 DEF Register
    <3>2. PICK g \in Fhs : conn[g] # "free" /\ id \in IdsOf(wait_pairs[g])
      BY <3>1 DEF StoppedHasCloser
    <3>3. g # f
      BY <1>1, <3>2 DEF IdsOf
    <3>4. wait_pairs'[g] = wait_pairs[g]
      BY <1>1, <3>3 DEF TypeOK
    <3> QED BY <1>6, <3>2, <3>4
  <2> QED BY <2>1, <2>2
<1>9. QueueHasReaper'
  <2>1. \A id \in Ids : data_to_send'[id] \subseteq data_to_send[id]
    <3> HIDE DEF listened, listed
    <3> QED BY <1>1, RotationDrops DEF send_pendings, TypeOK
  <2> QED BY <2>1 DEF QueueHasReaper, Register
<1> QED BY <1>2, <1>4, <1>5, <1>7, <1>8, <1>9

LEMMA PublishIInv ==
  ASSUME IInv, NEW req \in InRequests, Publish(req)
  PROVE  IInv'
<1> USE DEF IInv
<1> DEFINE ids == OwnIds(req)
           queues == [id \in Ids |-> data_to_send[id] \cup ItemsFor(id, req, published + 1)]
<1>1. /\ send_pendings(ids, queues, connected_fhs, pairs_by_fhs)
      /\ UNCHANGED <<online_timers, wait_pairs>>
  BY DEF Publish
<1>2. TypeOK'
  BY PublishTypeOK
<1>3. Agree(connected_fhs, pairs_by_fhs)
  BY DEF Agree, IndexesAgree, Listens
<1>4. ASSUME NEW id \in Ids \ Listed(ids) PROVE queues[id] = data_to_send[id]
  BY DEF ItemsFor, OwnIds, Listed
<1> HIDE DEF queues, ids
<1>5. IndexesAgree'
  BY <1>1, <1>3, SendPendingsAgrees DEF IndexesAgree
<1>6. NothingPending'
  BY <1>1, <1>3, <1>4, SendPendingsFlushes DEF NothingPending
<1>7. OnlineWhileListened'
  <2>1. \A id \in Ids, f \in Fhs : connected_fhs'[id][f] # None => connected_fhs[id][f] # None
    BY <1>1 DEF send_pendings, Forget
  <2> QED BY <1>1, <2>1 DEF OnlineWhileListened, Listens
<1>8. StoppedHasCloser'
  <2>1. \A f \in Fhs : conn[f] # "free" => conn'[f] # "free"
    BY <1>1 DEF send_pendings
  <2> QED BY <1>1, <2>1 DEF StoppedHasCloser
<1>9. QueueHasReaper'
  <2> SUFFICES ASSUME NEW id \in Ids, data_to_send'[id] # {}
               PROVE  cleanup_timers'[id]
    BY DEF QueueHasReaper
  <2>1. CASE id \in Listed(ids)
    BY <2>1 DEF Publish, ids
  <2>2. CASE id \notin Listed(ids)
    <3>1. data_to_send'[id] = data_to_send[id]
      BY <1>1, <1>4, <2>2 DEF send_pendings, Rotate
    <3>2. cleanup_timers'[id] = cleanup_timers[id]
      BY <2>2 DEF Publish, ids, TypeOK
    <3> QED BY <3>1, <3>2 DEF QueueHasReaper
  <2> QED BY <2>1, <2>2
<1> QED BY <1>2, <1>5, <1>6, <1>7, <1>8, <1>9

LEMMA CloseIInv ==
  ASSUME IInv, NEW f \in Fhs, Close(f)
  PROVE  IInv'
<1> USE DEF IInv
<1> DEFINE listened == Forget(connected_fhs, wait_pairs, {f})
<1>1. /\ connected_fhs' = listened
      /\ pairs_by_fhs' = [pairs_by_fhs EXCEPT ![f] = <<>>]
      /\ conn' = [conn EXCEPT ![f] = "free"]
      /\ wait_pairs' = [wait_pairs EXCEPT ![f] = <<>>]
      /\ UNCHANGED <<data_to_send, cleanup_timers>>
  BY DEF Close
<1>2. TypeOK'
  BY CloseTypeOK
<1>3. \A id \in Ids : listened[id][f] = None
  <2> SUFFICES ASSUME NEW id \in Ids, connected_fhs[id][f] # None
               PROVE  id \in IdsOf(wait_pairs[f])
    BY DEF Forget
  <2>1. id \in IdsOf(pairs_by_fhs[f])
    BY DEF IndexesAgree, Listens
  <2>2. pairs_by_fhs[f] # <<>>
    BY <2>1 DEF IdsOf
  <2> QED BY <2>1, <2>2 DEF IndexesAgree
<1>4. \A g \in Fhs \ {f} : /\ \A id \in Ids : listened[id][g] = connected_fhs[id][g]
                            /\ pairs_by_fhs'[g] = pairs_by_fhs[g]
                            /\ conn'[g] = conn[g] /\ wait_pairs'[g] = wait_pairs[g]
  BY <1>1 DEF Forget, TypeOK
<1>5. pairs_by_fhs'[f] = <<>> /\ IdsOf(pairs_by_fhs'[f]) = {}
  BY <1>1 DEF TypeOK, IdsOf
<1> HIDE DEF listened
<1>6. IndexesAgree'
  <2> SUFFICES ASSUME NEW g \in Fhs
               PROVE  /\ \A id \in Ids :
                           connected_fhs'[id][g] # None <=> id \in IdsOf(pairs_by_fhs'[g])
                      /\ pairs_by_fhs'[g] # <<>>
                           => conn'[g] = "open" /\ pairs_by_fhs'[g] = wait_pairs'[g]
    BY DEF IndexesAgree, Listens
  <2>1. CASE g = f
    BY <1>1, <1>3, <1>5, <2>1
  <2>2. CASE g # f
    BY <1>1, <1>4, <2>2 DEF IndexesAgree, Listens
  <2> QED BY <2>1, <2>2
<1>7. NothingPending'
  <2> SUFFICES ASSUME NEW g \in Fhs, NEW id \in Ids
               PROVE  Unseen(data_to_send[id], listened[id], pairs_by_fhs', g) = {}
    BY <1>1 DEF NothingPending
  <2>1. CASE g = f
    BY <1>3, <2>1 DEF Unseen
  <2>2. CASE g # f
    <3>1. Unseen(data_to_send[id], connected_fhs[id], pairs_by_fhs, g) = {}
      BY DEF NothingPending
    <3> QED BY <1>4, <2>2, <3>1 DEF Unseen
  <2> QED BY <2>1, <2>2
<1>8. OnlineWhileListened'
  <2> SUFFICES ASSUME NEW id \in Ids, NEW g \in Fhs, listened[id][g] # None
               PROVE  online_timers'[id] = "stopped"
    BY <1>1 DEF OnlineWhileListened, Listens
  <2>1. g # f /\ connected_fhs[id][g] # None
    BY <1>3, <1>4
  <2>2. online_timers'[id] = online_timers[id]
    BY DEF Close, Deserted, listened
  <2> QED BY <2>1, <2>2 DEF OnlineWhileListened, Listens
<1>9. StoppedHasCloser'
  <2> SUFFICES ASSUME NEW id \in Ids, online_timers'[id] = "stopped"
               PROVE  \E g \in Fhs \ {f} : conn[g] # "free" /\ id \in IdsOf(wait_pairs[g])
    BY <1>4 DEF StoppedHasCloser
  <2>1. online_timers[id] = "stopped"
    BY DEF Close
  <2>2. CASE id \notin IdsOf(wait_pairs[f])
    BY <2>1, <2>2 DEF StoppedHasCloser
  <2>3. CASE id \in IdsOf(wait_pairs[f])
    <3>1. PICK g \in Fhs : listened[id][g] # None
      BY <2>1, <2>3 DEF Close, Deserted, listened
    <3>2. g # f /\ connected_fhs[id][g] # None
      BY <1>3, <1>4, <3>1
    <3>3. id \in IdsOf(pairs_by_fhs[g]) /\ pairs_by_fhs[g] # <<>>
      BY <3>2 DEF IndexesAgree, Listens, IdsOf
    <3>4. conn[g] = "open" /\ id \in IdsOf(wait_pairs[g])
      BY <3>3 DEF IndexesAgree
    <3> QED BY <3>2, <3>4
  <2> QED BY <2>2, <2>3
<1>10. QueueHasReaper'
  BY <1>1 DEF QueueHasReaper
<1> QED BY <1>2, <1>6, <1>7, <1>8, <1>9, <1>10

LEMMA ConnectIInv == ASSUME IInv, NEW f \in Fhs, Connect(f) PROVE IInv'
<1>1. TypeOK'
  BY ConnectTypeOK DEF IInv
<1>2. IndexesAgree'
  BY DEF IInv, TypeOK, IndexesAgree, Listens, Connect
<1>3. NothingPending' /\ QueueHasReaper' /\ OnlineWhileListened'
  BY DEF IInv, NothingPending, QueueHasReaper, OnlineWhileListened, Listens, Connect
<1>4. StoppedHasCloser'
  BY DEF IInv, TypeOK, StoppedHasCloser, Connect
<1> QED BY <1>1, <1>2, <1>3, <1>4 DEF IInv

LEMMA SendScriptIInv == ASSUME IInv, NEW f \in Fhs, SendScript(f) PROVE IInv'
<1>1. TypeOK'
  BY SendScriptTypeOK DEF IInv
<1>2. IndexesAgree'
  BY DEF IInv, TypeOK, IndexesAgree, Listens, SendScript
<1>3. NothingPending' /\ QueueHasReaper' /\ OnlineWhileListened'
  BY DEF IInv, NothingPending, QueueHasReaper, OnlineWhileListened, Listens, SendScript
<1>4. StoppedHasCloser'
  BY DEF IInv, TypeOK, StoppedHasCloser, SendScript
<1> QED BY <1>1, <1>2, <1>3, <1>4 DEF IInv

(* A timer is started at an ID that nobody listens, and none is stopped.   *)
LEMMA CursorThrowsIInv ==
  ASSUME IInv, NEW f \in Fhs, NEW pairs, CursorThrows(f, pairs) PROVE IInv'
<1>1. TypeOK'
  BY CursorThrowsTypeOK DEF IInv
<1>2. IndexesAgree'
  BY DEF IInv, TypeOK, IndexesAgree, Listens, CursorThrows
<1>3. NothingPending' /\ QueueHasReaper'
  BY DEF IInv, NothingPending, QueueHasReaper, CursorThrows
<1>4. OnlineWhileListened'
  BY DEF IInv, OnlineWhileListened, Listens, CursorThrows, Deserted
<1>5. StoppedHasCloser'
  <2>1. \A id \in Ids : online_timers'[id] = "stopped" => online_timers[id] = "stopped"
    BY DEF CursorThrows
  <2>2. \A g \in Fhs, id \in Ids : id \in IdsOf(wait_pairs[g]) => g # f
    BY DEF CursorThrows, IdsOf
  <2> QED BY <2>1, <2>2 DEF IInv, TypeOK, StoppedHasCloser, CursorThrows
<1> QED BY <1>1, <1>2, <1>3, <1>4, <1>5 DEF IInv

LEMMA OnlineTimerIInv ==
  ASSUME IInv, NEW id \in Ids, OnlineTimerFires(id) PROVE IInv'
<1>1. TypeOK'
  BY OnlineTimerTypeOK DEF IInv
<1>2. IndexesAgree' /\ NothingPending' /\ QueueHasReaper'
  BY DEF IInv, IndexesAgree, NothingPending, QueueHasReaper, Listens, OnlineTimerFires
<1>3. OnlineWhileListened'
  BY DEF IInv, TypeOK, OnlineWhileListened, Listens, OnlineTimerFires
<1>4. StoppedHasCloser'
  BY DEF IInv, TypeOK, StoppedHasCloser, OnlineTimerFires
<1> QED BY <1>1, <1>2, <1>3, <1>4 DEF IInv

LEMMA CleanupTimerIInv ==
  ASSUME IInv, NEW id \in Ids, CleanupTimerFires(id) PROVE IInv'
<1>1. TypeOK'
  BY CleanupTimerTypeOK DEF IInv
<1>2. IndexesAgree' /\ OnlineWhileListened' /\ StoppedHasCloser'
  BY DEF IInv, IndexesAgree, OnlineWhileListened, StoppedHasCloser, Listens, CleanupTimerFires
<1>3. NothingPending'
  <2>1. \A x \in Ids : data_to_send'[x] \subseteq data_to_send[x]
    BY DEF IInv, TypeOK, CleanupTimerFires
  <2> QED BY <2>1 DEF IInv, NothingPending, Unseen, CleanupTimerFires
<1>4. QueueHasReaper'
  BY DEF IInv, TypeOK, QueueHasReaper, CleanupTimerFires
<1> QED BY <1>1, <1>2, <1>3, <1>4 DEF IInv

LEMMA InitIInv == Init => IInv
<1> SUFFICES ASSUME Init PROVE IInv
  OBVIOUS
<1>1. TypeOK
  BY InitTypeOK
<1>2. IndexesAgree
  BY DEF Init, IndexesAgree, Listens, IdsOf
<1>3. NothingPending /\ OnlineWhileListened
  BY DEF Init, NothingPending, Unseen, OnlineWhileListened, Listens
<1>4. StoppedHasCloser /\ QueueHasReaper
  BY DEF Init, StoppedHasCloser, QueueHasReaper
<1> QED BY <1>1, <1>2, <1>3, <1>4 DEF IInv

LEMMA Inductive == IInv /\ [Next]_vars => IInv'
<1> SUFFICES ASSUME IInv, [Next]_vars PROVE IInv'
  OBVIOUS
<1>1. CASE UNCHANGED vars
  <2>1. TypeOK' /\ IndexesAgree' /\ StoppedHasCloser' /\ QueueHasReaper'
    BY <1>1 DEF IInv, TypeOK, IndexesAgree, Listens, StoppedHasCloser, QueueHasReaper, vars
  <2>2. NothingPending' /\ OnlineWhileListened'
    BY <1>1 DEF IInv, NothingPending, OnlineWhileListened, Listens, vars
  <2> QED BY <2>1, <2>2 DEF IInv
<1>2. ASSUME NEW f \in Fhs, Connect(f) \/ SendScript(f) \/ Close(f) PROVE IInv'
  BY <1>2, ConnectIInv, SendScriptIInv, CloseIInv
<1>3. ASSUME NEW f \in Fhs, NEW pairs \in WaitRequests,
             NEW ids \in Orders(IdsOf(pairs)), Register(f, pairs, ids) PROVE IInv'
  BY <1>3, RegisterIInv
<1>4. ASSUME NEW req \in InRequests, Publish(req) PROVE IInv'
  BY <1>4, PublishIInv
<1>5. ASSUME NEW id \in Ids, OnlineTimerFires(id) \/ CleanupTimerFires(id) PROVE IInv'
  BY <1>5, OnlineTimerIInv, CleanupTimerIInv
<1>6. ASSUME NEW f \in Fhs, NEW pairs, CursorThrows(f, pairs) PROVE IInv'
  BY <1>6, CursorThrowsIInv
<1> QED BY <1>1, <1>2, <1>3, <1>4, <1>5, <1>6 DEF Next

LEMMA Invariance == Spec => []IInv
BY InitIInv, Inductive, PTL DEF Spec

(* Theorem: connected_fhs and pairs_by_fhs agree at every moment between   *)
(* handlers, and only registered open connections are in them.             *)
THEOREM IndexesCorrect == Spec => []IndexesAgree
<1>1. IInv => IndexesAgree
  BY DEF IInv
<1> QED BY <1>1, Invariance, PTL

(* Theorem: no listener is ever left waiting for a queued item it may see. *)
THEOREM NoLostWakeup == Spec => []NothingPending
<1>1. IInv => NothingPending
  BY DEF IInv
<1> QED BY <1>1, Invariance, PTL

(* Theorem: a listened ID cannot be reported offline (Wait.h:93).          *)
THEOREM PresenceCorrect == Spec => []OnlineWhileListened
<1>1. IInv => OnlineWhileListened
  BY DEF IInv
<1> QED BY <1>1, Invariance, PTL

(* Theorem: an ID that is listed online still has a connection whose close *)
(* starts its timer (Realplexor.h:211).                                    *)
THEOREM OfflineWillCome == Spec => []StoppedHasCloser
<1>1. IInv => StoppedHasCloser
  BY DEF IInv
<1> QED BY <1>1, Invariance, PTL

(* Theorem: no queue is kept in memory without a cleanup timer.            *)
THEOREM QueuesAreReaped == Spec => []QueueHasReaper
<1>1. IInv => QueueHasReaper
  BY DEF IInv
<1> QED BY <1>1, Invariance, PTL

----------------------------------------------------------------------------
(* The server implements Presence.                                         *)

(* The position of k in S, counted from 1.                                 *)
Rank(S, k) == Cardinality({j \in S : j <= k})

(* Lemma: a set of positions is finite, and the ranks number its members.  *)
LEMMA RanksNumber ==
  ASSUME NEW n \in Nat, NEW S, S \subseteq 1 .. n
  PROVE  /\ IsFiniteSet(S) /\ Cardinality(S) \in Nat
         /\ [k \in S |-> Rank(S, k)] \in Bijection(S, 1 .. Cardinality(S))
<1> DEFINE Below(k) == {j \in S : j <= k}
           m == Cardinality(S)
           rank == [k \in S |-> Rank(S, k)]
<1>1. IsFiniteSet(S) /\ m \in Nat
  <2>1. IsFiniteSet(1 .. n)
    BY FS_Interval, 1 \in Int, n \in Int
  <2> QED BY <2>1, FS_Subset, FS_CardinalityType
<1>2. ASSUME NEW k \in S PROVE Rank(S, k) \in 1 .. m
  <2>1. Below(k) \subseteq S /\ k \in Below(k)
    OBVIOUS
  <2>2. /\ IsFiniteSet(Below(k)) /\ Cardinality(Below(k)) \in Nat
        /\ Cardinality(Below(k)) <= m
    BY <1>1, <2>1, FS_Subset, FS_CardinalityType
  <2>3. Cardinality(Below(k)) # 0
    <3>1. \A B : IsFiniteSet(B) /\ B # {} => Cardinality(B) # 0
      BY FS_EmptySet, Zenon
    <3>2. Below(k) # {}
      BY <2>1
    <3> QED BY <2>2, <3>1, <3>2
  <2> QED BY <1>1, <2>2, <2>3 DEF Rank
<1>3. ASSUME NEW j \in S, NEW k \in S, j < k PROVE Rank(S, j) # Rank(S, k)
  <2>1. Below(j) \subseteq Below(k) /\ k \in Below(k) /\ k \notin Below(j)
    <3>1. \A i \in S : i \in Nat
      OBVIOUS
    <3>2. j \in Nat /\ k \in Nat /\ ~ (k <= j) /\ k <= k
      BY <1>3, <3>1
    <3>3. ASSUME NEW i \in S, i <= j PROVE i <= k
      BY <1>3, <3>1, <3>2, <3>3
    <3> QED BY <3>2, <3>3
  <2>2. IsFiniteSet(Below(k))
    BY <1>1, FS_Subset
  <2>3. Cardinality(Below(k)) = Cardinality(Below(j)) => Below(k) = Below(j)
    BY <2>1, <2>2, FS_Subset
  <2> QED BY <2>1, <2>3 DEF Rank
<1>4. rank \in [S -> 1 .. m]
  BY <1>2
<1>5. \A j, k \in S : rank[j] = rank[k] => j = k
  <2> SUFFICES ASSUME NEW j \in S, NEW k \in S, j # k PROVE Rank(S, j) # Rank(S, k)
    OBVIOUS
  <2>1. j < k \/ k < j
    OBVIOUS
  <2> QED BY <1>3, <2>1
<1> HIDE DEF rank, m
<1>6. rank \in Injection(S, 1 .. m)
  BY <1>4, <1>5, Fun_IsInj
<1>7. IsFiniteSet(1 .. m) /\ Cardinality(1 .. m) = m
  <2>1. 1 \in Int /\ m \in Int
    BY <1>1
  <2>2. Cardinality(1 .. m) = IF 1 > m THEN 0 ELSE m - 1 + 1
    BY <2>1, FS_Interval
  <2> QED BY <1>1, <2>1, <2>2, FS_Interval
<1>8. rank \in Surjection(S, 1 .. m)
  BY <1>6, <1>7, FS_Injection DEF m
<1> QED
  BY <1>1, <1>6, <1>8, Fun_IsBij DEF rank, m

(* Lemma: a non-empty set of positions has a first one.                    *)
LEMMA FirstPosition ==
  ASSUME NEW n \in Nat, NEW S, S \subseteq 1 .. n, S # {}
  PROVE  \E k \in S : \A j \in S : k <= j
<1>1. IsWellFoundedOn(LessThan, Nat)
  BY NatLessThanWellFounded, Zenon DEF LessThan, OpToRel
<1>2. S \subseteq Nat
  OBVIOUS
<1>3. PICK k \in S : \A j \in S : <<j, k>> \notin LessThan
  BY <1>1, <1>2, WFMin, Zenon
<1>4. ASSUME NEW j \in S PROVE k <= j
  <2>1. j \in Nat /\ k \in Nat
    BY <1>2
  <2>2. ~ (j < k)
    BY <1>3, <2>1 DEF LessThan
  <2> QED BY <2>1, <2>2
<1> QED BY <1>4

----------------------------------------------------------------------------
(* Lemma: a registration notifies of each newcomer once, in the order of   *)
(* some sequence of them (Wait.h:104).                                     *)
LEMMA EventsInOrder ==
  ASSUME TypeOK, NEW pairs \in Seq(Pair)
  PROVE  /\ Cardinality(Newcomers(pairs)) \in Nat
         /\ \E ids \in [1 .. Cardinality(Newcomers(pairs)) -> Newcomers(pairs)] :
              /\ {ids[k] : k \in DOMAIN ids} = Newcomers(pairs)
              /\ OnlineEvents(pairs) =
                   {[cursor |-> cur_pos + k, type |-> "online", id |-> ids[k]] :
                      k \in DOMAIN ids}
<1> DEFINE N == Newcomers(pairs)
           At == {k \in DOMAIN pairs : /\ pairs[k].id \in N
                                       /\ \A j \in 1 .. k - 1 : pairs[j].id # pairs[k].id}
           m == Cardinality(At)
           named == [k \in At |-> pairs[k].id]
           rank == [k \in At |-> Rank(At, k)]
<1>1. PICK n \in Nat : DOMAIN pairs = 1 .. n
  OBVIOUS
<1>2. At \subseteq 1 .. n
  BY <1>1
<1>3. IsFiniteSet(At) /\ m \in Nat /\ rank \in Bijection(At, 1 .. m)
  <2> HIDE DEF At
  <2> QED BY <1>2, RanksNumber
<1>4. named \in Bijection(At, N)
  <2>1. named \in [At -> N]
    OBVIOUS
  <2>2. ASSUME NEW j \in At, NEW k \in At, named[j] = named[k] PROVE j = k
    <3>1. j \in 1 .. n /\ k \in 1 .. n /\ pairs[j].id = pairs[k].id
      BY <1>2, <2>2
    <3>2. ~ (j \in 1 .. k - 1) /\ ~ (k \in 1 .. j - 1)
      BY <3>1
    <3> QED BY <3>1, <3>2
  <2>3. ASSUME NEW id \in N PROVE \E k \in At : named[k] = id
    <3> DEFINE here == {k \in DOMAIN pairs : pairs[k].id = id}
    <3>1. here \subseteq 1 .. n /\ here # {}
      BY <1>1 DEF Newcomers, IdsOf
    <3>2. PICK k \in here : \A j \in here : k <= j
      <4> HIDE DEF here
      <4> QED BY <3>1, FirstPosition
    <3>3. \A j \in 1 .. k - 1 : pairs[j].id # id
      <4>1. ASSUME NEW j \in 1 .. k - 1, pairs[j].id = id PROVE FALSE
        <5>1. j \in here
          BY <1>1, <3>1, <3>2, <4>1
        <5> QED BY <3>1, <3>2, <5>1
      <4> QED BY <4>1
    <3>4. k \in At
      BY <3>2, <3>3
    <3> QED BY <3>2, <3>4
  <2> HIDE DEF named, At, N
  <2> QED BY <2>1, <2>2, <2>3, Fun_IsBij
<1>5. OnlineEvents(pairs) =
        {[cursor |-> cur_pos + rank[k], type |-> "online", id |-> named[k]] : k \in At}
  BY DEF OnlineEvents, Rank
<1> HIDE DEF At, named, rank, N
<1>6. m = Cardinality(N)
  BY <1>3, <1>4, FS_Bijection, Fun_ExistsBij DEF m
<1> HIDE DEF m
<1> DEFINE back == Inverse(rank, At, 1 .. m)
           ids == [i \in 1 .. m |-> named[back[i]]]
<1>7. back \in Bijection(1 .. m, At) /\ \A k \in At : back[rank[k]] = k
  BY <1>3, Fun_BijInverse
<1> HIDE DEF back
<1>8. ids \in Bijection(1 .. m, N)
  BY <1>4, <1>7, Fun_BijTransitive
<1>9. /\ ids \in [1 .. m -> N]
      /\ {ids[k] : k \in DOMAIN ids} = N
  <2> HIDE DEF ids
  <2>1. ids \in [1 .. m -> N] /\ \A id \in N : \E k \in 1 .. m : ids[k] = id
    BY <1>8 DEF Bijection, Surjection
  <2> QED BY <2>1
<1>10. \A k \in At : rank[k] \in 1 .. m /\ ids[rank[k]] = named[k]
  <2>1. rank \in [At -> 1 .. m]
    BY <1>3, Fun_BijectionProperties, Zenon
  <2>2. ASSUME NEW k \in At PROVE rank[k] \in 1 .. m
    BY <2>1
  <2>3. ASSUME NEW k \in At PROVE ids[rank[k]] = named[k]
    <3>1. ids[rank[k]] = named[back[rank[k]]]
      BY <2>2
    <3> QED BY <1>7, <3>1
  <2> QED BY <2>2, <2>3
<1>11. \A i \in 1 .. m : back[i] \in At /\ rank[back[i]] = i
  <2>1. \A i \in 1 .. m : \E k \in At : rank[k] = i
    BY <1>3 DEF Bijection, Surjection
  <2> QED BY <1>7, <2>1
<1>12. OnlineEvents(pairs) =
        {[cursor |-> cur_pos + i, type |-> "online", id |-> ids[i]] : i \in DOMAIN ids}
  <2> DEFINE E(i, id) == [cursor |-> cur_pos + i, type |-> "online", id |-> id]
  <2>1. ASSUME NEW k \in At PROVE \E i \in 1 .. m : E(rank[k], named[k]) = E(i, ids[i])
    BY <1>10
  <2>2. ASSUME NEW i \in 1 .. m PROVE \E k \in At : E(i, ids[i]) = E(rank[k], named[k])
    BY <1>11
  <2>3. DOMAIN ids = 1 .. m
    OBVIOUS
  <2> HIDE DEF ids, E
  <2>4. {E(rank[k], named[k]) : k \in At} = {E(i, ids[i]) : i \in 1 .. m}
    BY <2>1, <2>2
  <2> QED BY <1>5, <2>3, <2>4 DEF E
<1> QED BY <1>3, <1>6, <1>9, <1>12 DEF N

----------------------------------------------------------------------------
(* The chain ch, whose newest position is pos, tells that the IDs in on    *)
(* are online: what EventsTellPresence says of the server.                 *)
Later(ch, e) == {o \in ch : o.id = e.id /\ o.cursor > e.cursor}

Tells(ch, pos, on) ==
  \A e \in ch :
    /\ e.cursor <= pos
    /\ Later(ch, e) = {} => (e.type = "online" <=> e.id \in on)
    /\ \A o \in Later(ch, e) : (\A x \in Later(ch, e) : o.cursor <= x.cursor) => o.type # e.type

(* ids are different, they go from on to on2 as type says, and nobody      *)
(* else does.                                                              *)
Changes(m, ids, type, on, on2) ==
  /\ \A j, k \in 1 .. m : ids[j] = ids[k] => j = k
  /\ \A k \in 1 .. m : ids[k] \in on <=> type = "offline"
  /\ \A id \in Ids :
       id \in on2 <=> IF \E k \in 1 .. m : ids[k] = id THEN type = "online" ELSE id \in on

(* The events of notify.                                                   *)
NewEvents(pos, m, ids, type) ==
  {[cursor |-> pos + k, type |-> type, id |-> ids[k]] : k \in 1 .. m}

(* Lemma: notify keeps the chain telling, if the IDs it is called for are  *)
(* different and come online, or go offline, with it.                      *)
LEMMA NotifyTells ==
  ASSUME NEW ch, ch \subseteq Event, NEW pos \in Nat, NEW on, Tells(ch, pos, on),
         NEW len \in Nat, NEW m \in Nat, NEW ids \in [1 .. m -> Ids],
         NEW type \in {"online", "offline"}, NEW on2, Changes(m, ids, type, on, on2)
  PROVE  Tells(KeepRecent(ch \cup NewEvents(pos, m, ids, type), pos + m, len), pos + m, on2)
<1> DEFINE new == NewEvents(pos, m, ids, type)
<1> USE DEF Changes
<1> DEFINE kept == KeepRecent(ch \cup new, pos + m, len)
<1>1. ASSUME NEW e \in new
      PROVE  \E k \in 1 .. m : /\ e.cursor = pos + k /\ e.type = type /\ e.id = ids[k]
                                /\ e.cursor \in Nat /\ e.cursor > pos /\ e.cursor <= pos + m
  BY DEF NewEvents
<1>2. ASSUME NEW k \in 1 .. m PROVE \E e \in new : e.id = ids[k]
  <2>1. [cursor |-> pos + k, type |-> type, id |-> ids[k]] \in new
    BY DEF NewEvents
  <2> QED BY <2>1
<1>3. ASSUME NEW e \in new, NEW o \in new, e.id = o.id PROVE e.cursor = o.cursor
  BY <1>1, <1>3
<1>4. ASSUME NEW e \in ch
      PROVE  /\ e.cursor \in Nat /\ e.cursor <= pos /\ e.id \in Ids
             /\ e.type \in {"online", "offline"}
  BY DEF Tells, Event
<1> HIDE DEF new
<1>5. \A e \in kept : e \in ch \cup new
  BY DEF KeepRecent
<1>6. ASSUME NEW e \in kept, NEW o \in ch \cup new, o.cursor > e.cursor PROVE o \in kept
  BY <1>1, <1>4, <1>6 DEF KeepRecent
<1> HIDE DEF kept
<1> SUFFICES ASSUME NEW e \in kept
    PROVE  /\ e.cursor <= pos + m
           /\ Later(kept, e) = {} => (e.type = "online" <=> e.id \in on2)
           /\ \A o \in Later(kept, e) :
                (\A x \in Later(kept, e) : o.cursor <= x.cursor) => o.type # e.type
  BY DEF Tells, kept, new
<1>7. CASE e \in new
  <2>1. Later(kept, e) = {}
    BY <1>1, <1>3, <1>4, <1>5, <1>7 DEF Later
  <2>2. PICK k \in 1 .. m : e.id = ids[k] /\ e.type = type /\ e.cursor <= pos + m
    BY <1>1, <1>7
  <2> QED BY <2>1, <2>2
<1>8. CASE e \in ch /\ ~ \E k \in 1 .. m : ids[k] = e.id
  <2>1. Later(kept, e) = Later(ch, e)
    BY <1>1, <1>5, <1>6, <1>8 DEF Later
  <2>2. e.id \in on2 <=> e.id \in on
    BY <1>4, <1>8
  <2> QED BY <1>4, <1>8, <2>1, <2>2 DEF Tells
<1>9. CASE e \in ch /\ \E k \in 1 .. m : ids[k] = e.id
  <2>1. PICK n \in new : n.id = e.id
    BY <1>2, <1>9
  <2>2. n.cursor > pos /\ n.cursor \in Nat /\ n.type = type /\ n \in Later(kept, e)
    BY <1>1, <1>4, <1>6, <1>9, <2>1 DEF Later
  <2>3. \A o \in Later(kept, e) : o \in Later(ch, e) \/ (o \in new /\ o.type = type)
    BY <1>1, <1>5 DEF Later
  <2>4. Later(ch, e) \subseteq Later(kept, e)
    BY <1>6 DEF Later
  <2>5. CASE Later(ch, e) = {}
    <3>1. e.type = "online" <=> type = "offline"
      BY <1>9, <2>5 DEF Tells
    <3>2. \A o \in Later(kept, e) : o.type = type
      BY <2>3, <2>5
    <3>3. e.type # type
      BY <1>4, <1>9, <3>1
    <3> QED BY <1>4, <1>9, <2>2, <3>2, <3>3
  <2>6. CASE Later(ch, e) # {}
    <3>1. ASSUME NEW o \in Later(kept, e), \A x \in Later(kept, e) : o.cursor <= x.cursor
          PROVE  o.type # e.type
      <4>1. PICK x \in Later(ch, e) : x.cursor <= pos /\ x.cursor \in Nat
        BY <1>4, <2>6 DEF Later
      <4>2. o.cursor <= x.cursor
        BY <2>4, <3>1, <4>1
      <4>3. o \notin new
        BY <1>1, <4>1, <4>2
      <4>4. o \in Later(ch, e)
        BY <2>3, <4>3
      <4> QED BY <1>9, <2>4, <3>1, <4>4 DEF Tells
    <3> QED BY <1>4, <1>9, <2>2, <3>1
  <2> QED BY <2>5, <2>6
<1> QED BY <1>5, <1>7, <1>8, <1>9

----------------------------------------------------------------------------
(* The IDs with an online timer: variable online of module Presence.       *)
Online == {id \in Ids : online_timers[id] # "none"}

(* Lemmas: both modules count, and keep the events of a chain, alike.      *)
LEMMA SameCardinality ==
  \A S : Present!Cardinality(S) = Cardinality(S)
BY DEF Present!Cardinality, Cardinality

LEMMA SameKeepRecent ==
  \A ch, pos, len : Present!KeepRecent(ch, pos, len) = KeepRecent(ch, pos, len)
BY DEF Present!KeepRecent, KeepRecent

(* The events are those within the window, see KeepRecent.                 *)
Window == \A e \in chain : e.cursor > cur_pos - (EventChainLen + 1)

LEMMA WindowInit == Init => Window
BY DEF Init, Window

LEMMA WindowStep == TypeOK /\ Window /\ [Next]_vars => Window'
<1> SUFFICES ASSUME TypeOK, Window, [Next]_vars PROVE Window'
  OBVIOUS
<1>1. CASE UNCHANGED <<chain, cur_pos>>
  BY <1>1 DEF Window
<1>2. ASSUME NEW f \in Fhs, NEW pairs, NEW ids, Register(f, pairs, ids) PROVE Window'
  BY <1>2 DEF Register, KeepRecent, Window
<1>3. ASSUME NEW id \in Ids, OnlineTimerFires(id) PROVE Window'
  BY <1>3 DEF OnlineTimerFires, KeepRecent, Window
<1> QED BY <1>1, <1>2, <1>3 DEF Next, vars, Connect, SendScript, Close, CursorThrows, Publish,
                                CleanupTimerFires

(* Lemma: a registration is an arrival of its newcomers, or changes        *)
(* nothing a watcher sees.                                                 *)
LEMMA RegisterArrives ==
  ASSUME TypeOK, Window, NEW f \in Fhs, NEW pairs \in WaitRequests, NEW order,
         Register(f, pairs, order)
  PROVE  \/ \E ids \in Present!Newcomers : Present!Arrive(ids)
         \/ UNCHANGED <<Online, chain, cur_pos>>
<1> DEFINE N == Newcomers(pairs)
           m == Cardinality(N)
<1>1. pairs \in Seq(Pair) /\ IdsOf(pairs) \subseteq Ids
  BY WaitAssumption, NamedIds
<1>2. /\ cur_pos' = cur_pos + m
      /\ chain' = KeepRecent(chain \cup OnlineEvents(pairs), cur_pos', EventChainLen)
      /\ online_timers' = [id \in Ids |-> IF id \in IdsOf(pairs) THEN "stopped"
                                         ELSE online_timers[id]]
  BY DEF Register
<1>3. N \subseteq Ids \ Online /\ Online' = Online \cup N
  BY <1>1, <1>2 DEF Newcomers, Online
<1>4. m \in Nat
  BY <1>1, EventsInOrder
<1>5. PICK ids \in [1 .. m -> N] :
        /\ {ids[k] : k \in DOMAIN ids} = N
        /\ OnlineEvents(pairs) =
             {[cursor |-> cur_pos + k, type |-> "online", id |-> ids[k]] : k \in DOMAIN ids}
  BY <1>1, EventsInOrder
<1> HIDE DEF N
<1>6. CASE N = {}
  <2>1. m = 0
    BY <1>6, FS_EmptySet
  <2>2. OnlineEvents(pairs) = {}
    BY <1>5, <1>6
  <2>3. chain' = chain /\ cur_pos' = cur_pos
    BY <1>2, <2>1, <2>2 DEF Window, KeepRecent, TypeOK
  <2> QED BY <1>3, <1>6, <2>3
<1>7. CASE N # {}
  <2>1. ids \in Seq(N) /\ Len(ids) = m
    BY <1>4
  <2>2. ids \in Present!Newcomers
    <3>1. N \in (SUBSET (Ids \ Online)) \ {{}}
      BY <1>3, <1>7
    <3> QED BY <1>5, <3>1, SameCardinality DEF Present!Newcomers, Online, m
  <2>3. Present!notify("online", ids)
    BY <1>2, <1>5, <2>1, SameKeepRecent DEF Present!notify, Present!Noted
  <2>4. Present!Arrive(ids)
    BY <1>3, <1>5, <2>3 DEF Present!Arrive, Online
  <2> QED BY <2>2, <2>4
<1> QED BY <1>6, <1>7

(* Lemma: a timer that fires is a departure.                               *)
LEMMA TimerDeparts ==
  ASSUME TypeOK, NEW id \in Ids, OnlineTimerFires(id)
  PROVE  Present!Depart(id)
<1>1. /\ online_timers[id] = "running"
      /\ online_timers' = [online_timers EXCEPT ![id] = "none"]
      /\ cur_pos' = cur_pos + 1
      /\ chain' = KeepRecent(
           chain \cup {[cursor |-> cur_pos + 1, type |-> "offline", id |-> id]},
           cur_pos', EventChainLen)
  BY DEF OnlineTimerFires
<1>2. id \in Online /\ Online' = Online \ {id}
  BY <1>1 DEF Online, TypeOK
<1>3. /\ Len(<<id>>) = 1
      /\ {[cursor |-> cur_pos + k, type |-> "offline", id |-> <<id>>[k]] : k \in DOMAIN <<id>>}
           = {[cursor |-> cur_pos + 1, type |-> "offline", id |-> id]}
  OBVIOUS
<1>4. Present!notify("offline", <<id>>)
  BY <1>1, <1>3, SameKeepRecent DEF Present!notify, Present!Noted
<1> QED BY <1>2, <1>4 DEF Present!Depart, Online

(* Lemma: a close leaves its IDs online, with a timer or without.          *)
LEMMA CloseDepartsNot ==
  ASSUME TypeOK, NEW f \in Fhs, Close(f)
  PROVE  UNCHANGED <<Online, chain, cur_pos>>
<1>1. \A id \in Ids : online_timers'[id] = "none" <=> online_timers[id] = "none"
  BY DEF Close, TypeOK
<1> QED BY <1>1 DEF Online, Close

LEMMA CursorThrowsDepartsNot ==
  ASSUME TypeOK, NEW f \in Fhs, NEW pairs, CursorThrows(f, pairs)
  PROVE  UNCHANGED <<Online, chain, cur_pos>>
<1>1. \A id \in Ids : online_timers'[id] = "none" <=> online_timers[id] = "none"
  BY DEF CursorThrows, TypeOK
<1> QED BY <1>1 DEF Online, CursorThrows

(* The server implements module Presence (Wait.h:104, OnlineTimers.h:57):  *)
(* what watchers are told are arrivals and departures, each once and in    *)
(* order, whichever connections brought them about.                        *)
THEOREM ServerIsPresence == Spec => ImplementsPresence
<1>1. Init => Present!Init
  BY DEF Init, Present!Init, InitialPos
<1>2. TypeOK /\ Window /\ [Next]_vars => [Present!Next]_<<Online, chain, cur_pos>>
  <2> SUFFICES ASSUME TypeOK, Window, [Next]_vars
               PROVE  Present!Next \/ UNCHANGED <<Online, chain, cur_pos>>
    OBVIOUS
  <2>1. CASE UNCHANGED <<online_timers, chain, cur_pos>>
    BY <2>1 DEF Online
  <2>2. ASSUME NEW f \in Fhs, Close(f) PROVE UNCHANGED <<Online, chain, cur_pos>>
    BY <2>2, CloseDepartsNot
  <2>3. ASSUME NEW f \in Fhs, NEW pairs \in WaitRequests, NEW ids, Register(f, pairs, ids)
        PROVE  Present!Next \/ UNCHANGED <<Online, chain, cur_pos>>
    BY <2>3, RegisterArrives DEF Present!Next
  <2>4. ASSUME NEW id \in Ids, OnlineTimerFires(id) PROVE Present!Next
    BY <2>4, TimerDeparts DEF Present!Next
  <2>5. ASSUME NEW f \in Fhs, NEW pairs, CursorThrows(f, pairs)
        PROVE  UNCHANGED <<Online, chain, cur_pos>>
    BY <2>5, CursorThrowsDepartsNot
  <2> QED
    BY <2>1, <2>2, <2>3, <2>4, <2>5
    DEF Next, vars, Connect, SendScript, Publish, CleanupTimerFires
<1> QED
  BY <1>1, <1>2, TypeCorrect, WindowInit, WindowStep, PTL
  DEF Spec, ImplementsPresence, Present!Spec, Online

----------------------------------------------------------------------------
(* Lemma: the steps of Presence keep the chain telling.                    *)
LEMMA PresenceTells ==
  ASSUME TypeOK, Tells(chain, cur_pos, Online), Present!Next
  PROVE  Tells(chain, cur_pos, Online)'
<1>1. chain \subseteq Event /\ cur_pos \in Nat /\ EventChainLen \in Nat
  BY LimitsAssumption DEF TypeOK
<1>2. ASSUME NEW ids \in Present!Newcomers, Present!Arrive(ids)
      PROVE  Tells(chain, cur_pos, Online)'
  <2>1. PICK S \in SUBSET (Ids \ Online) :
          /\ ids \in [1 .. Cardinality(S) -> S]
          /\ {ids[k] : k \in DOMAIN ids} = S
    BY <1>2, SameCardinality DEF Present!Newcomers, Online
  <2> DEFINE m == Cardinality(S)
             new == NewEvents(cur_pos, m, ids, "online")
  <2>2. IsFiniteSet(S) /\ m \in Nat
    BY <2>1, IdsAssumption, FS_Subset, FS_CardinalityType
  <2>3. \A j, k \in 1 .. m : ids[j] = ids[k] => j = k
    <3>1. IsFiniteSet(1 .. m) /\ Cardinality(1 .. m) = m
      <4>1. 1 \in Int /\ m \in Int
        BY <2>2
      <4>2. Cardinality(1 .. m) = IF 1 > m THEN 0 ELSE m - 1 + 1
        BY <4>1, FS_Interval
      <4> QED BY <2>2, <4>1, <4>2, FS_Interval
    <3> HIDE DEF m
    <3>2. ids \in Surjection(1 .. m, S)
      BY <2>1 DEF m, Surjection
    <3>3. ids \in Injection(1 .. m, S)
      BY <3>1, <3>2, FS_SurjSameCardinalityImpliesInj DEF m
    <3> QED BY <3>3, Fun_InjectionProperties, Zenon
  <2> HIDE DEF m
  <2>4. DOMAIN ids = 1 .. m /\ Len(ids) = m /\ ids \in [1 .. m -> Ids]
    BY <2>1, <2>2 DEF m
  <2>5. /\ cur_pos' = cur_pos + m
        /\ chain' = KeepRecent(chain \cup new, cur_pos + m, EventChainLen)
        /\ Online' = Online \cup S
    BY <1>2, <2>1, <2>4, SameKeepRecent
    DEF Present!Arrive, Present!notify, Present!Noted, Online, NewEvents
  <2> HIDE DEF new
  <2>6. Changes(m, ids, "online", Online, Online')
    BY <2>1, <2>3, <2>4, <2>5 DEF Changes
  <2>7. Tells(KeepRecent(chain \cup new, cur_pos + m, EventChainLen), cur_pos + m, Online')
    BY <1>1, <2>2, <2>4, <2>6, NotifyTells DEF new
  <2> QED BY <2>5, <2>7
<1>3. ASSUME NEW id \in Ids, Present!Depart(id)
      PROVE  Tells(chain, cur_pos, Online)'
  <2> DEFINE ids == [k \in 1 .. 1 |-> id]
             new == NewEvents(cur_pos, 1, ids, "offline")
  <2>1. new = {[cursor |-> cur_pos + k, type |-> "offline", id |-> <<id>>[k]]
                 : k \in DOMAIN <<id>>}
    BY DEF NewEvents
  <2>2. ids \in [1 .. 1 -> Ids] /\ \A k \in 1 .. 1 : ids[k] = id
    OBVIOUS
  <2> HIDE DEF ids
  <2>3. /\ id \in Online
        /\ cur_pos' = cur_pos + 1
        /\ chain' = KeepRecent(chain \cup new, cur_pos + 1, EventChainLen)
        /\ Online' = Online \ {id}
    BY <1>3, <2>1, SameKeepRecent DEF Present!Depart, Present!notify, Present!Noted, Online
  <2> HIDE DEF new
  <2>4. Changes(1, ids, "offline", Online, Online')
    BY <2>2, <2>3 DEF Changes
  <2>5. Tells(KeepRecent(chain \cup new, cur_pos + 1, EventChainLen), cur_pos + 1, Online')
    BY <1>1, <2>2, <2>4, NotifyTells DEF new
  <2> QED BY <2>3, <2>5
<1> QED
  BY <1>2, <1>3 DEF Present!Next

(* The newest event kept for an ID says whether it is online, and its      *)
(* events alternate, in whatever order connections register, are flushed   *)
(* and close (Wait.h:104, OnlineTimers.h:57).                              *)
THEOREM EventsTell == Spec => []EventsTellPresence
<1>1. Init => Tells(chain, cur_pos, Online)
  BY DEF Init, Tells
<1>2. TypeOK /\ Tells(chain, cur_pos, Online) /\ [Present!Next]_<<Online, chain, cur_pos>>
        => Tells(chain, cur_pos, Online)'
  <2>1. UNCHANGED <<Online, chain, cur_pos>> /\ Tells(chain, cur_pos, Online)
          => Tells(chain, cur_pos, Online)'
    BY DEF Tells, Later
  <2> QED BY <2>1, PresenceTells
<1>3. TypeOK /\ Tells(chain, cur_pos, Online) => EventsTellPresence
  <2>1. TypeOK => \A e \in chain : e.id \in Ids
    BY DEF TypeOK, Event
  <2> QED BY <2>1 DEF Tells, Later, EventsTellPresence, Online
<1> QED
  BY <1>1, <1>2, <1>3, ServerIsPresence, TypeCorrect, PTL
  DEF Spec, ImplementsPresence, Present!Spec, Online

----------------------------------------------------------------------------
(* The server implements Comet: what is due to a client.                   *)

(* The cursor a client listens id from: that of the last pair for it.      *)
IsLast(pairs, id, k) ==
  /\ k \in DOMAIN pairs /\ pairs[k].id = id
  /\ \A j \in DOMAIN pairs : pairs[j].id = id => j <= k

Since(pairs, id) ==
  IF id \in IdsOf(pairs) THEN pairs[CHOOSE k \in DOMAIN pairs : IsLast(pairs, id, k)].cursor
  ELSE None

(* Every entry of connected_fhs is that cursor.                            *)
Heard(listened, pairs) ==
  \A f \in Fhs, id \in Ids : listened[id][f] = Since(pairs[f], id)

(* The items due to a client that waits with pairs from the queue of id.   *)
New(queue, pairs, id) ==
  IF Since(pairs, id) = None THEN {}
  ELSE {it \in queue : it.cursor > Since(pairs, id) /\ VisibleTo(it, IdsOf(pairs))}

(* Lemmas: what modules Comet and Realplexor instantiate twice.            *)
LEMMA SameOperators ==
  /\ \A S : Service!Cardinality(S) = Cardinality(S)
  /\ \A pairs : Service!IdsOf(pairs) = IdsOf(pairs)
  /\ \A it, S : Service!VisibleTo(it, S) = VisibleTo(it, S)
  /\ \A a, b : Service!StandsBefore(a, b) = StandsBefore(a, b)
<1>1. \A S : Service!Cardinality(S) = Cardinality(S)
  BY DEF Service!Cardinality, Cardinality
<1>2. \A pairs : Service!IdsOf(pairs) = IdsOf(pairs)
  BY DEF Service!IdsOf, IdsOf
<1>3. \A it, S : Service!VisibleTo(it, S) = VisibleTo(it, S)
  BY DEF Service!VisibleTo, VisibleTo
<1>4. \A a, b : Service!StandsBefore(a, b) = StandsBefore(a, b)
  BY DEF Service!StandsBefore, StandsBefore
<1> QED BY <1>1, <1>2, <1>3, <1>4

LEMMA SameRotation ==
  \A queue, max : Service!clean_old_data_for_id(queue, max) = clean_old_data_for_id(queue, max)
BY SameOperators DEF Service!clean_old_data_for_id, clean_old_data_for_id

LEMMA SinceIs ==
  ASSUME NEW pairs \in Seq(Pair), NEW id \in IdsOf(pairs)
  PROVE  /\ \E k \in DOMAIN pairs : IsLast(pairs, id, k) /\ Since(pairs, id) = pairs[k].cursor
         /\ Since(pairs, id) \in Nat /\ Since(pairs, id) # None
<1> DEFINE At == {k \in DOMAIN pairs : pairs[k].id = id}
           last == CHOOSE k \in DOMAIN pairs : IsLast(pairs, id, k)
<1>1. PICK n \in Nat : DOMAIN pairs = 1 .. n
  OBVIOUS
<1>2. At \subseteq 1 .. n /\ At # {}
  BY <1>1 DEF IdsOf
<1>3. PICK k \in At : \A j \in At : j <= k
  BY <1>1, <1>2, LastPosition
<1>4. IsLast(pairs, id, k)
  BY <1>3 DEF IsLast
<1>5. last \in DOMAIN pairs /\ IsLast(pairs, id, last)
  BY <1>3, <1>4
<1>6. Since(pairs, id) = pairs[last].cursor
  BY DEF Since
<1>7. pairs[last] \in Pair
  BY <1>5
<1> QED BY <1>5, <1>6, <1>7, NoneAssumption DEF Pair, Cursor

(* Lemma: listeners are registered at their last cursor.                   *)
LEMMA ListenHeard ==
  ASSUME NEW pairs \in Seq(Pair), NEW id \in IdsOf(pairs), NEW f \in Fhs, id \in Ids,
         connected_fhs[id] \in [Fhs -> Cursor \cup {None}]
  PROVE  Listen(connected_fhs, f, pairs)[id] = [connected_fhs[id] EXCEPT ![f] = Since(pairs, id)]
<1> DEFINE At == {k \in DOMAIN pairs : pairs[k].id = id}
           last == CHOOSE k \in At : \A j \in At : j <= k
<1>1. PICK n \in Nat : DOMAIN pairs = 1 .. n
  OBVIOUS
<1>2. At \subseteq 1 .. n /\ At # {}
  BY <1>1 DEF IdsOf
<1>3. last \in At /\ \A j \in At : j <= last
  BY <1>1, <1>2, LastPosition
<1>4. PICK k \in DOMAIN pairs : IsLast(pairs, id, k) /\ Since(pairs, id) = pairs[k].cursor
  BY SinceIs
<1>5. k = last
  BY <1>1, <1>3, <1>4 DEF IsLast
<1>6. Listen(connected_fhs, f, pairs)[id] = [connected_fhs[id] EXCEPT ![f] = pairs[last].cursor]
  BY DEF Listen
<1> QED BY <1>4, <1>5, <1>6

(* Lemma: what send_pendings finds for a listener is new to it.            *)
LEMMA UnseenIsNew ==
  ASSUME NEW queues, NEW listened, NEW pairs, Heard(listened, pairs)
  PROVE  \A f \in Fhs, id \in Ids :
           Unseen(queues[id], listened[id], pairs, f) = New(queues[id], pairs[f], id)
BY DEF Unseen, New, Heard

(* Lemma: and so it is for module Comet.                                   *)
LEMMA NewIsNew ==
  ASSUME NEW queue, queue \subseteq Item, NEW pairs \in Seq(Pair), NEW id \in IdsOf(pairs)
  PROVE  {it \in queue : /\ Service!NewFor(it, id, pairs)
                         /\ Service!VisibleTo(it, Service!IdsOf(pairs))}
           = New(queue, pairs, id)
<1>1. PICK k \in DOMAIN pairs : IsLast(pairs, id, k) /\ Since(pairs, id) = pairs[k].cursor
  BY SinceIs
<1>2. Since(pairs, id) \in Nat /\ Since(pairs, id) # None
  BY SinceIs
<1>3. PICK n \in Nat : DOMAIN pairs = 1 .. n
  OBVIOUS
<1>4. ASSUME NEW it \in queue
      PROVE  Service!NewFor(it, id, pairs) <=> it.cursor > Since(pairs, id)
  <2>1. it.cursor \in Nat
    BY DEF Item, Cursor
  <2>2. \A j \in DOMAIN pairs : IsLast(pairs, id, j) => j = k
    BY <1>1, <1>3 DEF IsLast
  <2>3. Service!NewFor(it, id, pairs) <=>
          \E j \in DOMAIN pairs : IsLast(pairs, id, j) /\ pairs[j].cursor < it.cursor
    BY DEF Service!NewFor, IsLast
  <2>4. Service!NewFor(it, id, pairs) <=> Since(pairs, id) < it.cursor
    BY <1>1, <2>2, <2>3
  <2> QED BY <1>2, <2>1, <2>4
<1> QED BY <1>2, <1>4, SameOperators DEF New

----------------------------------------------------------------------------
(* Blocks are made of new items.                                           *)
CursorsOf(items, d) == {it.cursor : it \in {i \in items : i.rdata = d}}
Lowest(S) == CHOOSE x \in S : \A y \in S : x <= y

(* Lemma: the blocks due to a client, by the items that are new to it.     *)
LEMMA DueIs ==
  ASSUME NEW queues \in [Ids -> SUBSET Item], NEW pairs \in Seq(Pair)
  PROVE  Service!Due(queues, pairs) =
           {[rdata |-> d,
             ids |-> [id \in {i \in IdsOf(pairs) : CursorsOf(New(queues[i], pairs, i), d) # {}} |->
                        Lowest(CursorsOf(New(queues[id], pairs, id), d))]] :
             d \in {it.rdata : it \in UNION {New(queues[id], pairs, id) : id \in IdsOf(pairs)}}}
<1> DEFINE N(id) == {it \in queues[id] : Service!NewFor(it, id, pairs)
                                         /\ Service!VisibleTo(it, Service!IdsOf(pairs))}
<1>1. \A id \in IdsOf(pairs) : N(id) = New(queues[id], pairs, id)
  BY NamedIds, NewIsNew
<1>2. Service!IdsOf(pairs) = IdsOf(pairs)
  BY SameOperators
<1>3. Service!Due(queues, pairs) =
           {[rdata |-> d,
             ids |-> [id \in {i \in IdsOf(pairs) : CursorsOf(N(i), d) # {}} |->
                        Lowest(CursorsOf(N(id), d))]] :
             d \in {it.rdata : it \in UNION {N(id) : id \in IdsOf(pairs)}}}
  BY <1>2 DEF Service!Due, CursorsOf, Lowest
<1> HIDE DEF N
<1> DEFINE M(id) == New(queues[id], pairs, id)
<1>4. \A id \in IdsOf(pairs) : N(id) = M(id)
  BY <1>1
<1>5. UNION {N(id) : id \in IdsOf(pairs)} = UNION {M(id) : id \in IdsOf(pairs)}
  BY <1>4, Zenon
<1>6. \A d : [id \in {i \in IdsOf(pairs) : CursorsOf(N(i), d) # {}} |->
                        Lowest(CursorsOf(N(id), d))]
           = [id \in {i \in IdsOf(pairs) : CursorsOf(M(i), d) # {}} |->
                        Lowest(CursorsOf(M(id), d))]
  <2> HIDE DEF M
  <2> TAKE d
  <2>1. {i \in IdsOf(pairs) : CursorsOf(N(i), d) # {}}
          = {i \in IdsOf(pairs) : CursorsOf(M(i), d) # {}}
    BY <1>4
  <2> QED BY <1>4, <2>1
<1> QED
  <2> HIDE DEF M
  <2>1. Service!Due(queues, pairs) =
           {[rdata |-> d,
             ids |-> [id \in {i \in IdsOf(pairs) : CursorsOf(M(i), d) # {}} |->
                        Lowest(CursorsOf(M(id), d))]] :
             d \in {it.rdata : it \in UNION {M(id) : id \in IdsOf(pairs)}}}
    BY <1>3, <1>5, <1>6
  <2> QED BY <2>1 DEF M

(* Variables waiting and answer of module Comet.                           *)
Waiting == [f \in Fhs |-> IF conn[f] = "open" THEN wait_pairs[f] ELSE <<>>]
Told(blocks) == {[rdata |-> x.rdata, ids |-> x.ids] : x \in blocks}
Answer == [f \in Fhs |-> Told(sent[f])]

(* Nothing is due to a client at other IDs than ids.                       *)
Covers(ids, queues, pairs) ==
  /\ Listed(ids) \subseteq Ids
  /\ \A id \in Ids \ Listed(ids) : New(queues[id], pairs, id) = {}

(* Lemma: all that is due to a client is found at the IDs of the request,  *)
(* if nothing is due to it elsewhere.                                      *)
LEMMA BlocksAreDue ==
  ASSUME NEW queues \in [Ids -> SUBSET Item], NEW pairs \in [Fhs -> Seq(Pair)], NEW listened,
         Heard(listened, pairs), NEW ids, NEW f \in Fhs, Covers(ids, queues, pairs[f])
  PROVE  /\ Told(Blocks(ids, queues, listened, pairs, f)) = Service!Due(queues, pairs[f])
         /\ f \in Flushed(ids, queues, listened, pairs) => Service!Due(queues, pairs[f]) # {}
         /\ Service!Due(queues, pairs[f]) # {} => f \in Flushed(ids, queues, listened, pairs)
<1> USE DEF Covers
<1> DEFINE P == pairs[f]
           U(id) == Unseen(queues[id], listened[id], pairs, f)
           M(id) == New(queues[id], P, id)
           Here(d) == {i \in Listed(ids) : CursorsOf(U(i), d) # {}}
           There(d) == {i \in IdsOf(P) : CursorsOf(M(i), d) # {}}
           HereData == {it.rdata : it \in UNION {U(id) : id \in Listed(ids)}}
           ThereData == {it.rdata : it \in UNION {M(id) : id \in IdsOf(P)}}
<1>1. P \in Seq(Pair) /\ IdsOf(P) \subseteq Ids
  BY NamedIds
<1>2. \A id \in Listed(ids) : U(id) = M(id)
  BY UnseenIsNew
<1>3. \A id \in Ids : M(id) # {} => id \in Listed(ids) /\ id \in IdsOf(P)
  BY DEF New, Since
<1>4. Told(Blocks(ids, queues, listened, pairs, f)) =
        {[rdata |-> d, ids |-> [id \in Here(d) |-> Lowest(CursorsOf(U(id), d))]] : d \in HereData}
  <2> DEFINE At(d) == {k \in DOMAIN ids : CursorsOf(U(ids[k]), d) # {}}
             first(d) == ids[CHOOSE k \in At(d) : \A j \in At(d) : k <= j]
             top(d) == CHOOSE c \in CursorsOf(U(first(d)), d) :
                         \A x \in CursorsOf(U(first(d)), d) : x <= c
             Named(d) == {ids[k] : k \in At(d)}
             names(d) == [id \in Here(d) |-> Lowest(CursorsOf(U(id), d))]
  <2>1. Blocks(ids, queues, listened, pairs, f) =
          {[rdata |-> d, cursor |-> top(d),
            ids |-> [id \in Named(d) |-> Lowest(CursorsOf(U(id), d))]] : d \in HereData}
    BY DEF Blocks, CursorsOf, Lowest
  <2>2. \A d : Named(d) = Here(d)
    <3> HIDE DEF U
    <3> QED BY DEF Listed
  <2>3. Blocks(ids, queues, listened, pairs, f) =
          {[rdata |-> d, cursor |-> top(d), ids |-> names(d)] : d \in HereData}
    <3> HIDE DEF top, U, Named, Here, HereData
    <3> QED BY <2>1, <2>2
  <2> HIDE DEF top, names, HereData
  <2>4. Told(Blocks(ids, queues, listened, pairs, f)) =
          {[rdata |-> d, ids |-> names(d)] : d \in HereData}
    <3> DEFINE block(d) == [rdata |-> d, cursor |-> top(d), ids |-> names(d)]
    <3>1. \A d : block(d).rdata = d /\ block(d).ids = names(d)
      OBVIOUS
    <3>2. Blocks(ids, queues, listened, pairs, f) = {block(d) : d \in HereData}
      BY <2>3
    <3> HIDE DEF block
    <3>3. Told({block(d) : d \in HereData})
            = {[rdata |-> block(d).rdata, ids |-> block(d).ids] : d \in HereData}
      BY DEF Told
    <3> QED BY <3>1, <3>2, <3>3
  <2> QED BY <2>4 DEF names
<1>5. Service!Due(queues, P) =
        {[rdata |-> d, ids |-> [id \in There(d) |-> Lowest(CursorsOf(M(id), d))]] : d \in ThereData}
  BY <1>1, DueIs
<1> HIDE DEF U, M, P
<1>6. \A d : Here(d) = There(d)
  BY <1>1, <1>2, <1>3 DEF CursorsOf
<1>7. HereData = ThereData
  BY <1>1, <1>2, <1>3
<1>8. \A d : [id \in Here(d) |-> Lowest(CursorsOf(U(id), d))]
              = [id \in There(d) |-> Lowest(CursorsOf(M(id), d))]
  <2> TAKE d
  <2>1. \A id \in Here(d) : U(id) = M(id)
    BY <1>2
  <2> HIDE DEF Here, There
  <2> QED BY <1>6, <2>1
<1>9. f \in Flushed(ids, queues, listened, pairs) <=> \E id \in Listed(ids) : U(id) # {}
  BY DEF Flushed, U
<1>10. Service!Due(queues, P) # {} <=> ThereData # {}
  <2> HIDE DEF ThereData, There
  <2> QED BY <1>5
<1>11. ThereData # {} <=> \E id \in Listed(ids) : U(id) # {}
  <2>1. HereData # {} <=> \E id \in Listed(ids) : U(id) # {}
    <3>1. ASSUME NEW id \in Listed(ids), U(id) # {} PROVE HereData # {}
      <4>1. PICK it \in U(id) : TRUE
        BY <3>1
      <4>2. it.rdata \in HereData
        BY <4>1
      <4> QED BY <4>2
    <3>2. ASSUME HereData # {} PROVE \E id \in Listed(ids) : U(id) # {}
      BY <3>2
    <3> QED BY <3>1, <3>2
  <2> QED BY <1>7, <2>1
<1> QED
  <2> HIDE DEF Here, There, HereData, ThereData
  <2>1. Told(Blocks(ids, queues, listened, pairs, f)) = Service!Due(queues, P)
    BY <1>4, <1>5, <1>7, <1>8
  <2> QED BY <1>9, <1>10, <1>11, <2>1 DEF P

(* Nothing is found at other IDs than ids, and no listener was sent        *)
(* anything yet.                                                           *)
Quiet(ids, queues, listened, pairs) ==
  \A f \in Fhs : \A id \in Ids \ Listed(ids) :
    Unseen(queues[id], listened[id], pairs, f) = {}

Unanswered(pairs) == \A f \in Fhs : pairs[f] # <<>> => sent[f] = {}

(* Everybody who has something due from queues is answered.                *)
Settled(queues, pairs) ==
  /\ data_to_send' = queues
  /\ Waiting' = [f \in Fhs |-> IF Service!Due(queues, pairs[f]) # {} THEN <<>> ELSE pairs[f]]
  /\ Answer' = [f \in Fhs |-> IF Service!Due(queues, pairs[f]) # {}
                              THEN Service!Due(queues, pairs[f]) ELSE Answer[f]]

(* Lemma: a handler that ends in send_pendings answers as Settle says.     *)
LEMMA SendPendingsSettles ==
  ASSUME NEW queues \in [Ids -> SUBSET Item], NEW pairs \in [Fhs -> Seq(Pair)], NEW listened,
         Heard(listened, pairs), NEW ids, Listed(ids) \subseteq Ids,
         send_pendings(ids, queues, listened, pairs), Unanswered(pairs),
         Quiet(ids, queues, listened, pairs), Waiting' = pairs_by_fhs'
  PROVE  Settled(Rotate(ids, queues), pairs)
<1> USE DEF Quiet, Unanswered
<1> DEFINE q == Rotate(ids, queues)
           fs == Flushed(ids, q, listened, pairs)
           due(f) == Service!Due(q, pairs[f])
<1>1. /\ data_to_send' = q
      /\ pairs_by_fhs' = [f \in Fhs |-> IF f \in fs THEN <<>> ELSE pairs[f]]
      /\ sent' = [f \in Fhs |-> IF f \in fs THEN sent[f] \cup Blocks(ids, q, listened, pairs, f)
                                ELSE sent[f]]
  BY DEF send_pendings
<1>2. q \in [Ids -> SUBSET Item] /\ \A id \in Ids \ Listed(ids) : q[id] = queues[id]
  BY RotationDrops
<1> HIDE DEF q
<1>3. ASSUME NEW f \in Fhs
      PROVE  /\ Told(Blocks(ids, q, listened, pairs, f)) = due(f)
             /\ f \in fs <=> due(f) # {}
  <2>1. \A id \in Ids \ Listed(ids) : New(queues[id], pairs[f], id) = {}
    BY UnseenIsNew
  <2>2. Covers(ids, q, pairs[f])
    BY <1>2, <2>1 DEF Covers
  <2> HIDE DEF fs
  <2>3. Told(Blocks(ids, q, listened, pairs, f)) = Service!Due(q, pairs[f])
    BY <1>2, <2>2, BlocksAreDue
  <2>4. f \in Flushed(ids, q, listened, pairs) => Service!Due(q, pairs[f]) # {}
    BY <1>2, <2>2, BlocksAreDue
  <2>5. Service!Due(q, pairs[f]) # {} => f \in Flushed(ids, q, listened, pairs)
    BY <1>2, <2>2, BlocksAreDue
  <2> QED BY <1>1, <2>3, <2>4, <2>5 DEF fs
<1>4. ASSUME NEW f \in fs PROVE f \in Fhs /\ sent[f] = {}
  <2>1. PICK id \in Listed(ids) : Unseen(q[id], listened[id], pairs, f) # {}
    BY DEF Flushed
  <2>2. f \in Fhs
    BY DEF Flushed
  <2>3. New(q[id], pairs[f], id) # {}
    BY <2>1, <2>2, UnseenIsNew
  <2>4. IdsOf(pairs[f]) # {}
    BY <2>3 DEF New, Since
  <2>5. pairs[f] # <<>>
    BY <2>4 DEF IdsOf
  <2> QED BY <2>2, <2>5
<1> HIDE DEF fs, due
<1>5. \A f \in Fhs : Told(sent'[f]) = IF due(f) # {} THEN due(f) ELSE Told(sent[f])
  BY <1>1, <1>3, <1>4
<1>6. Waiting' = [f \in Fhs |-> IF due(f) # {} THEN <<>> ELSE pairs[f]]
  BY <1>1, <1>3
<1>7. Answer' = [f \in Fhs |-> IF due(f) # {} THEN due(f) ELSE Answer[f]]
  BY <1>5 DEF Answer
<1> QED BY <1>1, <1>6, <1>7 DEF due, q, Settled

----------------------------------------------------------------------------
(* The invariant the refinement rests on.                                  *)

(* A queue is as the last rotation left it.                                *)
Kept(queue) == IsFiniteSet(queue) /\ clean_old_data_for_id(queue, MaxDataForId) = queue

(* Queues are rotated, listeners registered as they asked, and an open     *)
(* connection has been sent nothing yet.                                   *)
SInv ==
  /\ \A id \in Ids : Kept(data_to_send[id])
  /\ Heard(connected_fhs, pairs_by_fhs)
  /\ DOMAIN sent = Fhs
  /\ \A f \in Fhs : /\ conn[f] = "open" => pairs_by_fhs[f] = wait_pairs[f]
                    /\ conn[f] # "shut" => sent[f] = {}
                    /\ conn[f] = "free" => wait_pairs[f] = <<>>

(* Lemma: rotating once is enough.                                         *)
LEMMA RotatedIsKept ==
  ASSUME NEW queue, IsFiniteSet(queue)
  PROVE  Kept(clean_old_data_for_id(queue, MaxDataForId))
<1> DEFINE r == clean_old_data_for_id(queue, MaxDataForId)
           Before(q, it) == {o \in q : StandsBefore(o, it)}
<1>1. r = {it \in queue : Cardinality(Before(queue, it)) < MaxDataForId}
  BY DEF clean_old_data_for_id
<1>2. clean_old_data_for_id(r, MaxDataForId)
        = {it \in r : Cardinality(Before(r, it)) < MaxDataForId}
  BY DEF clean_old_data_for_id
<1> HIDE DEF r
<1>3. ASSUME NEW it \in r PROVE Cardinality(Before(r, it)) < MaxDataForId
  <2>1. Before(r, it) \subseteq Before(queue, it) /\ Before(queue, it) \subseteq queue
    BY <1>1
  <2>2. Cardinality(Before(queue, it)) < MaxDataForId
    BY <1>1
  <2> HIDE DEF Before
  <2>3. IsFiniteSet(Before(queue, it))
    BY <2>1, FS_Subset
  <2>4. IsFiniteSet(Before(r, it)) /\ Cardinality(Before(r, it)) <= Cardinality(Before(queue, it))
    BY <2>1, <2>3, FS_Subset
  <2>5. Cardinality(Before(r, it)) \in Nat /\ Cardinality(Before(queue, it)) \in Nat
    BY <2>3, <2>4, FS_CardinalityType
  <2> QED BY <2>2, <2>4, <2>5, LimitsAssumption
<1>4. r \subseteq queue
  BY <1>1
<1>5. IsFiniteSet(r)
  BY <1>4, FS_Subset
<1> HIDE DEF Before
<1>6. clean_old_data_for_id(r, MaxDataForId) = r
  BY <1>2, <1>3
<1> QED BY <1>5, <1>6 DEF Kept, r

(* Lemma: a publication adds finitely many items, to its own IDs.          *)
LEMMA ItemsAreFinite ==
  ASSUME NEW req \in InRequests, NEW id \in Ids, NEW d
  PROVE  /\ IsFiniteSet(ItemsFor(id, req, d))
         /\ id \notin Listed(OwnIds(req)) => ItemsFor(id, req, d) = {}
<1> DEFINE S == {j \in DOMAIN req.pairs : req.pairs[j].id = id /\ id \in req.owned}
           item(k) == [cursor |-> req.pairs[k].cursor, rdata |-> d, nth |-> k,
                       limit_ids |-> req.limit_ids]
<1>1. req.pairs \in Seq(Pair)
  BY InAssumption
<1>2. PICK n \in Nat : DOMAIN req.pairs = 1 .. n
  BY <1>1
<1>3. IsFiniteSet(S)
  <2>1. IsFiniteSet(1 .. n)
    BY FS_Interval, 1 \in Int, n \in Int
  <2> QED BY <1>2, <2>1, FS_Subset
<1>4. ItemsFor(id, req, d) = {item(k) : k \in S}
  BY DEF ItemsFor
<1>5. IsFiniteSet({item(k) : k \in S})
  <2> HIDE DEF S, item
  <2>1. [k \in S |-> item(k)] \in Surjection(S, {item(k) : k \in S})
    BY DEF Surjection
  <2> QED BY <1>3, <2>1, FS_Surjection
<1>6. id \notin Listed(OwnIds(req)) => ItemsFor(id, req, d) = {}
  BY DEF ItemsFor, OwnIds, Listed
<1> QED BY <1>4, <1>5, <1>6

(* Lemma: a handler that ends in send_pendings keeps the invariant.        *)
LEMMA SendPendingsSInv ==
  ASSUME NEW queues, NEW listened, NEW pairs, NEW ids,
         send_pendings(ids, queues, listened, pairs), Heard(listened, pairs),
         \A id \in Ids : IsFiniteSet(queues[id]) /\ (id \notin Listed(ids) => Kept(queues[id])),
         \A f \in Fhs : /\ conn[f] = "open" => pairs[f] = wait_pairs'[f]
                        /\ conn[f] # "shut" => sent[f] = {}
                        /\ conn[f] = "free" => wait_pairs'[f] = <<>>
  PROVE  SInv'
<1> DEFINE fs == Flushed(ids, Rotate(ids, queues), listened, pairs)
<1>1. /\ data_to_send' = Rotate(ids, queues)
      /\ connected_fhs' = Forget(listened, pairs, fs)
      /\ pairs_by_fhs' = [f \in Fhs |-> IF f \in fs THEN <<>> ELSE pairs[f]]
      /\ conn' = [f \in Fhs |-> IF f \in fs THEN "shut" ELSE conn[f]]
      /\ DOMAIN sent' = Fhs /\ \A f \in Fhs : f \notin fs => sent'[f] = sent[f]
  BY DEF send_pendings
<1> HIDE DEF fs
<1>2. \A id \in Ids : Kept(data_to_send'[id])
  BY <1>1, RotatedIsKept DEF Rotate
<1>3. ASSUME NEW f \in Fhs, NEW id \in Ids
      PROVE  connected_fhs'[id][f] = Since(pairs_by_fhs'[f], id)
  <2>1. CASE f \in fs
    <3>1. Since(pairs_by_fhs'[f], id) = None
      BY <1>1, <2>1 DEF Since, IdsOf
    <3>2. connected_fhs'[id][f] = None
      BY <1>1, <2>1 DEF Forget, Heard, Since
    <3> QED BY <3>1, <3>2
  <2>2. CASE f \notin fs
    BY <1>1, <2>2 DEF Forget, Heard
  <2> QED BY <2>1, <2>2
<1>4. \A f \in Fhs : /\ conn'[f] = "open" => pairs_by_fhs'[f] = wait_pairs'[f]
                     /\ conn'[f] # "shut" => sent'[f] = {}
                     /\ conn'[f] = "free" => wait_pairs'[f] = <<>>
  BY <1>1
<1> QED BY <1>1, <1>2, <1>3, <1>4 DEF SInv, Heard

(* Lemma: a registration is heard as it asks.                              *)
LEMMA RegisterHeard ==
  ASSUME TypeOK, SInv, NEW f \in Fhs, NEW pairs \in Seq(Pair), pairs_by_fhs[f] = <<>>
  PROVE  Heard(Listen(connected_fhs, f, pairs), [pairs_by_fhs EXCEPT ![f] = pairs])
<1> DEFINE listened == Listen(connected_fhs, f, pairs)
           listed == [pairs_by_fhs EXCEPT ![f] = pairs]
<1> SUFFICES ASSUME NEW g \in Fhs, NEW id \in Ids
             PROVE  listened[id][g] = Since(listed[g], id)
  BY DEF Heard
<1>1. connected_fhs[id][g] = Since(pairs_by_fhs[g], id)
  BY DEF SInv, Heard
<1>2. connected_fhs[id] \in [Fhs -> Cursor \cup {None}]
  BY DEF TypeOK
<1>3. listed[g] = IF g = f THEN pairs ELSE pairs_by_fhs[g]
  BY DEF TypeOK
<1>4. CASE id \in IdsOf(pairs)
  <2>1. listened[id] = [connected_fhs[id] EXCEPT ![f] = Since(pairs, id)]
    BY <1>2, <1>4, ListenHeard
  <2> HIDE DEF listened, listed
  <2> QED BY <1>1, <1>2, <1>3, <2>1
<1>5. CASE id \notin IdsOf(pairs)
  <2>1. listened[id] = connected_fhs[id]
    BY <1>5 DEF Listen
  <2>2. Since(<<>>, id) = None /\ Since(pairs, id) = None
    BY <1>5 DEF Since, IdsOf
  <2> QED BY <1>1, <1>3, <2>1, <2>2
<1> QED BY <1>4, <1>5

LEMMA SInvStep ==
  ASSUME IInv, IInv', SInv, [Next]_vars
  PROVE  SInv'
<1> USE DEF IInv
<1>1. ASSUME NEW f \in Fhs, NEW pairs \in WaitRequests, NEW ids \in Orders(IdsOf(pairs)),
             Register(f, pairs, ids)
      PROVE  SInv'
  <2> DEFINE listened == Listen(connected_fhs, f, pairs)
             listed == [pairs_by_fhs EXCEPT ![f] = pairs]
  <2>1. /\ pairs \in Seq(Pair) /\ conn[f] = "open" /\ wait_pairs[f] = <<>>
        /\ wait_pairs' = [wait_pairs EXCEPT ![f] = pairs]
        /\ send_pendings(ids, data_to_send, listened, listed)
    BY <1>1, WaitAssumption DEF Register
  <2>2. pairs_by_fhs[f] = <<>>
    BY <2>1 DEF SInv
  <2>3. Heard(listened, listed)
    BY <2>1, <2>2, RegisterHeard
  <2>4. \A g \in Fhs : /\ conn[g] = "open" => listed[g] = wait_pairs'[g]
                       /\ conn[g] # "shut" => sent[g] = {}
                       /\ conn[g] = "free" => wait_pairs'[g] = <<>>
    BY <2>1 DEF SInv, TypeOK
  <2>5. \A id \in Ids : Kept(data_to_send[id]) /\ IsFiniteSet(data_to_send[id])
    BY DEF SInv, Kept
  <2> HIDE DEF listened, listed
  <2> QED BY <2>1, <2>3, <2>4, <2>5, SendPendingsSInv
<1>2. ASSUME NEW req \in InRequests, Publish(req) PROVE SInv'
  <2> DEFINE ids == OwnIds(req)
             items(id) == ItemsFor(id, req, published + 1)
             queues == [id \in Ids |-> data_to_send[id] \cup items(id)]
  <2>1. send_pendings(ids, queues, connected_fhs, pairs_by_fhs) /\ wait_pairs' = wait_pairs
    BY <1>2 DEF Publish
  <2>2. ASSUME NEW id \in Ids
        PROVE  IsFiniteSet(queues[id]) /\ (id \notin Listed(ids) => Kept(queues[id]))
    <3>1. IsFiniteSet(items(id)) /\ (id \notin Listed(ids) => items(id) = {})
      BY <1>2, ItemsAreFinite
    <3>2. Kept(data_to_send[id]) /\ IsFiniteSet(data_to_send[id])
      BY DEF SInv, Kept
    <3> HIDE DEF items, ids
    <3>3. queues[id] = data_to_send[id] \cup items(id)
      OBVIOUS
    <3>4. IsFiniteSet(queues[id])
      BY <3>1, <3>2, <3>3, FS_Union
    <3>5. items(id) = {} => queues[id] = data_to_send[id]
      BY <3>3
    <3> QED BY <3>1, <3>2, <3>4, <3>5
  <2> HIDE DEF queues, ids
  <2> QED BY <2>1, <2>2, SendPendingsSInv DEF SInv
<1>3. ASSUME NEW f \in Fhs, Close(f) PROVE SInv'
  <2>1. /\ connected_fhs' = Forget(connected_fhs, wait_pairs, {f})
        /\ pairs_by_fhs' = [pairs_by_fhs EXCEPT ![f] = <<>>]
        /\ conn' = [conn EXCEPT ![f] = "free"]
        /\ wait_pairs' = [wait_pairs EXCEPT ![f] = <<>>]
        /\ sent' = [sent EXCEPT ![f] = {}]
        /\ data_to_send' = data_to_send
    BY <1>3 DEF Close
  <2>2. DOMAIN sent' = Fhs /\ sent'[f] = {} /\ \A g \in Fhs \ {f} : sent'[g] = sent[g]
    BY <2>1 DEF SInv
  <2>3. ASSUME NEW g \in Fhs, NEW id \in Ids
        PROVE  connected_fhs'[id][g] = Since(pairs_by_fhs'[g], id)
    <3>1. CASE g = f
      <4>1. pairs_by_fhs'[g] = <<>> /\ IdsOf(<<>>) = {}
        BY <2>1, <3>1 DEF TypeOK, IdsOf
      <4>2. ~ Listens(g, id)'
        BY <4>1 DEF IndexesAgree
      <4> QED BY <4>1, <4>2 DEF Listens, Since
    <3>2. CASE g # f
      BY <2>1, <3>2 DEF SInv, Heard, Forget, TypeOK
    <3> QED BY <3>1, <3>2
  <2>4. \A g \in Fhs : /\ conn'[g] = "open" => pairs_by_fhs'[g] = wait_pairs'[g]
                       /\ conn'[g] # "shut" => sent'[g] = {}
                       /\ conn'[g] = "free" => wait_pairs'[g] = <<>>
    BY <2>1, <2>2 DEF SInv, TypeOK
  <2> QED BY <2>1, <2>2, <2>3, <2>4 DEF SInv, Heard
<1>4. ASSUME NEW f \in Fhs, Connect(f) PROVE SInv'
  BY <1>4 DEF Connect, SInv, Heard, TypeOK, IndexesAgree
<1>5. ASSUME NEW f \in Fhs, SendScript(f) PROVE SInv'
  BY <1>5 DEF SendScript, SInv, Heard, TypeOK
<1>6. ASSUME NEW id \in Ids, CleanupTimerFires(id) PROVE SInv'
  <2>1. data_to_send' = [data_to_send EXCEPT ![id] = {}]
    BY <1>6 DEF CleanupTimerFires
  <2>2. Kept({})
    BY FS_EmptySet DEF Kept, clean_old_data_for_id
  <2>3. \A x \in Ids : Kept(data_to_send'[x])
    BY <2>1, <2>2 DEF SInv, TypeOK
  <2> QED BY <1>6, <2>3 DEF CleanupTimerFires, SInv, Heard
<1>7. ASSUME NEW id \in Ids, OnlineTimerFires(id) PROVE SInv'
  BY <1>7 DEF OnlineTimerFires, SInv, Heard
<1>8. CASE UNCHANGED vars
  BY <1>8 DEF vars, SInv, Heard
<1>9. ASSUME NEW f \in Fhs, NEW pairs, CursorThrows(f, pairs) PROVE SInv'
  BY <1>9 DEF CursorThrows, SInv, Heard, TypeOK, IndexesAgree
<1> QED BY <1>1, <1>2, <1>3, <1>4, <1>5, <1>6, <1>7, <1>8, <1>9 DEF Next

LEMMA SInvInit == Init => SInv
<1> SUFFICES ASSUME Init PROVE SInv
  OBVIOUS
<1>1. Kept({})
  BY FS_EmptySet DEF Kept, clean_old_data_for_id
<1>2. \A id : Since(<<>>, id) = None
  BY DEF Since, IdsOf
<1> QED BY <1>1, <1>2 DEF Init, SInv, Heard

----------------------------------------------------------------------------
(* The refinement.                                                         *)

(* Lemma: the waiting clients are those pairs_by_fhs lists.                *)
LEMMA WaitingIsListed ==
  /\ IInv /\ SInv => Waiting = pairs_by_fhs
  /\ IInv' /\ SInv' => Waiting' = pairs_by_fhs'
<1>1. IInv /\ SInv => Waiting = pairs_by_fhs
  BY DEF IInv, TypeOK, IndexesAgree, SInv, Waiting
<1>2. IInv' /\ SInv' => Waiting' = pairs_by_fhs'
  BY DEF IInv, TypeOK, IndexesAgree, SInv, Waiting
<1> QED BY <1>1, <1>2

(* Lemma: a registration is a Wait.                                        *)
LEMMA RegisterWaits ==
  ASSUME IInv, SInv, IInv', SInv', NEW f \in Fhs, NEW pairs \in WaitRequests,
         NEW ids \in Orders(IdsOf(pairs)), Register(f, pairs, ids)
  PROVE  Service!Wait(f, pairs)
<1> DEFINE listened == Listen(connected_fhs, f, pairs)
           listed == [pairs_by_fhs EXCEPT ![f] = pairs]
<1>1. /\ pairs \in Seq(Pair) /\ conn[f] = "open" /\ wait_pairs[f] = <<>>
      /\ Listed(ids) = IdsOf(pairs) /\ IdsOf(pairs) \subseteq Ids
      /\ send_pendings(ids, data_to_send, listened, listed)
      /\ published' = published
  BY WaitAssumption, NamedIds DEF Register
<1>2. TypeOK /\ IndexesAgree /\ NothingPending
  BY DEF IInv
<1>3. pairs_by_fhs[f] = <<>> /\ Heard(listened, listed)
  BY <1>1, <1>2, RegisterHeard DEF SInv
<1>4. data_to_send \in [Ids -> SUBSET Item] /\ listed \in [Fhs -> Seq(Pair)]
  BY <1>1, <1>2 DEF TypeOK
<1>5. Unanswered(listed)
  BY <1>1, <1>2 DEF SInv, IndexesAgree, TypeOK, Unanswered
<1>6. ASSUME NEW g \in Fhs, NEW id \in Ids \ Listed(ids)
      PROVE  Unseen(data_to_send[id], listened[id], listed, g) = {}
  <2>1. listened[id] = connected_fhs[id]
    BY <1>1 DEF Listen
  <2>2. CASE g = f
    <3>1. listed[g] = pairs
      BY <1>2, <2>2 DEF TypeOK
    <3>2. listened[id][g] = None
      BY <1>1, <1>3, <3>1 DEF Heard, Since
    <3> QED BY <3>2 DEF Unseen
  <2>3. CASE g # f
    <3>1. listed[g] = pairs_by_fhs[g]
      BY <1>2, <2>3 DEF TypeOK
    <3> QED BY <1>2, <2>1, <3>1 DEF Unseen, NothingPending
  <2> QED BY <2>2, <2>3
<1>7. Waiting = pairs_by_fhs /\ Waiting' = pairs_by_fhs'
  BY WaitingIsListed
<1>8. sent[f] = {}
  BY <1>1 DEF SInv
<1> HIDE DEF listened, listed
<1>9. Quiet(ids, data_to_send, listened, listed)
  BY <1>6 DEF Quiet
<1>10. Rotate(ids, data_to_send) = data_to_send
  BY <1>4 DEF Rotate, SInv, Kept
<1>11. Settled(Rotate(ids, data_to_send), listed)
  BY <1>1, <1>3, <1>4, <1>5, <1>7, <1>9, SendPendingsSettles
<1>12. Settled(data_to_send, listed)
  BY <1>10, <1>11
<1>13. Settled(data_to_send, [Waiting EXCEPT ![f] = pairs])
  <2> DEFINE waiting == [Waiting EXCEPT ![f] = pairs]
  <2>1. waiting = listed
    BY <1>7 DEF listed
  <2> HIDE DEF waiting
  <2>2. Settled(data_to_send, waiting)
    BY <1>12, <2>1 DEF Settled
  <2> QED BY <2>2 DEF waiting
<1>14. Waiting[f] = <<>> /\ Answer[f] = {}
  BY <1>3, <1>7, <1>8 DEF Answer, Told
<1> QED BY <1>1, <1>13, <1>14 DEF Settled, Service!Wait, Service!Settle, Waiting, Answer, Told

(* Lemma: a publication is a Send.                                         *)
LEMMA PublishSends ==
  ASSUME IInv, SInv, IInv', SInv', NEW req \in InRequests, Publish(req)
  PROVE  Service!Send(req)
<1> DEFINE ids == OwnIds(req)
           items(id) == ItemsFor(id, req, published')
           queues == [id \in Ids |-> data_to_send[id] \cup items(id)]
<1>1. /\ published' = published + 1
      /\ send_pendings(ids, queues, connected_fhs, pairs_by_fhs)
  BY DEF Publish
<1>2. TypeOK /\ TypeOK' /\ IndexesAgree /\ NothingPending
  BY DEF IInv
<1>3. \A id \in Ids : id \notin Listed(ids) => items(id) = {}
  BY ItemsAreFinite
<1>4. queues \in [Ids -> SUBSET Item]
  <2>1. published' \in Nat
    BY <1>2 DEF TypeOK
  <2>2. ASSUME NEW id \in Ids PROVE items(id) \subseteq Item
    <3>1. req.pairs \in Seq(Pair) /\ req.limit_ids \in SUBSET Ids
      BY InAssumption
    <3>2. \A k \in DOMAIN req.pairs : k \in Nat /\ req.pairs[k] \in Pair
      BY <3>1
    <3> QED BY <2>1, <3>1, <3>2 DEF ItemsFor, Item, Pair
  <2> HIDE DEF items
  <2> QED BY <1>2, <2>2 DEF TypeOK
<1>5. Listed(ids) \subseteq Ids
  BY NamedIds
<1>6. Unanswered(pairs_by_fhs)
  BY <1>2 DEF SInv, IndexesAgree, Unanswered
<1>7. Waiting = pairs_by_fhs /\ Waiting' = pairs_by_fhs'
  BY WaitingIsListed
<1> HIDE DEF ids, items
<1>8. \A id \in Ids : id \notin Listed(ids) => queues[id] = data_to_send[id]
  BY <1>3
<1>9. Quiet(ids, queues, connected_fhs, pairs_by_fhs)
  BY <1>2, <1>8 DEF NothingPending, Quiet
<1>10. pairs_by_fhs \in [Fhs -> Seq(Pair)] /\ Heard(connected_fhs, pairs_by_fhs)
  BY <1>2 DEF TypeOK, SInv
<1>11. Settled(Rotate(ids, queues), Waiting)
  <2> HIDE DEF queues
  <2> QED BY <1>1, <1>4, <1>5, <1>6, <1>7, <1>9, <1>10, SendPendingsSettles
<1>12. Rotate(ids, queues) = [id \in Ids |-> clean_old_data_for_id(queues[id], MaxDataForId)]
  <2>1. \A id \in Ids \ Listed(ids) :
          clean_old_data_for_id(queues[id], MaxDataForId) = queues[id]
    BY <1>8 DEF SInv, Kept
  <2> HIDE DEF queues
  <2> QED BY <2>1 DEF Rotate
<1>13. Rotate(ids, queues) =
         [id \in Ids |-> Service!clean_old_data_for_id(
            data_to_send[id] \cup
              {[cursor |-> req.pairs[k].cursor, rdata |-> published', nth |-> k,
                limit_ids |-> req.limit_ids] :
                 k \in {j \in DOMAIN req.pairs :
                          req.pairs[j].id = id /\ id \in req.owned}},
            MaxDataForId)]
  BY <1>12, SameRotation DEF items, ItemsFor
<1>14. Service!Settle(Rotate(ids, queues), Waiting)
  <2> DEFINE rotated == Rotate(ids, queues)
  <2>1. Settled(rotated, Waiting)
    BY <1>11
  <2> HIDE DEF rotated
  <2>2. Service!Settle(rotated, Waiting)
    BY <2>1 DEF Settled, Service!Settle, Waiting, Answer, Told
  <2> QED BY <2>2 DEF rotated
<1> HIDE DEF queues
<1> QED BY <1>1, <1>13, <1>14 DEF Service!Send, Waiting

(* The server implements module Comet (Common.h:127): whatever handlers    *)
(* come in between, a client is answered at the first moment something is  *)
(* due to it, with all that is due to it then, from all its IDs.           *)
THEOREM ServerIsComet == Spec => ImplementsComet
<1>1. Init => Service!Init
  BY DEF Init, Service!Init
<1>2. ASSUME IInv, SInv, IInv', SInv', [Next]_vars
      PROVE  Service!Next \/ UNCHANGED <<data_to_send, Waiting, Answer, published>>
  <2>1. ASSUME NEW f \in Fhs, NEW pairs \in WaitRequests, NEW ids \in Orders(IdsOf(pairs)),
               Register(f, pairs, ids)
        PROVE  Service!Next
    BY <1>2, <2>1, RegisterWaits DEF Service!Next
  <2>2. ASSUME NEW req \in InRequests, Publish(req) PROVE Service!Next
    BY <1>2, <2>2, PublishSends DEF Service!Next
  <2>3. ASSUME NEW f \in Fhs, Close(f) PROVE Service!Next
    <3>1. Waiting' = [Waiting EXCEPT ![f] = <<>>]
      BY <1>2, <2>3 DEF Close, Waiting, IInv, TypeOK
    <3>2. Answer' = [Answer EXCEPT ![f] = {}]
      <4>1. DOMAIN sent = Fhs /\ sent' = [sent EXCEPT ![f] = {}]
        BY <1>2, <2>3 DEF Close, SInv
      <4>2. \A g \in Fhs : Told(sent'[g]) = IF g = f THEN {} ELSE Told(sent[g])
        BY <4>1 DEF Told
      <4> QED BY <4>2 DEF Answer
    <3>3. Service!Leave(f)
      BY <2>3, <3>1, <3>2 DEF Close, Service!Leave, Waiting, Answer, Told
    <3> QED BY <3>3 DEF Service!Next
  <2>4. ASSUME NEW f \in Fhs, Connect(f)
        PROVE  UNCHANGED <<data_to_send, Waiting, Answer, published>>
    BY <1>2, <2>4 DEF Connect, Waiting, Answer, SInv, IInv, TypeOK
  <2>5. ASSUME NEW f \in Fhs, SendScript(f)
        PROVE  UNCHANGED <<data_to_send, Waiting, Answer, published>>
    BY <1>2, <2>5 DEF SendScript, Waiting, Answer, IInv, TypeOK
  <2>6. ASSUME NEW id \in Ids, CleanupTimerFires(id) PROVE Service!Next
    BY <2>6 DEF CleanupTimerFires, Service!Next, Service!Expire
  <2>7. ASSUME NEW id \in Ids, OnlineTimerFires(id)
        PROVE  UNCHANGED <<data_to_send, Waiting, Answer, published>>
    BY <2>7 DEF OnlineTimerFires, Waiting, Answer
  <2>8. CASE UNCHANGED vars
    BY <2>8 DEF vars, Waiting, Answer
  <2>9. ASSUME NEW f \in Fhs, NEW pairs, CursorThrows(f, pairs)
        PROVE  UNCHANGED <<data_to_send, Waiting, Answer, published>>
    BY <1>2, <2>9 DEF CursorThrows, Waiting, Answer, SInv, IInv, TypeOK
  <2> QED BY <1>2, <2>1, <2>2, <2>3, <2>4, <2>5, <2>6, <2>7, <2>8, <2>9 DEF Next
<1>3. IInv /\ SInv /\ IInv' /\ [Next]_vars
        => SInv' /\ [Service!Next]_<<data_to_send, Waiting, Answer, published>>
  BY <1>2, SInvStep
<1> QED
  BY <1>1, <1>3, SInvInit, Invariance, PTL
  DEF Spec, ImplementsComet, Service!Spec, Service!vars, Waiting, Answer, Told
=============================================================================
