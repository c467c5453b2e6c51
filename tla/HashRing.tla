------------------------------ MODULE HashRing ------------------------------
(***************************************************************************)
(* The consistent-hash ring every node builds for itself from a member     *)
(* list: where a member's virtual nodes fall (any placement, collisions    *)
(* included), which member keeps a contested position, and the walk that   *)
(* gives a key's preference list.                                          *)
(***************************************************************************)
EXTENDS Integers, FiniteSets, SequencesExt

CONSTANTS Ids,       \* member ids; their order is that of the integers
          Positions, \* the hash's range, 0..Positions-1
          VNodes     \* virtualNodesPerPhysical

VARIABLES pos,      \* where hashKey puts each virtual node
          ring,     \* the positions taken
          nodeMap,  \* who has each
          placed    \* the ids placed

ringVars == <<pos, ring, nodeMap, placed>>

NoNodes == [p \in {} |-> 0]
NoId == 0   \* the empty id

RingInit ==
  /\ pos \in [Ids \X (0..VNodes - 1) -> 0..Positions - 1]
  /\ ring = <<>> /\ nodeMap = NoNodes /\ placed = {}

Sorted(s) == SortSeq(s, <)

\* Faulty variant of claim: the first to claim a position keeps it.
FirstKeeps(r, id, p) ==
  IF p \in DOMAIN r.map THEN r
  ELSE [seq |-> Append(r.seq, p), map |-> r.map @@ (p :> id)]

\* One virtual node of place: a contested position goes to the lower id.
claim(r, id, p) ==
  IF p \in DOMAIN r.map
  THEN [r EXCEPT !.map[p] = IF id < @ THEN id ELSE @]
  ELSE [seq |-> Append(r.seq, p), map |-> r.map @@ (p :> id)]

place(r, id) ==
  FoldLeft(LAMBDA s, i : claim(s, id, pos[<<id, i - 1>>]), r, [i \in 1..VNodes |-> i])

\* The lists that are not refused: no id is empty, and none is there twice.
Accepted(ids) == NoId \notin ToSet(ids) /\ IsInjective(ids)

NewHashRingFromMembers(ids) ==
  LET r == FoldLeft(place, [seq |-> <<>>, map |-> NoNodes], ids) IN
  /\ placed = {} /\ Accepted(ids)
  /\ ring' = Sorted(r.seq) /\ nodeMap' = r.map /\ placed' = ToSet(ids)
  /\ UNCHANGED pos

AddNode(id) ==
  LET r == place([seq |-> ring, map |-> nodeMap], id) IN
  /\ id \notin placed
  /\ ring' = Sorted(r.seq) /\ nodeMap' = r.map /\ placed' = placed \cup {id}
  /\ UNCHANGED pos

\* Faulty variants of start: only a position after the key's; a position
\* by the number taken, as in a table that is not consistent.
StrictlyAfter(taken, hash) ==
  LET i == SelectInSeq(taken, LAMBDA p : p > hash) IN IF i = 0 THEN 1 ELSE i

ModuloTaken(taken, hash) == (hash % Len(taken)) + 1

\* The first position at or after the key's, or else the first of all.
start(taken, hash) ==
  LET i == SelectInSeq(taken, LAMBDA p : p >= hash) IN IF i = 0 THEN 1 ELSE i

\* The walk clockwise: each member where it first appears, at most rf.
GetPreferenceList(taken, owner, hash, rf) ==
  LET n == Len(taken)
      At(i) == owner[taken[((start(taken, hash) + i - 2) % n) + 1]]
      Step(list, i) ==
        IF Len(list) = rf \/ Contains(list, At(i)) THEN list ELSE Append(list, At(i))
  IN  FoldLeft(Step, <<>>, [i \in 1..n |-> i])

RingNext ==
  \/ \E k \in 1..Cardinality(Ids) : \E ids \in [1..k -> Ids \cup {NoId}] : NewHashRingFromMembers(ids)
  \/ \E id \in Ids : AddNode(id)

-----------------------------------------------------------------------------
\* The ids whose virtual nodes fall on p, and the positions of a set of ids.
Claims(S, p) == {id \in S : \E i \in 0..VNodes - 1 : pos[<<id, i>>] = p}
Taken(S)     == {p \in 0..Positions - 1 : Claims(S, p) # {}}

\* A ring "is a pure function of the set of ids": whatever the order they
\* were placed in, by NewHashRingFromMembers or AddNode, each position taken
\* is listed once, in order, and belongs to the lowest id that claims it.
RingIsItsMembers ==
  /\ ring = SetToSortSeq(Taken(placed), <)
  /\ DOMAIN nodeMap = Taken(placed)
  /\ \A p \in Taken(placed) :
       nodeMap[p] \in Claims(placed, p) /\ \A id \in Claims(placed, p) : nodeMap[p] <= id

\* How far clockwise of a key the nearest position of a member is.
Distance(id, hash) ==
  CHOOSE d \in 0..Positions - 1 :
    /\ \E p \in DOMAIN nodeMap : nodeMap[p] = id /\ p = (hash + d) % Positions
    /\ \A e \in 0..d - 1 : \A p \in DOMAIN nodeMap :
         nodeMap[p] = id => p # (hash + e) % Positions

\* The preference list of every key is the rf members nearest clockwise, in
\* that order, no member twice, and short only when the ring has fewer.
ListIsNearest ==
  LET owners == {nodeMap[p] : p \in DOMAIN nodeMap} IN
  \A hash \in 0..Positions - 1 : \A rf \in 1..Cardinality(Ids) :
    LET list == GetPreferenceList(ring, nodeMap, hash, rf)
        near == SetToSortSeq(owners, LAMBDA a, b : Distance(a, hash) < Distance(b, hash))
    IN  list = SubSeq(near, 1, IF rf < Len(near) THEN rf ELSE Len(near))

\* Where the virtual nodes of two ids meet, one of them loses a position.
Collide(id, S) == \E p \in 0..Positions - 1 : id \in Claims({id}, p) /\ Claims(S \ {id}, p) # {}

\* Placing a member that collides with none changes a key's list only by
\* inserting the new member: every other member keeps its place in the order.
JoinKeepsOrder ==
  \A id \in placed' \ placed :
    placed # {} /\ ~Collide(id, placed) =>
      \A hash \in 0..Positions - 1 : \A rf \in 1..Cardinality(Ids) :
        LET old == GetPreferenceList(ring, nodeMap, hash, rf)
            new == GetPreferenceList(ring', nodeMap', hash, rf)
        IN  IsPrefix(SelectSeq(new, LAMBDA m : m # id), old)

JoinsKeepOrder == [][JoinKeepsOrder]_ringVars
=============================================================================
