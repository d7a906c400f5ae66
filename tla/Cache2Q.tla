------------------------------- MODULE Cache2Q -------------------------------
(***************************************************************************)
(* The 2Q cache of the SDK: Allocator2Q behind Storage, and the            *)
(* storage_hook through which a holder of a block uses or drops it.        *)
(*                                                                         *)
(* A block is created into new_block without an identifier, pushed out of  *)
(* it into outed, where it gets one, and moved to hot when it is used      *)
(* there.  The two maps find the list node of an identifier.  Every        *)
(* operation of the allocator is under its mutex; the hook reads the       *)
(* identifier of its block before that mutex is taken.                     *)
(***************************************************************************)
EXTENDS Integers, SequencesExt, FiniteSetsExt

CONSTANTS
    Block,          \* the blocks memory has room for
    Thread,         \* the threads that use or drop blocks
    limit,          \* the argument of Storage::make()
    IdSpace,        \* the number of values of type_id, 2^32 in the code
    LastId          \* bound: the last identifier make_new() may hand out

ASSUME CacheAssumption ==
    /\ limit \in Nat
    /\ IdSpace \in Nat \ {0}
    /\ LastId \in 1 .. IdSpace - 2     \* the counter does not wrap

VARIABLES
    new_block, outed, hot,  \* the lists, front first
    out_map, hot_map,       \* identifier -> node
    id,                     \* the identifier of each block
    free_id,
    held,                   \* the blocks somebody outside holds a data_ptr to
    call,                   \* the used() or drop() a thread is inside of
    undefined               \* a freed list node has been read

vars == <<new_block, outed, hot, out_map, hot_map, id, free_id, held, call,
          undefined>>

no_ID == 0
max_new == limit \div 4
max_out == max_new * 2
max_hot == limit - max_new - max_out

Identifier == 0 .. IdSpace - 1
Cached == Range(new_block) \cup Range(outed) \cup Range(hot)
Idle == [op |-> "none"]
Calls == {Idle} \cup [op : {"used", "drop"}, of : Block]

Init ==
    /\ new_block = <<>> /\ outed = <<>> /\ hot = <<>>
    /\ out_map = <<>> /\ hot_map = <<>>
    /\ id = [b \in Block |-> no_ID]
    /\ free_id = 1
    /\ held = {}
    /\ call = [t \in Thread |-> Idle]
    /\ undefined = FALSE

-----------------------------------------------------------------------------
(* The lists and the maps.                                                 *)

Push(list, b) == <<b>> \o list
Without(list, b) == RemoveFirst(list, b)
Set(map, n, b) == [k \in DOMAIN map \cup {n} |-> IF k = n THEN b ELSE map[k]]
Erase(map, n) == [k \in DOMAIN map \ {n} |-> map[k]]

\* the last node leaves a list that has outgrown max, and its map with it
Overfull(list, max) == Len(list) > max
\* Seeded fault: the first node goes.
EvictFirst(list, max) == IF Overfull(list, max) THEN Tail(list) ELSE list
Evict(list, max) == IF Overfull(list, max) THEN Front(list) ELSE list
\* Seeded fault: the node goes and its entry stays.
EntryStays(map, list, max) == map
EvictFrom(map, list, max) ==
    IF Overfull(list, max) THEN Erase(map, id[Last(list)]) ELSE map

(* Storage::make_new: b is memory nobody refers to.                        *)
Allocate(b) ==
    /\ b \notin Cached \cup held
    /\ held' = held \cup {b}
    /\ UNCHANGED <<hot, hot_map, call>>

MakeNewRoom(b) ==
    /\ Allocate(b)
    /\ Len(new_block) < max_new
    /\ new_block' = Push(new_block, b)
    /\ id' = [id EXCEPT ![b] = no_ID]
    /\ UNCHANGED <<outed, out_map, free_id, undefined>>

MakeNewFull(b) ==
    /\ Allocate(b)
    /\ Len(new_block) >= max_new
    /\ free_id <= LastId
    /\ LET pushed == Push(new_block, b)
           tmp == Last(pushed)
           moved == Push(outed, tmp)
       IN /\ new_block' = Front(pushed)
          /\ id' = [id EXCEPT ![b] = no_ID, ![tmp] = free_id]
          /\ free_id' = (free_id + 1) % IdSpace
          /\ outed' = Evict(moved, max_out)
          /\ out_map' = Set(EvictFrom(out_map, moved, max_out), free_id, tmp)
          \* with max_out = 0 the node of tmp is the one just popped
          /\ undefined' = (max_out = 0)

(* storage_hook::used and drop test the identifier outside the mutex; a    *)
(* block without one is left alone.                                        *)
Enter(t, op, b) ==
    /\ call[t] = Idle
    /\ b \in held
    /\ id[b] # no_ID
    /\ call' = [call EXCEPT ![t] = [op |-> op, of |-> b]]
    /\ UNCHANGED <<new_block, outed, hot, out_map, hot_map, id, free_id, held,
                   undefined>>

Leave(t) ==
    /\ call' = [call EXCEPT ![t] = Idle]
    /\ UNCHANGED <<new_block, id, free_id, held, undefined>>

UpHot(t) ==
    /\ call[t].op = "used"
    /\ LET n == id[call[t].of] IN
       /\ n \in DOMAIN hot_map
       /\ hot' = Push(Without(hot, hot_map[n]), hot_map[n])
    /\ Leave(t)
    /\ UNCHANGED <<outed, out_map, hot_map>>

UpOut(t) ==
    /\ call[t].op = "used"
    /\ LET n == id[call[t].of]
           b == out_map[n]
           moved == Push(hot, b)
       IN /\ n \in DOMAIN out_map \ DOMAIN hot_map
          /\ outed' = Without(outed, b)
          /\ out_map' = Erase(out_map, n)
          /\ hot' = Evict(moved, max_hot)
          /\ hot_map' = Set(EvictFrom(hot_map, moved, max_hot), n, b)
    /\ Leave(t)

DropHot(t) ==
    /\ call[t].op = "drop"
    /\ LET n == id[call[t].of] IN
       /\ n \in DOMAIN hot_map
       /\ hot' = Without(hot, hot_map[n])
       /\ hot_map' = Erase(hot_map, n)
    /\ Leave(t)
    /\ UNCHANGED <<outed, out_map>>

DropOut(t) ==
    /\ call[t].op = "drop"
    /\ LET n == id[call[t].of] IN
       /\ n \in DOMAIN out_map \ DOMAIN hot_map
       /\ outed' = Without(outed, out_map[n])
       /\ out_map' = Erase(out_map, n)
    /\ Leave(t)
    /\ UNCHANGED <<hot, hot_map>>

NotFound(t) ==
    /\ call[t] # Idle
    /\ id[call[t].of] \notin DOMAIN hot_map \cup DOMAIN out_map
    /\ Leave(t)
    /\ UNCHANGED <<outed, hot, out_map, hot_map>>

Apply(t) == UpHot(t) \/ UpOut(t) \/ DropHot(t) \/ DropOut(t) \/ NotFound(t)

\* Seeded fault: the counter starts again.
ClearRestarts ==
    /\ new_block' = <<>> /\ outed' = <<>> /\ hot' = <<>>
    /\ out_map' = <<>> /\ hot_map' = <<>>
    /\ free_id' = 1
    /\ UNCHANGED <<id, held, call, undefined>>

Clear ==
    /\ new_block' = <<>> /\ outed' = <<>> /\ hot' = <<>>
    /\ out_map' = <<>> /\ hot_map' = <<>>
    /\ UNCHANGED <<id, free_id, held, call, undefined>>

\* the last data_ptr outside the cache goes; a thread inside a call holds one
Release(b) ==
    /\ b \in held
    /\ \A t \in Thread : call[t] # Idle => call[t].of # b
    /\ held' = held \ {b}
    /\ UNCHANGED <<new_block, outed, hot, out_map, hot_map, id, free_id, call,
                   undefined>>

\* nothing is defined any more once a freed node has been read
Next ==
    /\ ~undefined
    /\ \/ \E b \in Block : MakeNewRoom(b) \/ MakeNewFull(b) \/ Release(b)
       \/ \E t \in Thread, b \in Block, op \in {"used", "drop"} : Enter(t, op, b)
       \/ \E t \in Thread : Apply(t)
       \/ Clear

Spec == Init /\ [][Next]_vars

-----------------------------------------------------------------------------
(* Properties.                                                             *)

TypeOK ==
    /\ new_block \in Seq(Block) /\ outed \in Seq(Block) /\ hot \in Seq(Block)
    /\ DOMAIN out_map \subseteq Identifier /\ Range(out_map) \subseteq Block
    /\ DOMAIN hot_map \subseteq Identifier /\ Range(hot_map) \subseteq Block
    /\ id \in [Block -> Identifier]
    /\ free_id \in Identifier
    /\ held \subseteq Block
    /\ call \in [Thread -> Calls]
    /\ undefined \in BOOLEAN

\* Map m finds exactly the nodes of the list, each under its identifier.
Indexes(m, list) ==
    /\ DOMAIN m = {id[b] : b \in Range(list)}
    /\ \A n \in DOMAIN m : m[n] \in Range(list) /\ id[m[n]] = n
    /\ Cardinality(DOMAIN m) = Len(list)

\* The two maps never hold an iterator to a node that has left its list, and
\* every block that can be looked up is found: what the erase/pop_back pairs
\* of make_new(), up() and drop() have to keep true together.
MapsMatchLists ==
    ~undefined => Indexes(out_map, outed) /\ Indexes(hot_map, hot)

\* A block is in one list at most, at one place, and the cache keeps no more
\* blocks than the limit it was made with.
WithinLimit ==
    ~undefined =>
       /\ Len(new_block) <= max_new
       /\ Len(outed) <= max_out
       /\ Len(hot) <= max_hot
       /\ Cardinality(Cached) = Len(new_block) + Len(outed) + Len(hot)

\* make_new() reads no freed node when the cache is made for four blocks or more.
NoDanglingNode == limit >= 4 => ~undefined

\* All of it: lists, maps and identifiers agree after any sequence of creations,
\* uses, drops and evictions.
CacheInvariant == TypeOK /\ MapsMatchLists /\ WithinLimit /\ NoDanglingNode

\* used() and drop() act on the block of the hook they were called through,
\* or on none if that block has left the cache meanwhile: an identifier in
\* the hands of a holder never names another block.
Acted(t) == call[t] # Idle /\ call'[t] = Idle
ActsOnOwnBlock ==
    [][\A t \in Thread : Acted(t) =>
         LET b == call[t].of IN
         IF b \notin Cached THEN UNCHANGED <<new_block, outed, hot>>
         ELSE IF call[t].op = "drop" THEN Cached' = Cached \ {b}
         ELSE Head(hot') = b]_vars

Promised == INSTANCE TwoQueue WITH
    probation <- new_block \o outed, protected <- hot, Grace <- max_new,
    ProbationCap <- max_new + max_out, ProtectedCap <- max_hot

\* An allocator made for four blocks or more implements the 2Q discipline.
Implements2Q == Promised!Spec
=============================================================================
