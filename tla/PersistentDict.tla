--------------------------- MODULE PersistentDict ---------------------------
(***************************************************************************)
(* The persistent dictionary of the runtime that the stage 0 compiler      *)
(* emits (src/src/runtime/dict.rs): a hash array mapped trie for the       *)
(* values and a vector of the keys in insertion order.                     *)
(*                                                                         *)
(* A slot of a node is an entry, a node or a collision list.  The bitmap   *)
(* of a node is the set of its fragments, its entries a sequence in the    *)
(* order of the fragments.  A key is a pair of its hash and a number that  *)
(* tells keys of one hash apart.  The code takes Bits = 5 bits of a        *)
(* HashBits = 64 bit hash at each level.                                   *)
(*                                                                         *)
(* The functions that walk the trie are recursive functions of a call: the *)
(* node, its depth and the other arguments of the code's function.         *)
(***************************************************************************)
EXTENDS Integers, Sequences, FiniteSets

CONSTANTS Hashes,    \* the hashes of the keys
          Twins,     \* the hashes that two keys share
          Values,    \* the values
          Bits,      \* bits of the hash used at one level
          HashBits   \* bits of a hash

ASSUME HashAssumption ==
  /\ {Bits, HashBits} \subseteq Nat \ {0}
  /\ Hashes \subseteq 0 .. (2^HashBits - 1)
  /\ Twins \subseteq Hashes
  /\ 0 \notin Values

VARIABLE d           \* the dictionary: size, root and order

Keys == {k \in Hashes \X {1, 2} : k[2] = 1 \/ k[1] \in Twins}

NoValue == 0
Levels == (HashBits + Bits - 1) \div Bits      \* 13 in the code

Entry(k, x) == [type |-> "entry", hash |-> k[1], key |-> k, val |-> x]
Node(bitmap, entries) == [type |-> "node", bitmap |-> bitmap, entries |-> entries]
Collision(hash, entries) == [type |-> "collision", hash |-> hash, entries |-> entries]
Null == Node({}, <<>>)

hash_key(k) == k[1]

(***************************************************************************)
(* Helpers on the compact arrays; at counts from 0.                        *)
(***************************************************************************)
popcount(bitmap, below) == Cardinality({f \in bitmap : f < below})
arr_insert_at(a, at, x) == SubSeq(a, 1, at) \o <<x>> \o SubSeq(a, at + 1, Len(a))
arr_replace_at(a, at, x) == SubSeq(a, 1, at) \o <<x>> \o SubSeq(a, at + 2, Len(a))
arr_remove_at(a, at) == SubSeq(a, 1, at) \o SubSeq(a, at + 2, Len(a))

fragment(hash, depth) == (hash \div 2^(depth * Bits)) % 2^Bits

(***************************************************************************)
(* Tries.  A node has a slot for each fragment of its bitmap, and a node   *)
(* at some depth has at most Levels - depth levels.                        *)
(***************************************************************************)
Frags == 0 .. (2^Bits - 1)
EntryType == [type : {"entry"}, hash : Hashes, key : Keys, val : Values]
CollisionType == [type : {"collision"}, hash : Hashes, entries : Seq(EntryType)]

NodeType[l \in Nat] ==
  IF l = 0 THEN {}
  ELSE {n \in [type : {"node"}, bitmap : SUBSET Frags,
               entries : Seq(EntryType \cup CollisionType \cup NodeType[l - 1])] :
          Cardinality(n.bitmap) = Len(n.entries)}

Calls == {c \in [node : NodeType[Levels], depth : 0 .. Levels - 1, hash : Hashes, key : Keys] :
            c.node \in NodeType[Levels - c.depth]}
SetCalls == {c \in [node : NodeType[Levels], depth : 0 .. Levels - 1, hash : Hashes, key : Keys, val : Values] :
               c.node \in NodeType[Levels - c.depth]}

(* The calls one level down, for a slot.                                   *)
Below(c, slot) == [node |-> slot, depth |-> c.depth + 1, hash |-> c.hash, key |-> c.key]
SetBelow(c, slot) ==
  [node |-> slot, depth |-> c.depth + 1, hash |-> c.hash, key |-> c.key, val |-> c.val]

(***************************************************************************)
(* Lookup.                                                                 *)
(***************************************************************************)
Places(entries, k) == {i \in DOMAIN entries : entries[i].key = k}
FirstPlace(entries, k) == CHOOSE i \in Places(entries, k) : \A j \in Places(entries, k) : i <= j

collision_get(c, k) ==
  IF Places(c.entries, k) = {} THEN NoValue ELSE c.entries[FirstPlace(c.entries, k)].val

(* What a slot answers; below is the answer of the node in it.             *)
get_at_slot(slot, c, below) ==
  CASE slot.type = "entry" -> IF slot.hash = c.hash /\ slot.key = c.key THEN slot.val ELSE NoValue
    [] slot.type = "node" -> below
    [] slot.type = "collision" -> collision_get(slot, c.key)

get_from[c \in Calls] ==
  LET n == c.node
      frag == fragment(c.hash, c.depth)
      idx == popcount(n.bitmap, frag)
      slot == n.entries[idx + 1]
  IN IF n = Null \/ c.depth >= Levels \/ frag \notin n.bitmap \/ idx >= Len(n.entries) THEN NoValue
     ELSE get_at_slot(slot, c, get_from[Below(c, slot)])

node_get(n, hash, depth, k) == get_from[[node |-> n, depth |-> depth, hash |-> hash, key |-> k]]

(***************************************************************************)
(* Insertion.                                                              *)
(***************************************************************************)
(* A new entry of a collision keeps the hash of its own key.               *)
collision_set(c, k, x) ==
  [c EXCEPT !.entries = IF Places(@, k) = {} THEN Append(@, Entry(k, x))
                        ELSE arr_replace_at(@, FirstPlace(@, k) - 1, Entry(k, x))]

(* A key set in no node.                                                   *)
set_at_null(hash, depth, k, x) == Node({fragment(hash, depth)}, <<Entry(k, x)>>)

(* The slot that replaces an entry: the key's own entry is replaced, a key *)
(* of the same hash makes a collision, one of another hash pushes both a   *)
(* level down.                                                             *)
set_at_entry(slot, c, pushedDown) ==
  LET both == Collision(c.hash, <<slot, Entry(c.key, c.val)>>)
  IN CASE slot.hash = c.hash /\ slot.key = c.key -> Entry(c.key, c.val)
       [] slot.hash = c.hash /\ slot.key # c.key -> both
       [] slot.hash # c.hash -> IF c.depth >= Levels - 1 THEN both ELSE pushedDown

(* The slot that replaces a slot; below is what replaces the node in it.   *)
set_at_slot(slot, c, pushedDown, below) ==
  CASE slot.type = "entry" -> set_at_entry(slot, c, pushedDown)
    [] slot.type = "node" -> below
    [] slot.type = "collision" -> collision_set(slot, c.key, c.val)

set_from[c \in SetCalls] ==
  LET n == c.node
      frag == fragment(c.hash, c.depth)
      idx == popcount(n.bitmap, frag)
      slot == n.entries[idx + 1]
      alone == set_at_null(slot.hash, c.depth + 1, slot.key, slot.val)
      changed == set_at_slot(slot, c, set_from[SetBelow(c, alone)], set_from[SetBelow(c, slot)])
  IN IF n = Null THEN set_at_null(c.hash, c.depth, c.key, c.val)
     ELSE IF frag \notin n.bitmap
     THEN Node(n.bitmap \cup {frag}, arr_insert_at(n.entries, idx, Entry(c.key, c.val)))
     ELSE IF idx >= Len(n.entries) THEN Node(n.bitmap, Append(n.entries, Entry(c.key, c.val)))
     ELSE Node(n.bitmap, arr_replace_at(n.entries, idx, changed))

node_set(n, hash, depth, k, x) ==
  set_from[[node |-> n, depth |-> depth, hash |-> hash, key |-> k, val |-> x]]

(***************************************************************************)
(* Removal.  A node that loses its last slot goes away, a collision that   *)
(* is left with one entry becomes that entry.                              *)
(***************************************************************************)
without(n, frag, idx) ==
  IF Len(n.entries) = 1 THEN Null
  ELSE Node(n.bitmap \ {frag}, arr_remove_at(n.entries, idx))

remove_at_entry(n, frag, idx, hash, k) ==
  LET slot == n.entries[idx + 1]
  IN IF slot.hash = hash /\ slot.key = k THEN without(n, frag, idx) ELSE n

(* Mutant: the last entry of a collision stays in it.                      *)
remove_at_collisionKeeps(n, idx, k) ==
  LET slot == n.entries[idx + 1]
      left == arr_remove_at(slot.entries, FirstPlace(slot.entries, k) - 1)
  IN IF Places(slot.entries, k) = {} THEN n
     ELSE Node(n.bitmap, arr_replace_at(n.entries, idx, [slot EXCEPT !.entries = left]))

remove_at_collision(n, idx, k) ==
  LET slot == n.entries[idx + 1]
      left == arr_remove_at(slot.entries, FirstPlace(slot.entries, k) - 1)
  IN IF Places(slot.entries, k) = {} THEN n
     ELSE Node(n.bitmap, arr_replace_at(n.entries, idx,
            IF Len(left) = 1 THEN left[1] ELSE [slot EXCEPT !.entries = left]))

remove_at_node(n, frag, idx, below) ==
  IF below = Null THEN without(n, frag, idx)
  ELSE Node(n.bitmap, arr_replace_at(n.entries, idx, below))

remove_at_slot(n, frag, idx, c, below) ==
  LET slot == n.entries[idx + 1]
  IN CASE slot.type = "entry" -> remove_at_entry(n, frag, idx, c.hash, c.key)
       [] slot.type = "node" -> remove_at_node(n, frag, idx, below)
       [] slot.type = "collision" -> remove_at_collision(n, idx, c.key)

remove_from[c \in Calls] ==
  LET n == c.node
      frag == fragment(c.hash, c.depth)
      idx == popcount(n.bitmap, frag)
      slot == n.entries[idx + 1]
  IN IF n = Null \/ frag \notin n.bitmap THEN n
     ELSE remove_at_slot(n, frag, idx, c, remove_from[Below(c, slot)])

node_remove(n, hash, depth, k) == remove_from[[node |-> n, depth |-> depth, hash |-> hash, key |-> k]]

(***************************************************************************)
(* The dictionary.  The order vector is a sequence of keys: only push,     *)
(* get and len of the vector are used on it.                               *)
(***************************************************************************)
(* Mutant: the last key moves into the gap.                                *)
order_remove_keySwaps(order, k) ==
  LET i == CHOOSE j \in DOMAIN order : order[j] = k
      front == SubSeq(order, 1, Len(order) - 1)
  IN IF i = Len(order) THEN front ELSE arr_replace_at(front, i - 1, order[Len(order)])

(* The keys of the first upto places of an order other than one key, as    *)
(* the loop pushes them to a new vector.                                   *)
KeptCalls == [order : Seq(Keys), key : Keys, upto : Nat]

kept[c \in KeptCalls] ==
  LET before == kept[[c EXCEPT !.upto = @ - 1]]
      last == c.order[c.upto]
  IN IF c.upto = 0 THEN <<>> ELSE IF last = c.key THEN before ELSE Append(before, last)

order_remove_key(order, k) == kept[[order |-> order, key |-> k, upto |-> Len(order)]]

make == [size |-> 0, root |-> Null, order |-> <<>>]
get(x, k) == node_get(x.root, hash_key(k), 0, k)
has(x, k) == get(x, k) # NoValue

set(x, k, val) ==
  LET present == has(x, k)
  IN [size |-> IF present THEN x.size ELSE x.size + 1,
      root |-> node_set(x.root, hash_key(k), 0, k, val),
      order |-> IF present THEN x.order ELSE Append(x.order, k)]

remove(x, k) ==
  LET present == has(x, k)
  IN [size |-> IF present THEN x.size - 1 ELSE x.size,
      root |-> node_remove(x.root, hash_key(k), 0, k),
      order |-> IF present THEN order_remove_key(x.order, k) ELSE x.order]

(* The in-place forms store the new root, and touch order and size only    *)
(* when the key is new, or was there.                                      *)
set_in_place(x, k, val) ==
  LET rooted == [x EXCEPT !.root = node_set(@, hash_key(k), 0, k, val)]
  IN IF has(x, k) THEN rooted
     ELSE [rooted EXCEPT !.order = Append(@, k), !.size = @ + 1]

remove_in_place(x, k) ==
  LET rooted == [x EXCEPT !.root = node_remove(@, hash_key(k), 0, k)]
  IN IF has(x, k)
     THEN [rooted EXCEPT !.order = order_remove_key(@, k), !.size = @ - 1]
     ELSE rooted

(* Mutant: the sizes are not compared.                                     *)
eq_dictSubset(x, y) ==
  \A i \in 1 .. x.size : LET k == x.order[i] IN has(y, k) /\ get(x, k) = get(y, k)

(* Equality of dictionaries: same size, and every key of the first has an  *)
(* equal value in the second.                                              *)
eq_dict(x, y) ==
  /\ x.size = y.size
  /\ \A i \in 1 .. x.size : LET k == x.order[i] IN has(y, k) /\ get(x, k) = get(y, k)

Init == d = make

SetKey == \E k \in Keys, x \in Values : d' = set(d, k, x)
RemoveKey == \E k \in Keys : d' = remove(d, k)
SetInPlace == \E k \in Keys, x \in Values : d' = set_in_place(d, k, x)
RemoveInPlace == \E k \in Keys : d' = remove_in_place(d, k)

Next == SetKey \/ RemoveKey \/ SetInPlace \/ RemoveInPlace

Spec == Init /\ [][Next]_d

-----------------------------------------------------------------------------
(***************************************************************************)
(* Properties.                                                             *)
(***************************************************************************)
Entries == [i \in DOMAIN d.order |-> [key |-> d.order[i], val |-> get(d, d.order[i])]]

Map == INSTANCE OrderedMap WITH MapKeys <- Keys, MapValues <- Values, entries <- Entries

(* The trie with its order vector implements the map that remembers the    *)
(* order of insertion: set and remove, copying and in place, with keys of  *)
(* one hash and of hashes that differ only in the last bits.               *)
MapSpec == Map!Spec

(* The hash of a key has the fragments of a path.                          *)
On(path, k) == \A i \in DOMAIN path : fragment(k[1], i - 1) = path[i]

(* A slot at a path is as it should be, when below are the nodes with      *)
(* their paths that are.                                                   *)
GoodSlot(slot, path, below) ==
  CASE slot.type = "entry" -> On(path, slot.key) /\ slot.hash = slot.key[1]
    [] slot.type = "node" -> slot # Null /\ [node |-> slot, path |-> path] \in below
    [] slot.type = "collision" ->
         /\ Len(slot.entries) >= 2
         /\ \A i, j \in DOMAIN slot.entries : slot.entries[i].key = slot.entries[j].key => i = j
         /\ \A i \in DOMAIN slot.entries :
              On(path, slot.entries[i].key) /\ slot.entries[i].hash = slot.entries[i].key[1]

Shaped[l \in Nat] ==
  IF l = 0 THEN {}
  ELSE {s \in [node : NodeType[l], path : Seq(Frags)] :
          \A f \in s.node.bitmap :
            GoodSlot(s.node.entries[popcount(s.node.bitmap, f) + 1], Append(s.path, f), Shaped[l - 1])}

(* A key is in order exactly once, and exactly when get finds it; the      *)
(* bitmap of every node names exactly its slots, everything below a slot   *)
(* has its fragment on the whole path, no collision has a key twice, and   *)
(* neither an empty inner node nor a collision of one entry is left behind *)
(* by removals.                                                            *)
NodesExact ==
  /\ d.size = Len(d.order)
  /\ \A k \in Keys : Cardinality({i \in DOMAIN d.order : d.order[i] = k}) = IF has(d, k) THEN 1 ELSE 0
  /\ [node |-> d.root, path |-> <<>>] \in Shaped[Levels]

(* Two dictionaries that differ in one key and one order of insertion are  *)
(* equal exactly when they hold the same entries.                          *)
EqIgnoresOrder ==
  \A k \in Keys : has(d, k) =>
    LET again == set(remove(d, k), k, get(d, k))
    IN /\ eq_dict(d, again) /\ eq_dict(again, d)
       /\ \A x \in Values : eq_dict(d, set(again, k, x)) <=> x = get(d, k)
       /\ ~eq_dict(d, remove(d, k)) /\ ~eq_dict(remove(d, k), d)

=============================================================================
