-------------------------- MODULE PersistentVector --------------------------
(***************************************************************************)
(* The persistent vector of the runtime that the stage 0 compiler emits    *)
(* (src/src/runtime/arr.rs): a relaxed radix balanced tree of branching    *)
(* factor BF with a separate tail.  The wasm bodies that arr.rs builds are *)
(* read as functions of their arguments, one operator each, under the same *)
(* name.                                                                   *)
(*                                                                         *)
(* A leaf is a sequence of elements, an inner node a record of its         *)
(* children and its cumulative sizes, where no sizes (Dense, a null        *)
(* reference in the code) means that every child but the last is full.     *)
(* The array of BF slots with null behind the last child is the sequence   *)
(* of its children.  B is the constant of arr.rs, 5 there; with B = 1 six  *)
(* elements already give uneven trees of four levels.                      *)
(***************************************************************************)
EXTENDS Integers, Sequences

CONSTANTS B,        \* bits of an index used at one level of the tree
          MaxLen,   \* bound: the longest vector of the instance
          MaxOther  \* bound: the longest second operand

ASSUME BoundsAssumption == B \in Nat \ {0} /\ MaxLen \in Nat /\ MaxOther \in 0 .. MaxLen

VARIABLES v,        \* a vector
          w         \* a second one, the other operand of concat

vars == <<v, w>>

BF == 2^B

Front(s) == SubSeq(s, 1, Len(s) - 1)
Last(s) == s[Len(s)]

(* A shift is 0 at a leaf and B times the levels below an inner node.      *)
Shifts == {s \in Nat : s % B = 0}
Inner == Shifts \ {0}

Nodes[s \in Shifts] ==
  IF s = 0 THEN Seq(Int) ELSE [children : Seq(Nodes[s - B]), sizes : Seq(Nat)]

Dense == <<>>
Null == [children |-> <<>>, sizes |-> Dense]
EmptyVec == [len |-> 0, shift |-> 0, root |-> Null, tail |-> <<>>]

(* An array access outside its bounds traps.                               *)
Trap == -1
At(a, i) == IF i + 1 \in DOMAIN a THEN a[i + 1] ELSE Trap

(***************************************************************************)
(* Navigation.  Slots count from 0 as in the code; Child hides the offset. *)
(***************************************************************************)
Child(n, slot) == n.children[slot + 1]

(* The slot that holds index idx below n, and the index to go on with: a   *)
(* dense node reads the bits of idx, a relaxed one masks them, searches    *)
(* its sizes from the slot the bits suggest and subtracts what lies left.  *)
vi_nav(n, idx, shift) ==
  IF n.sizes = Dense
  THEN <<(idx \div 2^shift) % BF, idx>>
  ELSE LET i == idx % 2^(shift + B)
           slot == CHOOSE s \in ((i \div 2^shift) % BF) .. (Len(n.sizes) - 1) :
                     /\ n.sizes[s + 1] > i
                     /\ \A t \in ((i \div 2^shift) % BF) .. (s - 1) : n.sizes[t + 1] <= i
       IN <<slot, IF slot = 0 THEN i ELSE i - n.sizes[slot]>>

(* A node whose sizes are known counts those, another its non-null slots.  *)
child_count(n) == IF n.sizes = Dense THEN Len(n.children) ELSE Len(n.sizes)

joined[ss \in Seq(Seq(Int))] == IF ss = <<>> THEN <<>> ELSE joined[Front(ss)] \o Last(ss)
total[ns \in Seq(Nat)] == IF ns = <<>> THEN 0 ELSE total[Front(ns)] + Last(ns)

copy_leaves[s \in Inner] ==
  [n \in Nodes[s] |->
     joined[[i \in 1 .. child_count(n) |->
               IF s = B THEN n.children[i] ELSE copy_leaves[s - B][n.children[i]]]]]

node_total_size[s \in Shifts] ==
  [n \in Nodes[s] |->
     IF s = 0 THEN Len(n)
     ELSE IF n.sizes = Dense
          THEN (child_count(n) - 1) * 2^s + node_total_size[s - B][Child(n, child_count(n) - 1)]
          ELSE Last(n.sizes)]

(***************************************************************************)
(* Building nodes.                                                         *)
(***************************************************************************)
(* A node keeps sizes unless every child but the last has 2^shift          *)
(* elements.                                                               *)
make_relaxed(children, shift) ==
  LET size(i) == node_total_size[shift - B][children[i]]
  IN [children |-> children,
      sizes |-> IF \A i \in 1 .. (Len(children) - 1) : size(i) = 2^shift
                THEN Dense
                ELSE [i \in 1 .. Len(children) |-> total[[j \in 1 .. i |-> size(j)]]]]

(* A list of children too long for one node is spread evenly over as few   *)
(* nodes as hold it, one level up.  Yields the node and its shift.         *)
pack_children(children, shift) ==
  LET n == Len(children)
      groups == (n + BF - 1) \div BF
      base == n \div groups
      rem == n - base * groups
      size(k) == base + IF k < rem THEN 1 ELSE 0
      start(k) == total[[i \in 1 .. k |-> size(i - 1)]]
      group(k) == make_relaxed(SubSeq(children, start(k) + 1, start(k + 1)), shift)
  IN IF n <= BF
     THEN <<make_relaxed(children, shift), shift>>
     ELSE <<make_relaxed([k \in 1 .. groups |-> group(k - 1)], shift + B), shift + B>>

(* The result of a merge one level down: one child when it did not grow,   *)
(* otherwise the children of its new root.                                 *)
append_centre(children, centre, centreShift, expected) ==
  children \o IF centreShift = expected THEN <<centre>> ELSE centre.children

(* The concatenation of two trees: the seam is merged level by level, the  *)
(* shorter tree against the matching spine of the taller, and the children *)
(* that result, collected in a scratch array, are packed.  At the leaves   *)
(* the two at the seam become one when they fit.                           *)
seam_leaves(l, r) ==
  LET lastL == Last(l.children)
      firstR == Head(r.children)
  IN IF Len(lastL) + Len(firstR) <= BF
     THEN Front(l.children) \o <<lastL \o firstR>> \o Tail(r.children)
     ELSE l.children \o r.children

\* c is the merge one level down, a node and its shift.
seam_equal(l, r, c, shift) ==
  append_centre(Front(l.children), c[1], c[2], shift - B) \o Tail(r.children)

seam_left_taller(l, c, shift) == append_centre(Front(l.children), c[1], c[2], shift - B)

seam_right_taller(r, c, shift) == append_centre(<<>>, c[1], c[2], shift - B) \o Tail(r.children)

concat_trees[s \in Inner \X Inner] ==
  [l \in Nodes[s[1]] |->
     [r \in Nodes[s[2]] |->
        LET left == Last(l.children)
            right == Head(r.children)
            ls == s[1]
            rs == s[2]
        IN IF ls = rs /\ ls = B THEN pack_children(seam_leaves(l, r), ls)
           ELSE IF ls = rs
           THEN pack_children(seam_equal(l, r, concat_trees[<<ls - B, rs - B>>][left][right], ls), ls)
           ELSE IF ls > rs
           THEN pack_children(seam_left_taller(l, concat_trees[<<ls - B, rs>>][left][r], ls), ls)
           ELSE pack_children(seam_right_taller(r, concat_trees[<<ls, rs - B>>][l][right], rs), rs)]]

wrap_leaf(leaf) == make_relaxed(<<leaf>>, B)

new_path[s \in Shifts] ==
  [leaf \in Seq(Int) |->
     IF s = 0 THEN leaf ELSE [children |-> <<new_path[s - B][leaf]>>, sizes |-> Dense]]

(***************************************************************************)
(* Reading and replacing one element.                                      *)
(***************************************************************************)
tailoff(x) == x.len - Len(x.tail)

leaf_at[s \in Inner] ==
  [n \in Nodes[s] |->
     [idx \in Nat |->
        LET nav == vi_nav(n, idx, s)
        IN IF s <= B THEN <<Child(n, nav[1]), nav[2] % BF>>
           ELSE leaf_at[s - B][Child(n, nav[1])][nav[2]]]]

(* Mutant: the offset in the tail is taken from the bits of the index.     *)
get_leafMasked(x, idx) ==
  IF idx >= tailoff(x) THEN <<x.tail, idx % BF>> ELSE leaf_at[x.shift][x.root][idx]

(* The leaf that holds an index, and the offset in it.                     *)
get_leaf(x, idx) ==
  IF idx >= tailoff(x) THEN <<x.tail, idx - tailoff(x)>>
  ELSE leaf_at[x.shift][x.root][idx]

(* A vector of at most BF elements is read from its tail without a look at *)
(* the root.                                                               *)
get(x, idx) ==
  IF x.len <= BF THEN At(x.tail, idx % BF)
  ELSE LET leaf == get_leaf(x, idx) IN At(leaf[1], leaf[2])

\* A node with another child at a slot.
with_child(n, slot, c) == [children |-> [n.children EXCEPT ![slot + 1] = c], sizes |-> n.sizes]

do_set[s \in Shifts] ==
  [n \in Nodes[s] |->
     [idx \in Nat |->
        [e \in Int |->
           LET nav == vi_nav(n, idx, s)
           IN IF s = 0 THEN [n EXCEPT ![(idx % BF) + 1] = e]
              ELSE with_child(n, nav[1], do_set[s - B][Child(n, nav[1])][nav[2]][e])]]]

set(x, idx, e) ==
  IF idx >= tailoff(x) THEN [x EXCEPT !.tail[idx - tailoff(x) + 1] = e]
  ELSE [x EXCEPT !.root = do_set[x.shift][@][idx][e]]

(* The uncopied write: the leaf that get_leaf names is changed where it    *)
(* is, seen here as the vector that has the changed leaf.                  *)
write_leaf[s \in Shifts] ==
  [n \in Nodes[s] |->
     [idx \in Nat |->
        [off \in Nat |->
           [e \in Int |->
              LET nav == vi_nav(n, idx, s)
              IN IF s = 0 THEN [n EXCEPT ![off + 1] = e]
                 ELSE with_child(n, nav[1], write_leaf[s - B][Child(n, nav[1])][nav[2]][off][e])]]]]

set_in_place(x, idx, e) ==
  LET leaf == get_leaf(x, idx)
  IN IF idx >= tailoff(x) THEN [x EXCEPT !.tail[leaf[2] + 1] = e]
     ELSE [x EXCEPT !.root = write_leaf[x.shift][@][idx][leaf[2]][e]]

(***************************************************************************)
(* Growing.                                                                *)
(***************************************************************************)
(* The full tail becomes a leaf of the tree.                               *)
with_leaf(x, leaf) ==
  IF x.root = Null THEN <<new_path[B][leaf], B>>
  ELSE concat_trees[<<x.shift, B>>][x.root][wrap_leaf(leaf)]

\* The vector of a tree t, a root and its shift, and a tail.
vector(len, t, tail) == [len |-> len, shift |-> t[2], root |-> t[1], tail |-> tail]

push(x, e) ==
  IF Len(x.tail) < BF THEN [x EXCEPT !.len = @ + 1, !.tail = Append(@, e)]
  ELSE vector(x.len + 1, with_leaf(x, x.tail), <<e>>)

promote_full_tail(x, leaf) == vector(x.len + BF, with_leaf(x, leaf), <<>>)

(* The vectors whose tree has a given shift; the functions over a sequence *)
(* that carry a vector along take it with its shift.                       *)
Vectors(s) == [len : Nat, shift : {s}, root : Nodes[s] \cup {Null}, tail : Seq(Int)]

from_chunks[a \in Seq(Int)] ==
  [s \in Shifts |->
     [x \in Vectors(s) |->
        LET p == promote_full_tail(x, SubSeq(a, 1, BF))
        IN IF BF >= Len(a) THEN [x EXCEPT !.len = @ + Len(a), !.tail = a]
           ELSE from_chunks[SubSeq(a, BF + 1, Len(a))][p.shift][p]]]

(* Full chunks are promoted while something stays behind for the tail.     *)
from_array(a) ==
  IF a = <<>> THEN EmptyVec
  ELSE IF Len(a) <= BF THEN [EmptyVec EXCEPT !.len = Len(a), !.tail = a]
  ELSE from_chunks[a][0][EmptyVec]

to_array(x) ==
  (IF x.root = Null THEN <<>> ELSE copy_leaves[x.shift][x.root]) \o x.tail

\* The vector after n pushes of e.
made[n \in Nat] == [e \in Int |-> IF n = 0 THEN EmptyVec ELSE push(made[n - 1][e], e)]

make(n, e) == IF n <= 0 THEN EmptyVec ELSE made[n][e]

(***************************************************************************)
(* The builder: a vector without a tail and a mutable buffer of BF slots.  *)
(* A full buffer is promoted only when a further element arrives.          *)
(***************************************************************************)
builder_new == [vec |-> EmptyVec, buf |-> <<>>]

builder_from(x) ==
  [vec |-> [x EXCEPT !.len = tailoff(x), !.tail = <<>>], buf |-> x.tail]

(* Mutant: the element that finds the buffer full is lost.                 *)
builder_pushDrops(b, e) ==
  IF Len(b.buf) < BF THEN [b EXCEPT !.buf = Append(@, e)]
  ELSE [vec |-> promote_full_tail(b.vec, b.buf), buf |-> <<>>]

builder_push(b, e) ==
  IF Len(b.buf) < BF THEN [b EXCEPT !.buf = Append(@, e)]
  ELSE [vec |-> promote_full_tail(b.vec, b.buf), buf |-> <<e>>]

Builders(s) == [vec : Vectors(s), buf : {a \in Seq(Int) : Len(a) <= BF}]

\* The builder with room in its buffer.
with_room(b) == IF Len(b.buf) = BF THEN [vec |-> promote_full_tail(b.vec, b.buf), buf |-> <<>>] ELSE b

builder_append_leaf_range[part \in Seq(Int)] ==
  [s \in Shifts |->
     [b \in Builders(s) |->
        LET c == with_room(b)
            n == IF Len(part) < BF - Len(c.buf) THEN Len(part) ELSE BF - Len(c.buf)
            d == [c EXCEPT !.buf = @ \o SubSeq(part, 1, n)]
        IN IF part = <<>> THEN b
           ELSE builder_append_leaf_range[SubSeq(part, n + 1, Len(part))][d.vec.shift][d]]]

(* The first k slots of a node at shift s are appended.                    *)
builder_extend_node[q \in Inner \X (0 .. BF)] ==
  [n \in Nodes[q[1]] |->
     [t \in Shifts |->
        [b \in Builders(t) |->
           LET s == q[1]
               k == q[2]
               before == builder_extend_node[<<s, k - 1>>][n][t][b]
               c == n.children[k]
           IN IF k = 0 THEN b
              ELSE IF k > child_count(n) THEN before
              ELSE IF s = B THEN builder_append_leaf_range[c][before.vec.shift][before]
              ELSE builder_extend_node[<<s - B, BF>>][c][before.vec.shift][before]]]]

builder_extend(b, x) ==
  LET inner == IF tailoff(x) = 0 THEN b
               ELSE builder_extend_node[<<x.shift, BF>>][x.root][b.vec.shift][b]
  IN IF x.len = 0 THEN b ELSE builder_append_leaf_range[x.tail][inner.vec.shift][inner]

builder_freeze(b) ==
  IF b.buf = <<>> THEN b.vec
  ELSE [b.vec EXCEPT !.len = @ + Len(b.buf), !.tail = b.buf]

(* The elements at the given indices, through the builder.                 *)
gathered[is \in Seq(Nat)] ==
  [s \in Shifts |->
     [x \in Vectors(s) |->
        IF is = <<>> THEN builder_new
        ELSE builder_push(gathered[Front(is)][s][x], get(x, Last(is)))]]

gather(x, indices) == builder_freeze(gathered[to_array(indices)][x.shift][x])

(* Element by element through get; the elements' own equality is theirs.   *)
eq_vec(x, y) == x.len = y.len /\ \A i \in 0 .. (x.len - 1) : get(x, i) = get(y, i)

(* Mutant: the tail of the left operand is left behind.                    *)
concatLosesTail(a, b) ==
  IF b.len = 0 THEN a
  ELSE IF a.len = 0 THEN b
  ELSE IF b.root = Null THEN builder_freeze(builder_extend(builder_from(a), b))
  ELSE LET left == IF a.root = Null THEN <<wrap_leaf(a.tail), B>> ELSE <<a.root, a.shift>>
       IN vector(a.len + b.len, concat_trees[<<left[2], b.shift>>][left[1]][b.root], b.tail)

(* Concatenation: a right operand without a tree goes through the builder, *)
(* otherwise the left tail becomes a leaf and the trees are merged.        *)
concat(a, b) ==
  IF b.len = 0 THEN a
  ELSE IF a.len = 0 THEN b
  ELSE IF b.root = Null THEN builder_freeze(builder_extend(builder_from(a), b))
  ELSE LET left == IF a.root = Null THEN <<wrap_leaf(a.tail), B>>
                   ELSE concat_trees[<<a.shift, B>>][a.root][wrap_leaf(a.tail)]
       IN vector(a.len + b.len, concat_trees[<<left[2], b.shift>>][left[1]][b.root], b.tail)

(***************************************************************************)
(* Shrinking.                                                              *)
(***************************************************************************)
(* Mutant: the first leaf that stays is not cut.                           *)
leaf_fromWhole(leaf, idx) == leaf

leaf_from(leaf, idx) == SubSeq(leaf, (idx % BF) + 1, Len(leaf))
leaf_upto(leaf, idx) == SubSeq(leaf, 1, (idx % BF) + 1)

(* The tree that keeps the first k elements.                               *)
slice_trim_right[s \in Shifts] ==
  [n \in Nodes[s] |->
     [k \in Nat |->
        LET nav == vi_nav(n, k - 1, s)
            c == Child(n, nav[1])
            trimmed == IF s = B THEN leaf_upto(c, nav[2]) ELSE slice_trim_right[s - B][c][nav[2] + 1]
        IN IF s = 0 THEN SubSeq(n, 1, k)
           ELSE make_relaxed(Append(SubSeq(n.children, 1, nav[1]), trimmed), s)]]

(* The tree without its first k elements.                                  *)
slice_trim_left[s \in Shifts] ==
  [n \in Nodes[s] |->
     [k \in Nat |->
        LET nav == vi_nav(n, k, s)
            c == Child(n, nav[1])
            trimmed == IF s = B THEN leaf_from(c, nav[2]) ELSE slice_trim_left[s - B][c][nav[2]]
        IN IF s = 0 THEN SubSeq(n, k + 1, Len(n))
           ELSE make_relaxed(<<trimmed>> \o SubSeq(n.children, nav[1] + 2, child_count(n)), s)]]

slice_last_leaf[s \in Shifts] ==
  [n \in Nodes[s] |->
     IF s = 0 THEN n ELSE slice_last_leaf[s - B][Child(n, child_count(n) - 1)]]

(* The tree without its last leaf; a node left empty goes with it.         *)
pop_tail[s \in Inner] ==
  [n \in Nodes[s] |->
     LET popped == IF s > B THEN pop_tail[s - B][Last(n.children)] ELSE Null
         rest == Front(n.children) \o IF popped = Null THEN <<>> ELSE <<popped>>
     IN IF rest = <<>> THEN Null ELSE make_relaxed(rest, s)]

slice_collapse_root[s \in Inner] ==
  [n \in Nodes[s] |->
     IF n = Null \/ s <= B \/ child_count(n) # 1 THEN <<n, s>>
     ELSE slice_collapse_root[s - B][Child(n, 0)]]

slice_from_full_tree(n, shift, len) ==
  LET leaf == slice_last_leaf[shift][n]
  IN IF len <= BF THEN [EmptyVec EXCEPT !.len = len, !.tail = leaf]
     ELSE vector(len, slice_collapse_root[shift][pop_tail[shift][n]], leaf)

(* Elements s+1 .. e.  A short result is rebuilt from the array, a long    *)
(* one is cut out of the tree that has the tail as its last leaf.          *)
slice(x, s, e) ==
  LET full == IF x.root = Null THEN <<x.tail, 0>>
              ELSE IF x.tail = <<>> THEN <<x.root, x.shift>>
              ELSE concat_trees[<<x.shift, B>>][x.root][wrap_leaf(x.tail)]
      right == slice_trim_right[full[2]][full[1]][e]
      both == IF s = 0 THEN right ELSE slice_trim_left[full[2]][right][s]
  IN IF e = s THEN EmptyVec
     ELSE IF s = 0 /\ e = x.len THEN x
     ELSE IF e - s <= BF THEN from_array(SubSeq(to_array(x), s + 1, e))
     ELSE slice_from_full_tree(both, full[2], e - s)

(* Mutant: the tail is emptied instead of replaced.                        *)
drop_lastEmptiesTail(x) ==
  IF x.len <= 1 THEN EmptyVec ELSE [x EXCEPT !.len = @ - 1, !.tail = Front(@)]

(* A tail of one element is replaced by the last leaf of the tree; the     *)
(* root loses at most one level.                                           *)
drop_last(x) ==
  LET n == Len(x.tail)
      found == get_leaf(x, IF n = 0 THEN x.len - 1 ELSE x.len - 2)
      tail == IF n = 0 THEN SubSeq(found[1], 1, found[2]) ELSE found[1]
      popped == pop_tail[x.shift][x.root]
      collapse == popped # Null /\ x.shift > B /\ child_count(popped) = 1
  IN IF x.len <= 1 THEN EmptyVec
     ELSE IF n > 1 THEN [x EXCEPT !.len = @ - 1, !.tail = Front(@)]
     ELSE [len |-> x.len - 1,
           shift |-> IF popped = Null THEN 0 ELSE IF collapse THEN x.shift - B ELSE x.shift,
           root |-> IF collapse THEN Child(popped, 0) ELSE popped,
           tail |-> tail]

(***************************************************************************)
(* The system: two vectors and the operations a program calls on them.     *)
(* No operation looks at an element, so a state stands for every vector of *)
(* its shape, and its elements are numbered 1, 2, ... in order.            *)
(***************************************************************************)
Numbers(n) == [i \in 1 .. n |-> i]

NumberNode[s \in Shifts] ==
  [n \in Nodes[s] |->
     [from \in Nat |->
        LET before(i) == from + total[[j \in 1 .. i - 1 |-> node_total_size[s - B][n.children[j]]]]
        IN IF s = 0 THEN [i \in 1 .. Len(n) |-> from + i]
           ELSE [children |-> [i \in 1 .. Len(n.children) |-> NumberNode[s - B][n.children[i]][before(i)]],
                 sizes |-> n.sizes]]]

Numbered(x) ==
  [x EXCEPT !.root = IF @ = Null THEN Null ELSE NumberNode[x.shift][@][0],
            !.tail = [i \in DOMAIN @ |-> tailoff(x) + i]]

Init == v = EmptyVec /\ w = EmptyVec

Push == /\ v.len < MaxLen
        /\ v' = push(v, v.len + 1)
        /\ UNCHANGED w

Concat == /\ v.len + w.len <= MaxLen
          /\ v' = Numbered(concat(v, w))
          /\ UNCHANGED w

Slice == /\ \E s, e \in 0 .. v.len : s <= e /\ v' = Numbered(slice(v, s, e))
         /\ UNCHANGED w

DropLast == v' = drop_last(v) /\ UNCHANGED w

Collect == /\ \E n \in 0 .. MaxLen : v' = from_array(Numbers(n))
           /\ UNCHANGED w

Share == v.len <= MaxOther /\ w' = v /\ UNCHANGED v

Swap == v.len <= MaxOther /\ v' = w /\ w' = v

Next == Push \/ Concat \/ Slice \/ DropLast \/ Collect \/ Share \/ Swap

Spec == Init /\ [][Next]_vars
-----------------------------------------------------------------------------
(***************************************************************************)
(* Properties.                                                             *)
(***************************************************************************)
\* The elements of a node at shift s, and of a list of such nodes.
elems(n, s) == IF s = 0 THEN n ELSE copy_leaves[s][n]
all(ns, s) == joined[[i \in 1 .. Len(ns) |-> elems(ns[i], s)]]

WellFormed[s \in Shifts] ==
  IF s = 0 THEN {n \in Seq(Int) : Len(n) \in 1 .. BF}
  ELSE {n \in [children : Seq(WellFormed[s - B]), sizes : Seq(Nat)] :
          /\ Len(n.children) \in 1 .. BF
          /\ IF n.sizes = Dense
             THEN \A i \in 1 .. (Len(n.children) - 1) : Len(elems(n.children[i], s - B)) = 2^s
             ELSE n.sizes = [i \in 1 .. Len(n.children) |-> Len(all(SubSeq(n.children, 1, i), s - B))]}

(* Every node of a reachable vector has 1..BF children of one depth, a     *)
(* node without sizes has only full children before its last, recorded     *)
(* sizes are the exact cumulative counts, and a vector that is not empty   *)
(* has a tail that is not empty, however it was made (push, make_relaxed,  *)
(* the trim functions, pop_tail, builder_freeze): navigation by index      *)
(* bits, drop_last and wrap_leaf rely on it.                               *)
TreeExact ==
  /\ v.len = Len(to_array(v))
  /\ v.len > 0 => Len(v.tail) \in 1 .. BF
  /\ IF v.root = Null THEN v.shift = 0
     ELSE v.shift \in Inner /\ v.root \in WellFormed[v.shift]

Indexable(x) == x.len > BF \/ x.root = Null

ReadsNth ==
  \A i \in 0 .. (v.len - 1) :
    /\ LET leaf == get_leaf(v, i) IN At(leaf[1], leaf[2]) = i + 1
    /\ Indexable(v) => get(v, i) = i + 1

ReadersIgnoreShape ==
  /\ Indexable(v) =>
       LET backwards == from_array([i \in 1 .. v.len |-> v.len - i])
       IN to_array(gather(v, backwards)) = [i \in 1 .. v.len |-> v.len + 1 - i]
  /\ Indexable(v) /\ Indexable(w) => (eq_vec(v, w) <=> v.len = w.len)

WritesNth ==
  \A i \in 0 .. (v.len - 1) :
    LET want == [Numbers(v.len) EXCEPT ![i + 1] = 0]
    IN /\ to_array(set(v, i, 0)) = want
       /\ set_in_place(v, i, 0) = set(v, i, 0)

(* An index means the element at that place, whatever the shape of the     *)
(* tree: get_leaf always, get on the vectors for which its short cut for   *)
(* at most BF elements is meant (Indexable; on the others it reads the     *)
(* tail as if it held everything), gather and eq_vec, which read element   *)
(* by element, and the copying and the in-place write.                     *)
IndexesNth == ReadsNth /\ ReadersIgnoreShape /\ WritesNth

(* "vec[i] - 0-based indexing" (docs/spec.md:1080) of every vector: get     *)
(* also where its short cut for at most BF elements meets a tree.          *)
GetIsNth == \A i \in 0 .. (v.len - 1) : get(v, i) = i + 1

Appended(c) ==
  /\ to_array(c) = Numbers(v.len) \o Numbers(w.len)
  /\ c.len = v.len + w.len
  /\ c.root # Null => c.shift \in Inner /\ c.root \in WellFormed[c.shift]

(* Concatenating any two reachable vectors, also the one built by push and *)
(* the one built by slice and drop_last, keeps all elements in order.      *)
ConcatIsAppend == Appended(concat(v, w))

(* A slice holds exactly the elements of its range, and drop_last all but  *)
(* the last, also when the tail is used up and a leaf of an uneven tree    *)
(* takes its place.                                                        *)
SliceIsSubSeq ==
  /\ \A s, e \in 0 .. v.len : s <= e =>
       LET x == slice(v, s, e)
       IN to_array(x) = SubSeq(Numbers(v.len), s + 1, e) /\ x.len = e - s
  /\ to_array(drop_last(v)) = Numbers(IF v.len = 0 THEN 0 ELSE v.len - 1)

Kept(x) ==
  /\ to_array(x) = Append(Numbers(v.len), 0) \o Numbers(w.len)
  /\ x.len = v.len + 1 + w.len
  /\ Len(x.tail) \in 1 .. BF

(* What a builder freezes to is what was put into it: a start vector, one  *)
(* element and a whole vector, whatever the fill of its buffer.            *)
BuilderKeepsAll == Kept(builder_freeze(builder_extend(builder_push(builder_from(v), 0), w)))
=============================================================================
