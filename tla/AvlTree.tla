------------------------------ MODULE AvlTree -------------------------------
(***************************************************************************)
(* The balanced trees of CoCO (src/native/coco.c:33504-34474), whose nodes *)
(* are at once a search tree and a doubly linked list in its order.        *)
(*                                                                         *)
(* A tree is [cmpitem, head, tail, top, nodes]; nodes maps the addresses   *)
(* in use to [item, left, right, parent, prev, next, count, depth].        *)
(***************************************************************************)
EXTENDS Integers, Sequences, FiniteSets

Nil == 0

avl_tree_construct(cmpitem) ==
  [cmpitem |-> cmpitem, head |-> Nil, tail |-> Nil, top |-> Nil, nodes |-> [n \in {} |-> Nil]]
avl_tree_purge(tree) == avl_tree_construct(tree.cmpitem)

\* The orders: by the last objective, and by time.
Key(tree, item) ==
  IF tree.cmpitem = "last_objective" THEN item.normalized_y[2] ELSE item.evaluation_number
Compare(tree, item, node) == Key(tree, item) - Key(tree, tree.nodes[node].item)

Set(tree, node, field, value) ==
  IF node = Nil THEN tree ELSE [tree EXCEPT !.nodes[node][field] = value]
Child(tree, node, side) == tree.nodes[node][side]
Other(side) == IF side = "left" THEN "right" ELSE "left"

Measure(tree, node, measure) == IF node = Nil THEN 0 ELSE tree.nodes[node][measure]
Sides(tree, node, measure) ==
  <<Measure(tree, Child(tree, node, "left"), measure), Measure(tree, Child(tree, node, "right"), measure)>>
Larger(pair) == IF pair[1] > pair[2] THEN pair[1] ELSE pair[2]
Measured(tree, node) ==
  LET counts == Sides(tree, node, "count")
  IN [tree EXCEPT !.nodes[node].count = counts[1] + counts[2] + 1,
                  !.nodes[node].depth = Larger(Sides(tree, node, "depth")) + 1]

avl_count(tree) == Measure(tree, tree.top, "count")

----------------------------------------------------------------------------
(* Balance. *)

avl_check_balance(tree, node) ==
  LET depths == Sides(tree, node, "depth")
      d == depths[2] - depths[1]
  IN IF d < -1 THEN -1 ELSE IF d > 1 THEN 1 ELSE 0

\* What hung below parent (or was the top) as old is new from now on.
Hang(tree, parent, old, new) ==
  LET side == IF parent # Nil /\ Child(tree, parent, "left") = old THEN "left" ELSE "right"
      placed == IF parent = Nil THEN [tree EXCEPT !.top = new] ELSE Set(tree, parent, side, new)
  IN Set(placed, new, "parent", parent)
Attach(tree, parent, side, node) == Set(Set(tree, parent, side, node), node, "parent", parent)

\* The child on the heavy side comes up, and the node goes down to the other.
\* (Mutated: whichever side of the child is the deeper one.)
Rotated(tree, node, side) ==
  LET child == Child(tree, node, side)
      parent == tree.nodes[node].parent
      moved == Attach(tree, node, side, Child(tree, child, Other(side)))
      hung == Attach(Hang(moved, parent, node, child), child, Other(side), node)
  IN Measured(Measured(hung, node), child)

\* The grandchild between the two comes up, above both.
RotatedTwice(tree, node, side) ==
  LET child == Child(tree, node, side)
      gchild == Child(tree, child, Other(side))
      parent == tree.nodes[node].parent
      outer == Attach(tree, node, side, Child(tree, gchild, Other(side)))
      inner == Attach(outer, child, Other(side), Child(tree, gchild, side))
      hung == Attach(Attach(Hang(inner, parent, node, gchild), gchild, Other(side), node),
                     gchild, side, child)
  IN Measured(Measured(Measured(hung, node), child), gchild)

Lightened(tree, node, side) ==
  LET child == Child(tree, node, side)
      depth(s) == Measure(tree, Child(tree, child, s), "depth")
  IN IF depth(side) >= depth(Other(side)) THEN Rotated(tree, node, side)
     ELSE RotatedTwice(tree, node, side)

\* From the node up to the top.
RECURSIVE avl_rebalance(_, _)
avl_rebalance(tree, node) ==
  IF node = Nil THEN tree
  ELSE LET heavy == avl_check_balance(tree, node)
       IN avl_rebalance(CASE heavy = -1 -> Lightened(tree, node, "left")
                          [] heavy = 1  -> Lightened(tree, node, "right")
                          [] OTHER      -> Measured(tree, node),
                        tree.nodes[node].parent)

----------------------------------------------------------------------------
(* Search. *)

\* An equal node, or the last smaller one, or Nil.
RECURSIVE Descend(_, _, _)
Descend(tree, item, node) ==
  LET c == Compare(tree, item, node)
      left == Child(tree, node, "left")
      right == Child(tree, node, "right")
  IN CASE c < 0 /\ left # Nil  -> Descend(tree, item, left)
       [] c < 0 /\ left = Nil  -> [node |-> tree.nodes[node].prev, exact |-> FALSE]
       [] c > 0 /\ right # Nil -> Descend(tree, item, right)
       [] c > 0 /\ right = Nil -> [node |-> node, exact |-> FALSE]
       [] c = 0                -> [node |-> node, exact |-> TRUE]
avl_search_rightish(tree, item) ==
  IF tree.top = Nil THEN [node |-> Nil, exact |-> FALSE] ELSE Descend(tree, item, tree.top)

\* r is the last equal node so far; the search went to a side of node.
RECURSIVE RightmostFrom(_, _, _, _, _)
RightmostFrom(tree, item, node, side, r) ==
  LET next == Child(tree, node, side)
  IN IF next = Nil THEN r
     ELSE IF Compare(tree, item, next) = 0 THEN RightmostFrom(tree, item, next, "right", next)
     ELSE RightmostFrom(tree, item, next, "left", r)
avl_search_rightmost_equal(tree, node, item) == RightmostFrom(tree, item, node, "right", node)

avl_item_search_right(tree, item) ==
  LET found == avl_search_rightish(tree, item)
  IN IF found.exact THEN avl_search_rightmost_equal(tree, found.node, item) ELSE found.node

avl_item_search(tree, item) ==
  LET found == avl_search_rightish(tree, item)
  IN IF found.exact THEN found.node ELSE Nil

----------------------------------------------------------------------------
(* Insertion. *)

avl_alloc(tree) == CHOOSE n \in 1 .. Cardinality(DOMAIN tree.nodes) + 1 : n \notin DOMAIN tree.nodes
NewNode(item, parent, prev, next) ==
  [item |-> item, left |-> Nil, right |-> Nil, parent |-> parent, prev |-> prev, next |-> next,
   count |-> 1, depth |-> 1]
WithNode(tree, new, node) ==
  [tree EXCEPT !.nodes = [n \in DOMAIN tree.nodes \union {new} |-> IF n = new THEN node ELSE tree.nodes[n]]]

avl_insert_top(tree, new, item) ==
  WithNode([tree EXCEPT !.head = new, !.tail = new, !.top = new], new, NewNode(item, Nil, Nil, Nil))

\* The neighbours of a place in the list, or its ends, point to node.
LinkedAfter(tree, prev, node) ==
  IF prev = Nil THEN [tree EXCEPT !.head = node] ELSE Set(tree, prev, "next", node)
LinkedBefore(tree, next, node) ==
  IF next = Nil THEN [tree EXCEPT !.tail = node] ELSE Set(tree, next, "prev", node)

\* A leaf below parent, between prev and next.
Leaf(tree, new, item, parent, side, prev, next) ==
  LET linked == LinkedBefore(LinkedAfter(WithNode(tree, new, NewNode(item, parent, prev, next)), prev, new),
                             next, new)
  IN avl_rebalance(Set(linked, parent, side, new), parent)

\* Before the first node; after a node on its right, or before the next one.
avl_node_insert_after(tree, node, new, item) ==
  LET next == IF node = Nil THEN tree.head ELSE tree.nodes[node].next
  IN IF tree.head = Nil THEN avl_insert_top(tree, new, item)
     ELSE IF node # Nil /\ Child(tree, node, "right") = Nil
     THEN Leaf(tree, new, item, node, "right", node, next)
     ELSE Leaf(tree, new, item, next, "left", node, next)

\* An item whose equal is there is not inserted.
avl_item_insert(tree, item) ==
  LET place == avl_search_rightish(tree, item)
  IN IF place.exact THEN tree ELSE avl_node_insert_after(tree, place.node, avl_alloc(tree), item)

----------------------------------------------------------------------------
(* Deletion. *)

\* The substitute leaves its place to its left child.
TakenOut(tree, subst) ==
  Attach(tree, tree.nodes[subst].parent, "right", Child(tree, subst, "left"))

\* With two children, the node before takes the place of the node.
avl_node_unlink(tree, node) ==
  LET old == tree.nodes[node]
      listed == LinkedBefore(LinkedAfter(tree, old.prev, old.next), old.next, old.prev)
      subst == old.prev
      near == subst = old.left
      balnode == IF near THEN subst ELSE tree.nodes[subst].parent
      freed == IF near THEN listed ELSE Attach(TakenOut(listed, subst), subst, "left", old.left)
  IN CASE old.left = Nil  -> avl_rebalance(Hang(listed, old.parent, node, old.right), old.parent)
       [] old.left # Nil /\ old.right = Nil ->
            avl_rebalance(Hang(listed, old.parent, node, old.left), old.parent)
       [] old.left # Nil /\ old.right # Nil ->
            avl_rebalance(Hang(Attach(freed, subst, "right", old.right), old.parent, node, subst), balnode)

avl_node_delete(tree, node) ==
  IF node = Nil THEN tree
  ELSE LET unlinked == avl_node_unlink(tree, node)
       IN [unlinked EXCEPT !.nodes = [n \in DOMAIN unlinked.nodes \ {node} |-> unlinked.nodes[n]]]

avl_item_delete(tree, item) == avl_node_delete(tree, avl_item_search(tree, item))

\* The items from head to tail.
RECURSIVE ItemsFrom(_, _)
ItemsFrom(tree, node) ==
  IF node = Nil THEN << >> ELSE <<tree.nodes[node].item>> \o ItemsFrom(tree, tree.nodes[node].next)
Items(tree) == ItemsFrom(tree, tree.head)

----------------------------------------------------------------------------
\* The nodes below a node, from left to right.
RECURSIVE InOrder(_, _)
InOrder(tree, node) ==
  IF node = Nil THEN << >>
  ELSE InOrder(tree, Child(tree, node, "left")) \o <<node>> \o InOrder(tree, Child(tree, node, "right"))

\* A balanced search tree over all its nodes, whose list has the same order
\* in both directions and whose nodes know their parents and measures.
IsSound(tree) ==
  LET order == InOrder(tree, tree.top)
      count == Cardinality(DOMAIN tree.nodes)
      At(k) == IF k \in 1 .. count THEN order[k] ELSE Nil
  IN /\ tree.top \in DOMAIN tree.nodes => tree.nodes[tree.top].parent = Nil
     /\ DOMAIN order = 1 .. count /\ {order[k] : k \in 1 .. count} = DOMAIN tree.nodes
     /\ tree.head = At(1) /\ tree.tail = At(count)
     /\ \A k \in 1 .. count :
          LET n == tree.nodes[order[k]]
              depths == Sides(tree, order[k], "depth")
          IN /\ n.prev = At(k - 1) /\ n.next = At(k + 1)
             /\ n.next # Nil => Compare(tree, n.item, n.next) < 0
             /\ \A c \in {n.left, n.right} \ {Nil} : tree.nodes[c].parent = order[k]
             /\ depths[1] - depths[2] \in {-1, 0, 1}
             /\ n = Measured(tree, order[k]).nodes[order[k]]

=============================================================================
