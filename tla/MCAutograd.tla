----------------------------- MODULE MCAutograd -----------------------------
(***************************************************************************)
(* Autograd, with clipping, on every program of MaxOps operators over one  *)
(* or two leaves, and on some larger ones where paths meet.                *)
(***************************************************************************)
EXTENDS GradClipping

CONSTANT MaxOps

(* A derivative of its own for every operand position.                     *)
Prime == << <<2, 3>>, <<5, 7>>, <<11, 13>>, <<17, 19>>, <<23, 29>>, <<31, 37>> >>

OwnSlopes(i, ins) == SubSeq(Prime[i], 1, Len(ins))

NoCapture == << >>

Node(ins, slope, kind, capture) ==
  [ins |-> ins, slope |-> slope, kind |-> kind, capture |-> capture]

LeafNode(kind) == Node(<< >>, << >>, kind, NoCapture)

Unary(i) == {<<a>> : a \in 1..(i - 1)}

Binary(i) == {<<a, b>> : a \in 1..(i - 1), b \in 1..(i - 1)}

(* An operator with a derivative per operand, an addition, a checkpoint    *)
(* whose fn captures the first leaf, and one whose fn also ignores its     *)
(* second input.                                                           *)
NodesAt(i) ==
  {Node(ins, OwnSlopes(i, ins), "op", NoCapture) : ins \in Unary(i) \cup Binary(i)}
    \cup {Node(ins, <<1, 1>>, "op", NoCapture) : ins \in Binary(i)}
    \cup {Node(ins, OwnSlopes(i, ins), "ckpt", 1 :> 41) : ins \in Unary(i)}
    \cup {Node(ins, <<Prime[i][1], 0>>, "ckpt", 1 :> 41) : ins \in Binary(i)}

InOrder(node) == Len(node.ins) = 2 => node.ins[1] <= node.ins[2]

Extend(lists) ==
  UNION {{Append(l, node) : node \in {m \in NodesAt(Len(l) + 1) : InOrder(m)}} : l \in lists}

ProgramOf(l) ==
  [n       |-> Len(l),
   ins     |-> [i \in DOMAIN l |-> l[i].ins],
   slope   |-> [i \in DOMAIN l |-> l[i].slope],
   params  |-> {i \in DOMAIN l : l[i].kind = "param"},
   ckpt    |-> {i \in DOMAIN l : l[i].kind = "ckpt"},
   capture |-> [i \in {j \in DOMAIN l : l[j].kind = "ckpt"} |-> l[i].capture]]

(* Every program of k operators over the given leaves.                     *)
Lists(leaves) ==
  LET lists[k \in Nat] == IF k = 0 THEN {leaves} ELSE Extend(lists[k - 1])
  IN  lists

(* Paths that part and meet again: twice in a row; across a long and a     *)
(* short arm; through two checkpoints with one captured parameter.         *)
Op(ins, i) == Node(ins, OwnSlopes(i, ins), "op", NoCapture)

Meeting ==
  {<<LeafNode("data"), LeafNode("param"), Op(<<1, 2>>, 3), Op(<<3, 2>>, 4), Op(<<4, 3>>, 5)>>,
   <<LeafNode("param"), Op(<<1>>, 2), Node(<<2, 1>>, <<1, 1>>, "op", NoCapture),
     Op(<<2, 3>>, 4), Node(<<4, 3>>, <<1, 1>>, "op", NoCapture)>>,
   <<LeafNode("param"), LeafNode("param"), Node(<<1>>, <<5>>, "ckpt", 2 :> 41),
     Node(<<3>>, <<7>>, "ckpt", 2 :> 43), Op(<<3, 4>>, 5)>>}

MCPrograms ==
  {ProgramOf(l) : l \in Lists(<<LeafNode("param")>>)[MaxOps]
                          \cup Lists(<<LeafNode("param"), LeafNode("data")>>)[1]
                          \cup Lists(<<LeafNode("param"), LeafNode("param")>>)[1]
                          \cup Meeting}
=============================================================================
