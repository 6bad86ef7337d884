----------------------------- MODULE ModuleTree -----------------------------
(***************************************************************************)
(* nn.Module of python/kansai/nn.py: a tree of objects whose attributes    *)
(* are parameters, buffers, sub-modules and lists of sub-modules.  Objects *)
(* are numbered, 1 the root and children above their parents; the          *)
(* attributes of an object are a sequence, in the order vars() gives them, *)
(* of records                                                              *)
(*   key    its name                                                       *)
(*   kind   "tensor", "module", "list", or "other"                         *)
(*   refs   the tensor, the object, or the list's items, 0 for an item     *)
(*          that is not a Module                                           *)
(* A tensor is a handle on a heap, a record of its shape, its numbers in   *)
(* memory order (flat), and requires_grad.                                 *)
(***************************************************************************)
EXTENDS Integers, SequencesExt

VARIABLES
  attrs,        \* object -> its attributes
  heap          \* tensor -> contents

(* What a constructor builds.                                              *)
IsModel(objects, tensors) ==
  /\ objects \in Seq(Seq([key : STRING, kind : {"tensor", "module", "list", "other"},
                          refs : Seq(Nat)]))
  /\ objects # << >>
  /\ \A o \in DOMAIN objects : \A a \in Range(objects[o]) :
       /\ a.kind \in {"tensor", "module"} => Len(a.refs) = 1
       /\ Range(a.refs) \subseteq CASE a.kind = "tensor" -> DOMAIN tensors
                                    [] a.kind = "module" -> (o + 1)..Len(objects)
                                    [] a.kind = "list"   -> {0} \cup (o + 1)..Len(objects)
                                    [] OTHER -> {}

Attribute(key, kind, refs) == [key |-> key, kind |-> kind, refs |-> refs]

Prefixed(parts, named) == [k \in DOMAIN named |-> [path |-> parts \o named[k].path, tensor |-> named[k].tensor]]

(* What an attribute adds, with what every object below names: parameters  *)
(* and the path that leads to them, a list's index a part of its own.  A   *)
(* tensor or a module reached twice is named twice.                        *)
NamedBy(a, named, trainable) ==
  CASE a.kind = "tensor" ->
         IF trainable[a.refs[1]] THEN <<[path |-> <<a.key>>, tensor |-> a.refs[1]]>> ELSE << >>
    [] a.kind = "module" -> Prefixed(<<a.key>>, named[a.refs[1]])
    [] a.kind = "list"   ->
         FlattenSeq([i \in DOMAIN a.refs |->
           IF a.refs[i] = 0 THEN << >> ELSE Prefixed(<<a.key, ToString(i - 1)>>, named[a.refs[i]])])
    [] OTHER -> << >>

NamedIn(objects, trainable) ==
  LET named[o \in DOMAIN objects] ==
        FlattenSeq([k \in DOMAIN objects[o] |-> NamedBy(objects[o][k], named, trainable)])
  IN  named[1]

NamedParameters == NamedIn(attrs, [t \in DOMAIN heap |-> heap[t].requires_grad])

Parameters == LET named == NamedParameters IN [k \in DOMAIN named |-> named[k].tensor]

(* The modules train() and eval() reach.                                   *)
ReachedIn(objects) ==
  LET below[o \in DOMAIN objects] ==
        {o} \cup UNION {UNION {below[i] : i \in Range(a.refs) \ {0}} :
                          a \in {b \in Range(objects[o]) : b.kind \in {"module", "list"}}}
  IN  below[1]

Reached == ReachedIn(attrs)

(* The object that getattr and indexing lead to along all parts but the    *)
(* last.                                                                   *)
OwnerIn(objects, path) ==
  LET attribute(o, key) == objects[o][CHOOSE k \in DOMAIN objects[o] : objects[o][k].key = key]
      at[k \in 0..(Len(path) - 1)] ==
        IF k = 0 THEN Attribute("", "module", <<1>>)
        ELSE IF at[k - 1].kind = "list"
        THEN LET i == CHOOSE n \in DOMAIN at[k - 1].refs : ToString(n - 1) = path[k]
             IN  Attribute("", "module", <<at[k - 1].refs[i]>>)
        ELSE attribute(at[k - 1].refs[1], path[k])
  IN  at[Len(path) - 1].refs[1]

Owner(path) == OwnerIn(attrs, path)

(* _set_by_path: setattr puts another tensor where the path leads.         *)
SetByPath(path, tensor) ==
  LET o == Owner(path)
  IN  [attrs EXCEPT ![o] =
         [k \in DOMAIN attrs[o] |->
            IF attrs[o][k].key = Last(path)
            THEN Attribute(Last(path), "tensor", <<tensor>>) ELSE attrs[o][k]]]

(* vars() has every key once, and no two names lead to the same attribute: *)
(* nothing is a sub-module of two modules.                                 *)
Untied(objects, tensors) ==
  LET named == NamedIn(objects, [t \in DOMAIN tensors |-> tensors[t].requires_grad])
  IN  /\ \A o \in DOMAIN objects : \A j, k \in DOMAIN objects[o] :
           objects[o][j].key = objects[o][k].key => j = k
      /\ \A j, k \in DOMAIN named :
           /\ OwnerIn(objects, named[j].path) = OwnerIn(objects, named[k].path)
           /\ Last(named[j].path) = Last(named[k].path)
           => j = k
=============================================================================
