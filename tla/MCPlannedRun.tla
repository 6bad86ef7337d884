---------------------------- MODULE MCPlannedRun ----------------------------
(***************************************************************************)
(* PlannedRun on every graph of up to MaxNodes nodes, whose operators read *)
(* one or two operands.                                                    *)
(***************************************************************************)
EXTENDS PlannedRun

CONSTANTS MaxNodes, MaxBytes

(* A node with its buffer size.  Leaves need no buffer of their own, and   *)
(* the order of two operands makes no difference to who owns what.         *)
Leaves == {[op |-> k, ins |-> << >>, bytes |-> 1] : k \in {"placeholder", "constant"}}

Operations(i) ==
  [op : {"compute"},
   ins : {<<a>> : a \in 1..(i - 1)} \cup {<<a, b>> : a \in 1..(i - 1), b \in 1..(i - 1)},
   bytes : 1..MaxBytes]

InOrder(s) == Len(s) = 2 => s[1] <= s[2]

(* All node lists of length n.  trace() adds the placeholders first.       *)
NodeLists[n \in Nat] ==
  IF n = 1 THEN {<<[op |-> "placeholder", ins |-> << >>, bytes |-> 1]>>}
  ELSE LET shorter == NodeLists[n - 1]
           nodes   == Leaves \cup {o \in Operations(n) : InOrder(o.ins)}
       IN  {Append(p[1], p[2]) :
              p \in {q \in shorter \X nodes :
                       q[2].op = "placeholder" => Last(q[1]).op = "placeholder"}}

GraphOf(l, o) ==
  [n |-> Len(l), op |-> [i \in DOMAIN l |-> l[i].op], ins |-> [i \in DOMAIN l |-> l[i].ins],
   bytes |-> [i \in DOMAIN l |-> l[i].bytes], out |-> o, trainable |-> {}]

MCGraphs ==
  UNION {{GraphOf(l, o) : l \in NodeLists[n], o \in 1..n} : n \in 1..MaxNodes}
=============================================================================
