----------------------------- MODULE DataLoader -----------------------------
(***************************************************************************)
(* DataLoader of python/kansai/data.py: the batches of a dataset, shuffled *)
(* for every iterator.  Samples are 1..n.  Several iterators over one      *)
(* loader may be alive at the same time.                                   *)
(***************************************************************************)
EXTENDS Integers, Sequences

CONSTANTS
  Loaders,      \* [n, batch_size, shuffle, drop_last]
  Iterators

ASSUME LoadersAssumption ==
  Loaders \subseteq [n : Nat, batch_size : Nat \ {0}, shuffle : BOOLEAN, drop_last : BOOLEAN]

VARIABLES
  loader,
  state,        \* iterator -> "fresh", "running" or "exhausted"
  indices,      \* iterator -> the order it goes through the samples
  start,        \* iterator -> how many of them it has passed
  yielded,      \* iterator -> how many batches it has yielded
  seen          \* iterator -> sample -> how often it was in a batch

loaderVars == <<loader, state, indices, start, yielded, seen>>

Samples == 1..loader.n

(* Each sample once, in any order; random.shuffle may give any of them.    *)
Orders ==
  {order \in [Samples -> Samples] : \A j, k \in Samples : order[j] = order[k] => j = k}

Unshuffled == [k \in Samples |-> k]

(* indices are made when the generator first runs, not when it is created. *)
OrdersOf(e) ==
  IF state[e] # "fresh" THEN {indices[e]} ELSE IF loader.shuffle THEN Orders ELSE {Unshuffled}

(* indices[start:start + batch_size] ends where the list ends.             *)
BatchEnd(e) ==
  IF start[e] + loader.batch_size <= loader.n THEN start[e] + loader.batch_size ELSE loader.n

(* Mutation of Finished: a short batch is dropped, drop_last or not.       *)
FinishedShort(e) == start[e] >= loader.n \/ BatchEnd(e) - start[e] < loader.batch_size

(* range(0, n, batch_size) has come to its end, or drop_last breaks.       *)
Finished(e) ==
  \/ start[e] >= loader.n
  \/ loader.drop_last /\ BatchEnd(e) - start[e] < loader.batch_size

LoaderInit ==
  /\ loader \in Loaders
  /\ state = [e \in Iterators |-> "fresh"]
  /\ indices = [e \in Iterators |-> Unshuffled]
  /\ start = [e \in Iterators |-> 0]
  /\ yielded = [e \in Iterators |-> 0]
  /\ seen = [e \in Iterators |-> [s \in Samples |-> 0]]

Batch(e, order) == {order[k] : k \in (start[e] + 1)..BatchEnd(e)}

Yield(e) ==
  /\ state[e] # "exhausted" /\ ~Finished(e)
  /\ \E order \in OrdersOf(e) :
       /\ indices' = [indices EXCEPT ![e] = order]
       /\ seen' = [seen EXCEPT ![e] =
                     [s \in Samples |-> IF s \in Batch(e, order) THEN seen[e][s] + 1 ELSE seen[e][s]]]
  /\ state' = [state EXCEPT ![e] = "running"]
  /\ start' = [start EXCEPT ![e] = start[e] + loader.batch_size]
  /\ yielded' = [yielded EXCEPT ![e] = yielded[e] + 1]
  /\ UNCHANGED loader

Stop(e) ==
  /\ state[e] # "exhausted" /\ Finished(e)
  /\ state' = [state EXCEPT ![e] = "exhausted"]
  /\ UNCHANGED <<loader, indices, start, yielded, seen>>

LoaderNext == \E e \in Iterators : Yield(e) \/ Stop(e)

LoaderSpec == LoaderInit /\ [][LoaderNext]_loaderVars

(* __len__                                                                 *)
NumBatches ==
  IF loader.drop_last THEN loader.n \div loader.batch_size
  ELSE (loader.n + loader.batch_size - 1) \div loader.batch_size

(***************************************************************************)
(* Properties                                                              *)
(***************************************************************************)
(* What an iterator has gone through is what it has handed out: the        *)
(* samples before start once each and no other, whoever else is iterating; *)
(* when it is exhausted that is every sample, or with drop_last all but    *)
(* fewer than a batch, in as many batches as __len__ says (data.py:76-94). *)
EverySampleOnce ==
  \A e \in Iterators :
    /\ \A k \in Samples : seen[e][indices[e][k]] = IF k <= start[e] THEN 1 ELSE 0
    /\ state[e] = "exhausted" =>
         /\ loader.n - start[e] < IF loader.drop_last THEN loader.batch_size ELSE 1
         /\ yielded[e] = NumBatches
=============================================================================
