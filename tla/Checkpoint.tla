----------------------------- MODULE Checkpoint -----------------------------
(***************************************************************************)
(* save() and load() of python/kansai/serialize.py.  A file is a sequence  *)
(* of units: the magic, the length, the header, and every float of the     *)
(* data; a process that stops while it writes leaves any prefix of them.   *)
(* Sizes and offsets are counted in floats, not in bytes.                  *)
(***************************************************************************)
EXTENDS ModuleTree

CONSTANT Architectures  \* [attrs, heap]: what a constructor makes

VARIABLES
  disk,         \* the file, or << >> while there is none
  io,           \* the call in progress: "idle", "save" or "load", with
                \* what is left to write, or to load, and the file's content
  said,         \* how the last load() ended: "nothing", "loaded", "refused"
  attempted,    \* what the last save() had to write: path -> contents
  before        \* what the module held when the last load() began

checkpointVars == <<attrs, heap, disk, io, said, attempted, before>>

Idle == [call |-> "idle", left |-> << >>, header |-> << >>, blob |-> << >>]

Contents ==
  LET named == NamedParameters
  IN  [k \in DOMAIN named |->
         [path |-> named[k].path, shape |-> heap[named[k].tensor].shape,
          flat |-> heap[named[k].tensor].flat]]

Data(entries) == FlattenSeq([k \in DOMAIN entries |-> entries[k].flat])

(* Mutation of Header: the offset is not advanced.                         *)
HeaderAtZero(entries) ==
  [k \in DOMAIN entries |->
     [path |-> entries[k].path, shape |-> entries[k].shape, offset |-> 0,
      size |-> Len(entries[k].flat)]]

Header(entries) ==
  [k \in DOMAIN entries |->
     [path |-> entries[k].path, shape |-> entries[k].shape,
      offset |-> Len(Data(SubSeq(entries, 1, k - 1))), size |-> Len(entries[k].flat)]]

Image(entries) ==
  LET flat == Data(entries)
  IN  << <<"magic">>, <<"length">>, <<"header", Header(entries)>> >>
        \o [k \in DOMAIN flat |-> <<"float", flat[k]>>]

CheckpointInit ==
  /\ \E a \in Architectures : attrs = a.attrs /\ heap = a.heap
  /\ disk = << >> /\ io = Idle /\ said = "nothing"
  /\ attempted = << >> /\ before = << >>

(* save: everything is gathered, and open(path, "wb") empties the file.    *)
OpenForSave ==
  /\ io = Idle
  /\ attempted' = Contents
  /\ disk' = << >>
  /\ io' = [Idle EXCEPT !.call = "save", !.left = Image(Contents)]
  /\ UNCHANGED <<attrs, heap, said, before>>

Write ==
  /\ io.call = "save"
  /\ IF io.left = << >> THEN io' = Idle /\ UNCHANGED disk
     ELSE disk' = Append(disk, Head(io.left)) /\ io' = [io EXCEPT !.left = Tail(io.left)]
  /\ UNCHANGED <<attrs, heap, said, attempted, before>>

PathsOf(entries) == {entries[k].path : k \in DOMAIN entries}

(* load raises: what it has set by then stays.                             *)
Refused == io' = Idle /\ said' = "refused" /\ UNCHANGED <<attrs, heap>>

(* load, up to its loop: magic, length and header must be there, and name  *)
(* the parameters that the module names.                                   *)
OpenForLoad ==
  /\ io = Idle
  /\ before' = Contents
  /\ IF Len(disk) >= 3 /\ PathsOf(disk[3][2]) = PathsOf(NamedParameters)
     THEN /\ said' = "nothing"
          /\ io' = [call |-> "load", left |-> NamedParameters, header |-> disk[3][2],
                    blob |-> [k \in 1..(Len(disk) - 3) |-> disk[k + 3][2]]]
          /\ UNCHANGED <<attrs, heap>>
     ELSE Refused
  /\ UNCHANGED <<disk, attempted>>

Meta(path) == io.header[CHOOSE k \in DOMAIN io.header : io.header[k].path = path]

Raw(meta) ==
  IF meta.offset + meta.size <= Len(io.blob)
  THEN SubSeq(io.blob, meta.offset + 1, meta.offset + meta.size)
  ELSE SubSeq(io.blob, meta.offset + 1, Len(io.blob))

(* Mutation of Acceptable: the shape is the file's affair.                 *)
AnyShapeIsAcceptable(named, meta) == Len(Raw(meta)) = meta.size

(* The checks of shape, of size, and of the range within the file.         *)
Acceptable(named, meta) ==
  /\ heap[named.tensor].shape = meta.shape
  /\ meta.size = Len(heap[named.tensor].flat)
  /\ Len(Raw(meta)) = meta.size

(* One turn of load's loop: a new tensor takes the parameter's place.      *)
LoadParameter ==
  /\ io.call = "load"
  /\ IF io.left = << >> THEN io' = Idle /\ said' = "loaded" /\ UNCHANGED <<attrs, heap>>
     ELSE LET named == Head(io.left)
              meta  == Meta(named.path)
          IN  IF Acceptable(named, meta)
              THEN /\ heap' = Append(heap, [shape |-> meta.shape, flat |-> Raw(meta),
                                            requires_grad |-> TRUE])
                   /\ attrs' = SetByPath(named.path, Len(heap) + 1)
                   /\ io' = [io EXCEPT !.left = Tail(@)]
                   /\ UNCHANGED said
              ELSE Refused
  /\ UNCHANGED <<disk, attempted, before>>

(* The process stops wherever it is; another one builds a module anew.     *)
Restart ==
  /\ \E a \in Architectures : attrs' = a.attrs /\ heap' = a.heap
  /\ io' = Idle /\ said' = "nothing"
  /\ UNCHANGED <<disk, attempted, before>>

(***************************************************************************)
(* Properties                                                              *)
(***************************************************************************)
(* A load() that returns has given every parameter of the module what the  *)
(* last save() had to write: never less, of an earlier one, or of a file   *)
(* torn by a stop in the middle of it (serialize.py:117-199).              *)
LoadedIsSaved ==
  said = "loaded" =>
    /\ PathsOf(Contents) = PathsOf(attempted)
    /\ \A j \in DOMAIN Contents, k \in DOMAIN attempted :
         Contents[j].path = attempted[k].path => Contents[j] = attempted[k]

(* A load() that raises leaves the module with parameters it can run with: *)
(* some first ones from the file, the others as they were, every one of    *)
(* the shape it had (serialize.py:173-199).                                *)
RefusedLoadIsAPrefix ==
  said = "refused" =>
    \E n \in 0..Len(before) :
      \A k \in DOMAIN before :
        /\ Contents[k].shape = before[k].shape
        /\ IF k <= n THEN Contents[k] \in Range(attempted) ELSE Contents[k] = before[k]
=============================================================================
