------------------------------- MODULE PyNetwork -------------------------------
(***************************************************************************)
(* The Python objects (touchstone-py/src/lib.rs): touchstone_rs.read hands *)
(* the vectors of an accepted network to NumPy and reshapes them, and the  *)
(* constructor builds the same object from a caller's arrays.              *)
(*                                                                         *)
(* A caller's array is a view of memory: shape, strides and the address of *)
(* its first element, C-ordered, transposed or reversed.  An element's     *)
(* value is the address it is read from.  An object's array is the flat    *)
(* vector NumPy was given and the shape it was given.                      *)
(***************************************************************************)
EXTENDS ReadFile

(* A caller's arrays: frequencies of rank one, matrices of rank three.       *)
ASSUME ViewsAssumption ==
    \A c \in Calls : c.entry = "new" =>
        /\ c.f.shape \in Seq(Nat) /\ Len(c.f.shape) = 1
        /\ c.s.shape \in Seq(Nat) /\ Len(c.s.shape) = 3
        /\ c.z0.is = "array" => c.z0.shape \in Seq(Nat)

VARIABLES
    object,   \* the Network object, or NoObject
    raised    \* the Python exception, or "none"

vars == <<readVars, object, raised>>

NoObject == [nports |-> None]
Fifty == -50    \* the default reference, at no address

Init ==
    /\ ReadInit
    /\ object = NoObject
    /\ raised = "none"

Size(shape) == FoldLeft(LAMBDA product, n : product * n, 1, shape)

(* How many elements one step along an axis passes over in C order.          *)
Step(shape, axis) == Size(SubSeq(shape, axis + 1, Len(shape)))

(* The k-th index, from 0, in logical order: the last axis fastest.          *)
IndexAt(shape, k) ==
    [axis \in 1..Len(shape) |-> (k \div Step(shape, axis)) % shape[axis]]

Address(view, index) ==
    FoldLeft(+, view.base, [axis \in 1..Len(index) |-> view.strides[axis] * index[axis]])

(* The slip of copying a view's buffer as it lies in memory.                 *)
MemoryOrder(view) ==
    LET least == Min({Address(view, IndexAt(view.shape, k)) : k \in 0..(Size(view.shape) - 1)})
    IN  [k \in 1..Size(view.shape) |-> least + k - 1]

(* as_array().iter(): logical order, whatever the layout.                    *)
Elements(view) ==
    [k \in 1..Size(view.shape) |-> Address(view, IndexAt(view.shape, k - 1))]

Array(shape, flat) == [shape |-> shape, flat |-> flat]

(* NumPy refuses to reshape to another number of elements.                   *)
Reshapes(array) == Size(array.shape) = Len(array.flat)

(* arr[index] of a C-contiguous array.                                       *)
Item(array, index) ==
    array.flat[FoldLeft(+, 1, [axis \in 1..Len(index) |->
                                  index[axis] * Step(array.shape, axis)])]

(* Network::at and Network::z0_at: offsets into the core's flat vectors.     *)
At(n, point, row, col) == point * n * n + row * n + col
ReferenceAt(n, point, port) == point * n + port
-----------------------------------------------------------------------------
(* The slip of one reference for each port, as a file declares it.           *)
ReferenceShapeDeclared(points, n) == <<n>>

ReferenceShape(points, n) == <<points, n>>

(* Network::from_core: an entry of the core's vectors is its offset there.   *)
FromCore ==
    LET points == Len(freqHz)
    IN  [nports |-> ports,
         f      |-> Array(<<points>>, freqHz),
         s      |-> Array(<<points, ports, ports>>, [k \in 1..entries |-> k - 1]),
         z0     |-> Array(ReferenceShape(points, ports), [k \in 1..references |-> k - 1]),
         noise  |-> noiseHz]

Raise(exception) ==
    /\ raised' = exception
    /\ UNCHANGED <<readVars, object>>

Build(network) ==
    /\ object' = network
    /\ UNCHANGED <<readVars, raised>>

HasAnswer ==
    IF call.entry \in {"str", "file"} THEN Returned
    ELSE object # NoObject \/ raised # "none"

(* touchstone_rs.read, behind parse_file.                                    *)
HandOver ==
    /\ call.entry = "read"
    /\ Returned
    /\ ~HasAnswer
    /\ \/ result = "error" /\ Raise("TouchstoneError")
       \/ result = "network" /\ Reshapes(FromCore.s) /\ Reshapes(FromCore.z0)
                             /\ Build(FromCore)
       \/ result = "network" /\ ~(Reshapes(FromCore.s) /\ Reshapes(FromCore.z0))
                             /\ Raise("ValueError")

(* The slip of taking the frequencies as they come.                          *)
ShapesFitButFrequencies(s, f, z0) ==
    /\ s.shape[2] = s.shape[3]
    /\ \/ z0.is = "none"
       \/ z0.is = "array" /\ z0.shape \in {<<s.shape[2]>>, <<s.shape[1], s.shape[2]>>}

(* Network::new's checks of its arguments.                                   *)
ShapesFit(s, f, z0) ==
    /\ s.shape[2] = s.shape[3]
    /\ f.shape[1] = s.shape[1]
    /\ \/ z0.is = "none"
       \/ z0.is = "array" /\ z0.shape \in {<<s.shape[2]>>, <<s.shape[1], s.shape[2]>>}

(* z0_values: the shape as it is and the elements in one row.                *)
Z0Values(z0) == Array(z0.shape, Elements(z0))

(* One reference for each port is tiled over the points.                     *)
References(z0, points, n) ==
    IF z0.is = "none" THEN [k \in 1..(points * n) |-> Fifty]
    ELSE LET given == Z0Values(z0)
         IN  IF Len(given.shape) = 1
             THEN [k \in 1..(points * n) |-> given.flat[((k - 1) % n) + 1]]
             ELSE given.flat

(* Network(f, s, z0).                                                        *)
Construct ==
    /\ call.entry = "new"
    /\ ~HasAnswer
    /\ LET points == call.s.shape[1]
           n      == call.s.shape[2]
       IN  \/ /\ ~ShapesFit(call.s, call.f, call.z0)
              /\ Raise("ValueError")
           \/ /\ ShapesFit(call.s, call.f, call.z0)
              /\ Build([nports |-> n,
                        f      |-> Array(<<call.f.shape[1]>>, Elements(call.f)),
                        s      |-> Array(<<points, n, n>>, Elements(call.s)),
                        z0     |-> Array(<<points, n>>, References(call.z0, points, n)),
                        noise  |-> <<>>])

Done == HasAnswer /\ UNCHANGED vars

Next ==
    \/ ReadNext /\ UNCHANGED <<object, raised>>
    \/ HandOver
    \/ Construct
    \/ Done

Spec ==
    /\ Init /\ [][Next]_vars
    /\ ReadFairness
    /\ WF_vars(HandOver \/ Construct)
-----------------------------------------------------------------------------
(* However it was made, a Network object has arrays of the documented shapes *)
(* that agree on the points and the ports, each holding as many elements as  *)
(* its shape says: (F,), (F, N, N) and (F, N).                               *)
ObjectsAreWhole ==
    object # NoObject =>
        LET points == Len(object.f.flat)
            n      == object.nports
        IN  /\ object.f.shape = <<points>>
            /\ object.s.shape = <<points, n, n>>
            /\ object.z0.shape = <<points, n>>
            /\ Reshapes(object.s) /\ Reshapes(object.z0)

(* s[f, r, c] and z0[f, p] of an object are what Network::at and z0_at give  *)
(* for a file read, and the caller's own elements for an object constructed, *)
(* in whatever order its arrays lie in memory; z0 given once is repeated.    *)
ObjectsHoldWhatWasGiven ==
    object # NoObject =>
        \A point \in 0..(Len(object.f.flat) - 1), row \in 0..(object.nports - 1) :
            LET z0 == Item(object.z0, <<point, row>>)
            IN  IF call.entry = "read"
                THEN /\ \A col \in 0..(ports - 1) :
                            Item(object.s, <<point, row, col>>) = At(ports, point, row, col)
                     /\ z0 = ReferenceAt(ports, point, row)
                     /\ Item(object.f, <<point>>) = freqHz[point + 1]
                ELSE /\ \A col \in 0..(object.nports - 1) :
                            Item(object.s, <<point, row, col>>)
                                = Address(call.s, <<point, row, col>>)
                     /\ Item(object.f, <<point>>) = Address(call.f, <<point>>)
                     /\ z0 = IF call.z0.is = "none" THEN Fifty
                             ELSE IF Len(call.z0.shape) = 1 THEN Address(call.z0, <<row>>)
                             ELSE Address(call.z0, <<point, row>>)

(* Whatever a file holds, read raises TouchstoneError or nothing: an accepted*)
(* network always has the shapes NumPy is asked for (from_core's reshapes).  *)
ReadRaisesOnlyTouchstoneError ==
    call.entry = "read" => raised \in {"none", "TouchstoneError"}

(* Every call returns.                                                       *)
EveryCallReturns == <>HasAnswer
=============================================================================
