----------------------------- MODULE RingBuffer -----------------------------
(***************************************************************************)
(* The ring buffer of the C runtime (util/ringbuffer.c): an array that     *)
(* doubles when it is full, the place of the first element, and how many   *)
(* elements there are.                                                     *)
(***************************************************************************)
EXTENDS Integers, Sequences

CONSTANT Zero                    \* an item of which every byte is 0 (calloc)

(* Ring buffers of items, an element of Item or Zero. *)
RingOf(Item, size) ==
    [buffer : [0 .. size - 1 -> Item \cup {Zero}], firstElement : 0 .. size - 1,
     nElements : 0 .. size, bufferSize : {size}]

allocRingBuffer(bufferSize) ==
    LET size == IF bufferSize > 0 THEN bufferSize ELSE 1
    IN [buffer |-> [k \in 0 .. size - 1 |-> Zero], firstElement |-> 0,
        nElements |-> 0, bufferSize |-> size]

ringBufferLength(rb) == rb.nElements

(* The assertions of the function: i is an index of the buffer. *)
getRingData(rb, i) == rb.buffer[(rb.firstElement + i) % rb.bufferSize]

(* Mutant: the items keep their places in the array, the first element is now
   the one at place 0. *)
expandRingBufferCopy(rb) ==
    LET size == 2 * rb.bufferSize
    IN [buffer |-> [k \in 0 .. size - 1 |-> IF k < rb.nElements THEN rb.buffer[k] ELSE Zero],
        firstElement |-> 0, nElements |-> rb.nElements, bufferSize |-> size]

expandRingBuffer(rb) ==
    LET size == 2 * rb.bufferSize
    IN [buffer |-> [k \in 0 .. size - 1 |-> IF k < rb.nElements THEN getRingData(rb, k) ELSE Zero],
        firstElement |-> 0, nElements |-> rb.nElements, bufferSize |-> size]

(* Mutant: the buffer is full only when it holds one item more. *)
appendRingDataLate(rb, value) ==
    LET roomy == IF rb.bufferSize < rb.nElements THEN expandRingBuffer(rb) ELSE rb
        place == (roomy.firstElement + roomy.nElements) % roomy.bufferSize
    IN [roomy EXCEPT !.buffer[place] = value, !.nElements = @ + 1]

appendRingData(rb, value) ==
    LET roomy == IF rb.bufferSize < rb.nElements + 1 THEN expandRingBuffer(rb) ELSE rb
        place == (roomy.firstElement + roomy.nElements) % roomy.bufferSize
    IN [roomy EXCEPT !.buffer[place] = value, !.nElements = @ + 1]

(* The assertions of the function: n < rb.nElements. *)
dequeueNFirstRingDatas(rb, n) ==
    [rb EXCEPT !.firstElement = (@ + n) % rb.bufferSize, !.nElements = @ - n]

(* What the buffer holds, first element first. *)
Contents(rb) == [k \in 1 .. rb.nElements |-> getRingData(rb, k - 1)]
=============================================================================
