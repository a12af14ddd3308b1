---------------------------- MODULE DelayBuffer ----------------------------
(***************************************************************************)
(* The operator delay of Modelica in the C runtime (delay.c): after every  *)
(* step the value of the delayed expression is stored in a ring buffer,    *)
(* rows that no delay can reach any more are taken out, and delayImpl      *)
(* answers with a row or between two of them.                              *)
(*                                                                         *)
(* The unit of time is DBL_EPSILON; steps and delays are even numbers of   *)
(* units.  A value is named by the number of its row.                      *)
(***************************************************************************)
EXTENDS RingBuffer

CONSTANTS
    BufferSize,                  \* the first size of a buffer, 1024 in the code
    StartTimes,
    Delays,                      \* the values delayMax may have
    StepSizes,                   \* the lengths of steps, 0 at an event
    MaxRows,                     \* bound: how many rows are stored
    Current                      \* the value of the expression now

ASSUME DelayAssumption ==
    /\ BufferSize \in Int
    /\ StartTimes \subseteq Int
    /\ Delays \cup StepSizes \subseteq Nat
    /\ \A d \in Delays \cup StepSizes : d % 2 = 0
    /\ MaxRows \in Nat \ {0}

VARIABLES
    tStart,                      \* simulationInfo->tStart
    delayMax,
    delayStruct,                 \* the ring buffer of the expression
    history                      \* history: every row that was stored

vars == <<tStart, delayMax, delayStruct, history>>

Row(t, value) == [t |-> t, value |-> value]     \* TIME_AND_VALUE

Init ==
    /\ tStart \in StartTimes
    /\ delayMax \in Delays
    /\ delayStruct = allocRingBuffer(BufferSize)
    /\ history = <<>>

-----------------------------------------------------------------------------
(* Bisection of the window w = <<start, end>> of the rows. *)
findTime(time, rb) ==
    LET search[w \in (0 .. rb.nElements) \X (0 .. rb.nElements)] ==
            LET i == (w[1] + w[2]) \div 2
                t == getRingData(rb, i).t
                next == IF t > time THEN <<w[1], i>> ELSE <<i, w[2]>>
            IN IF t # time /\ next[2] > next[1] + 1 THEN search[next] ELSE next[1]
    IN search[<<0, ringBufferLength(rb)>>]

(* time - delayMax + DBL_EPSILON: the last term may be lost by rounding. *)
Bounds(time) == {time - delayMax, time - delayMax + 1}

(* Mutant: nothing is taken out. *)
TrimmedNever(rb, bound) == rb

Trimmed(rb, bound) ==
    LET i == findTime(bound, rb) IN IF i > 0 THEN dequeueNFirstRingDatas(rb, i - 1) ELSE rb

(* The assertion of the function: tStart <= time. *)
storeDelayedExpression(time) ==
    LET row == Row(time, Len(history) + 1)
    IN /\ \E bound \in Bounds(time) :
             delayStruct' = Trimmed(appendRingData(delayStruct, row), bound)
       /\ history' = Append(history, row)

(* At the end of the initialization. *)
StoreInitial ==
    /\ history = <<>>
    /\ storeDelayedExpression(tStart)
    /\ UNCHANGED <<tStart, delayMax>>

(* updateContinuousSystem, at the end of a step. *)
StoreStep ==
    /\ history # <<>>
    /\ Len(history) < MaxRows
    /\ \E d \in StepSizes : storeDelayedExpression(history[Len(history)].t + d)
    /\ UNCHANGED <<tStart, delayMax>>

Next == StoreInitial \/ StoreStep

Spec == Init /\ [][Next]_vars

-----------------------------------------------------------------------------
(* delayImpl *)

Exactly(value) == <<"value", value>>
Between(row0, row1, timeStamp) == <<"linear interpolation", row0, row1, timeStamp>>

Interpolated(row0, row1, timeStamp) ==
    IF row0.t = timeStamp THEN Exactly(row0.value)
    ELSE IF row1.t = timeStamp THEN Exactly(row1.value)
    ELSE Between(row0, row1, timeStamp)

(* Mutant: rows are looked up also after the last one. *)
delayImplLast(time, delayTime) ==
    LET length == ringBufferLength(delayStruct)
        row(k) == getRingData(delayStruct, k)
        i == findTime(time - delayTime, delayStruct)
    IN IF time <= tStart \/ length = 0 THEN Exactly(Current)
       ELSE IF time <= tStart + delayTime THEN Exactly(row(0).value)
       ELSE IF i + 1 = length THEN Exactly(row(i).value)
       ELSE Interpolated(row(i), row(i + 1), time - delayTime)

delayImpl(time, delayTime) ==
    LET length == ringBufferLength(delayStruct)
        row(k) == getRingData(delayStruct, k)
        timeStamp == time - delayTime
        i == findTime(timeStamp, delayStruct)
    IN IF time <= tStart \/ length = 0 THEN Exactly(Current)
       ELSE IF time <= tStart + delayTime THEN Exactly(row(0).value)
       ELSE IF timeStamp > row(length - 1).t
            THEN Interpolated(row(length - 1), Row(time, Current), timeStamp)
       ELSE IF i + 1 = length THEN Exactly(row(i).value)
       ELSE Interpolated(row(i), row(i + 1), timeStamp)

-----------------------------------------------------------------------------
(* Properties *)

Rows == 1 .. Len(history)
LastTime == IF history = <<>> THEN tStart ELSE history[Len(history)].t

(* Type correctness. *)
TypeOK ==
    /\ tStart \in Int /\ delayMax \in Delays
    /\ delayStruct.bufferSize \in Nat \ {0}
    /\ delayStruct \in RingOf({history[k] : k \in Rows}, delayStruct.bufferSize)
    /\ history \in Seq([t : Int, value : 1 .. MaxRows])

(* Wherever the first element is when rows are added, taken out, wrapped
   around the end of the array and moved to a larger one: the buffer holds the
   last rows that were stored, in their order, and at least one. *)
RingIsSuffix ==
    LET n == ringBufferLength(delayStruct)
    IN /\ n <= Len(history)
       /\ history # <<>> => n > 0
       /\ Contents(delayStruct) = SubSeq(history, Len(history) - n + 1, Len(history))

(* The rows whose value delay may have at timeStamp, and where there is none,
   the rows next to it. *)
Expected(time, delayTime) ==
    LET timeStamp == time - delayTime
        at == {k \in Rows : history[k].t = IF timeStamp < tStart THEN tStart ELSE timeStamp}
        before == {k \in Rows : history[k].t < timeStamp}
        after == {k \in Rows : history[k].t > timeStamp}
        row0 == history[CHOOSE k \in before : \A j \in before : j <= k]
        row1 == IF after = {} THEN Row(time, Current)
                ELSE history[CHOOSE k \in after : \A j \in after : k <= j]
    IN IF history = <<>> \/ time = tStart THEN {Exactly(Current)}
       ELSE IF at # {} THEN {Exactly(history[k].value) : k \in at}
       ELSE IF timeStamp = time THEN {Exactly(Current)}
       ELSE {Between(row0, row1, timeStamp)}

(* "Returns: expr(time-delayTime) for time>time.start + delayTime and
   expr(time.start) for time <= time.start + delayTime", for every delay up to
   delayMax and every time the solver may ask for after the last step: as if no
   row had ever been taken out. *)
AnswersAreRight ==
    \A ahead, half \in 0 .. (delayMax \div 2) + 2 :
        LET time == LastTime + 2 * ahead
            delayTime == 2 * half
        IN delayTime <= delayMax => delayImpl(time, delayTime) \in Expected(time, delayTime)

(* The buffer does not grow with the simulation: apart from two rows there are
   only rows that some delay still reaches. *)
OldRowsGo ==
    \A k \in DOMAIN Contents(delayStruct) :
        k > 2 => Contents(delayStruct)[k].t >= LastTime - delayMax
=============================================================================
