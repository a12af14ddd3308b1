------------------------------ MODULE ErrorExt ------------------------------
(***************************************************************************)
(* The error queue of one thread of the compiler                           *)
(* (Compiler/runtime/errorext.cpp): the messages, the stack of checkpoints *)
(* the front end sets before it tries something and rolls back to when it  *)
(* fails, the two counters the front end compares to see whether a call    *)
(* has reported an error, and the messages popCheckPoint has handed out.   *)
(*                                                                         *)
(* An operation that moves messages one by one is a loop of steps here: pc *)
(* is "removing" or "pushing" while it lasts.  A message stands for its    *)
(* text, type, severity and id, which is what pop_message compares.        *)
(***************************************************************************)
EXTENDS Integers, Sequences, FiniteSets

CONSTANTS
  Messages,        \* the messages that are reported: records with a severity
  Ids,             \* the identifiers of checkpoints
  MaxMessages,     \* bound: messages in the queue and in the newest list handed out
  MaxCheckpoints,  \* bound: checkpoints that are set at a time
  MaxHandles,      \* bound: lists popCheckPoint has handed out at a time
  MaxErrorPrints   \* bound: calls of printErrorsNoWarning

\* ErrorLevel_internal is counted as ErrorLevel_error is.
Severities == {"error", "warning", "notification"}

ASSUME ConstantsAssumption ==
  /\ \A m \in Messages : m.severity \in Severities
  /\ MaxMessages \in Nat /\ MaxCheckpoints \in Nat
  /\ MaxHandles \in Nat /\ MaxErrorPrints \in Nat

VARIABLES
  pc,                  \* "idle", "removing", "pushing" or "aborted"
  op,                  \* the operation in progress, with its argument
  last,                \* the message removed last by pop_message: <<>> or <<m>>
  result,              \* what the operation has gathered, or has yet to push
  queue,               \* errorMessageQueue, oldest message first
  checkPoints,         \* the stack of [first, id]
  numErrorMessages, numWarningMessages,
  handles              \* the lists popCheckPoint has returned, newest last

\* History, for the properties; no guard reads it.
VARIABLES
  before,              \* the queue when the operation in progress began
  saved,               \* per checkpoint, the queue when it was set (none of it, if
                       \* it was emptied since), and whether it was not emptied
  errorPrints          \* how often printErrorsNoWarning was called

queueVars == <<queue, numErrorMessages, numWarningMessages>>
stackVars == <<checkPoints, saved>>
loopVars  == <<pc, op, last, result, before>>

vars == <<queueVars, stackVars, loopVars, handles, errorPrints>>

Top(s)   == s[Len(s)]
Front(s) == SubSeq(s, 1, Len(s) - 1)

\* Operations that go back to the checkpoint at the top of the stack, those of
\* them that check its identifier, and operations that empty the queue.
NamedRollBacks == {"rollBack", "rollBackAndPrint", "popCheckPoint"}
RollBacks      == NamedRollBacks \cup {"rollbackNumCheckpoints"}
Drains         == {"clearMessages", "getMessages", "printMessagesStr",
                   "printErrorsNoWarning"}

NoOp == [name |-> "none"]

Init ==
  /\ pc = "idle" /\ op = NoOp /\ last = <<>> /\ result = <<>> /\ before = <<>>
  /\ queue = <<>> /\ numErrorMessages = 0 /\ numWarningMessages = 0
  /\ checkPoints = <<>> /\ saved = <<>>
  /\ handles = <<>> /\ errorPrints = 0

Begin(o, toPush) ==
  /\ pc = "idle"
  /\ pc' = IF toPush = <<>> THEN "removing" ELSE "pushing"
  /\ op' = o /\ result' = toPush /\ last' = <<>> /\ before' = queue

\* The operation returns; what it has gathered goes to its caller.
Return == pc' = "idle" /\ op' = NoOp /\ result' = <<>> /\ last' = <<>> /\ before' = <<>>

-----------------------------------------------------------------------------
(* Messages and checkpoints are added.                                     *)

\* push_message: the message goes to the end of the queue and is counted.
PushMessage(m) ==
  /\ queue' = Append(queue, m)
  /\ numErrorMessages' = numErrorMessages + (IF m.severity = "error" THEN 1 ELSE 0)
  /\ numWarningMessages' = numWarningMessages + (IF m.severity = "warning" THEN 1 ELSE 0)

\* How many messages the newest list popCheckPoint has handed out holds.
HandedOut == IF handles = <<>> THEN 0 ELSE Len(Top(handles).msgs)

AddMessage ==
  /\ pc = "idle" /\ Len(queue) + HandedOut < MaxMessages
  /\ \E m \in Messages : PushMessage(m)
  /\ UNCHANGED <<stackVars, loopVars, handles, errorPrints>>

SetCheckpoint ==
  /\ pc = "idle" /\ Len(checkPoints) < MaxCheckpoints
  /\ \E id \in Ids :
       checkPoints' = Append(checkPoints, [first |-> Len(queue), id |-> id])
  /\ saved' = Append(saved, [queue |-> queue, intact |-> TRUE])
  /\ UNCHANGED <<queueVars, loopVars, handles, errorPrints>>

-----------------------------------------------------------------------------
(* Checkpoints are deleted; the messages stay.                             *)

DelCheckpoint ==
  /\ pc = "idle" /\ checkPoints # <<>>
  /\ checkPoints' = Front(checkPoints) /\ saved' = Front(saved)
  /\ UNCHANGED <<queueVars, loopVars, handles, errorPrints>>

DeleteNumCheckpoints ==
  /\ pc = "idle"
  /\ \E n \in 1..Len(checkPoints) :
       /\ checkPoints' = SubSeq(checkPoints, 1, Len(checkPoints) - n)
       /\ saved' = SubSeq(saved, 1, Len(saved) - n)
  /\ UNCHANGED <<queueVars, loopVars, handles, errorPrints>>

\* A wrong identifier, an empty stack or a too large number ends the process, and
\* with it all of this.  delCheckpoint and deleteNumCheckpoints check before they
\* change anything.
EndProcess ==
  /\ pc' = "aborted"
  /\ op' = NoOp /\ last' = <<>> /\ result' = <<>> /\ before' = <<>>
  /\ queue' = <<>> /\ numErrorMessages' = 0 /\ numWarningMessages' = 0
  /\ checkPoints' = <<>> /\ saved' = <<>> /\ handles' = <<>> /\ errorPrints' = 0

Abort == pc = "idle" /\ EndProcess

-----------------------------------------------------------------------------
(* Messages are removed, newest first.                                     *)

BeginRollBack ==
  /\ checkPoints # <<>>
  /\ \/ \E name \in NamedRollBacks : \E id \in Ids : Begin([name |-> name, id |-> id], <<>>)
     \/ \E n \in 1..Len(checkPoints) :
          Begin([name |-> "rollbackNumCheckpoints", n |-> n], <<>>)
  /\ op'.name = "popCheckPoint" => Len(handles) < MaxHandles
  /\ UNCHANGED <<queueVars, stackVars, handles, errorPrints>>

\* An operation that empties the queue leaves the checkpoints as they are.
BeginDrain ==
  /\ \E name \in Drains : Begin([name |-> name], <<>>)
  /\ IF op'.name = "printErrorsNoWarning"
     THEN errorPrints < MaxErrorPrints /\ errorPrints' = errorPrints + 1
     ELSE UNCHANGED errorPrints
  /\ saved' = [i \in DOMAIN saved |->
                 [queue |-> <<>>, intact |-> saved[i].intact /\ queue = <<>>]]
  /\ UNCHANGED <<queueVars, checkPoints, handles>>

\* How far the operation empties the queue.
Limit == IF op.name \in RollBacks THEN Top(checkPoints).first ELSE 0

\* Whether the operation gathers m when it removes it: popCheckPoint keeps every
\* message, printErrorsNoWarning the errors, and the others that print use one of
\* a row of equal messages, because pop_message removes the whole row.
IsGathered(m) ==
  \/ op.name = "popCheckPoint"
  \/ op.name = "printErrorsNoWarning" /\ m.severity = "error"
  \/ op.name \in {"rollBackAndPrint", "getMessages", "printMessagesStr"} /\ last # <<m>>

\* Mutant: every message of a row of equal messages is returned.
GatherAll(m) ==
  IF IsGathered(m) \/ op.name = "getMessages" THEN <<m>> \o result ELSE result

\* Mutant: what is handed out or printed begins with the newest message.
GatherReversed(m) == IF IsGathered(m) THEN Append(result, m) ELSE result

Gather(m) == IF IsGathered(m) THEN <<m>> \o result ELSE result

\* Mutant: printErrorsNoWarning takes messages out without counting them at all.
RemoveUncounted(m) ==
  /\ pc = "removing" /\ m = Top(queue)
  /\ queue' = Front(queue)
  /\ IF op.name = "printErrorsNoWarning"
     THEN UNCHANGED <<numErrorMessages, numWarningMessages>>
     ELSE /\ numErrorMessages' = numErrorMessages - (IF m.severity = "error" THEN 1 ELSE 0)
          /\ numWarningMessages' = numWarningMessages -
               (IF m.severity = "warning" THEN 1 ELSE 0)
  /\ result' = Gather(m) /\ last' = <<m>>
  /\ UNCHANGED <<pc, op, before, stackVars, handles, errorPrints>>

\* The operation removes the newest message.  Only pop_message and
\* pop_message_and_return count a warning down.
RemoveMessage(m) ==
  /\ pc = "removing" /\ m = Top(queue)
  /\ queue' = Front(queue)
  /\ numErrorMessages' = numErrorMessages - (IF m.severity = "error" THEN 1 ELSE 0)
  /\ numWarningMessages' = numWarningMessages -
       (IF m.severity = "warning" /\ op.name # "printErrorsNoWarning" THEN 1 ELSE 0)
  /\ result' = Gather(m) /\ last' = <<m>>
  /\ UNCHANGED <<pc, op, before, stackVars, handles, errorPrints>>

\* Mutant: pop_message removes a row of equal messages across the checkpoint.
RemoveRow ==
  /\ queue # <<>>
  /\ Len(queue) > Limit \/ last = <<Top(queue)>>
  /\ RemoveMessage(Top(queue))

Remove == Len(queue) > Limit /\ RemoveMessage(Top(queue))

\* The loop is over, the identifier is checked only now.
FinishRollBack ==
  /\ pc = "removing" /\ op.name \in NamedRollBacks /\ Len(queue) <= Limit
  /\ Top(checkPoints).id = op.id
  /\ checkPoints' = Front(checkPoints) /\ saved' = Front(saved)
  /\ handles' = IF op.name = "popCheckPoint"
                THEN Append(handles, [msgs |-> result, rest |-> queue, all |-> before])
                ELSE handles
  /\ Return
  /\ UNCHANGED <<queueVars, errorPrints>>

WrongCheckpoint ==
  /\ pc = "removing" /\ op.name \in NamedRollBacks /\ Len(queue) <= Limit
  /\ Top(checkPoints).id # op.id
  /\ EndProcess

\* Mutant: rollbackNumCheckpoints goes one round too far.
NextRound ==
  /\ pc = "removing" /\ op.name = "rollbackNumCheckpoints" /\ Len(queue) <= Limit
  /\ checkPoints' = Front(checkPoints) /\ saved' = Front(saved)
  /\ IF op.n = 0 THEN Return
                 ELSE /\ op' = [op EXCEPT !.n = @ - 1] /\ last' = <<>>
                      /\ UNCHANGED <<pc, result, before>>
  /\ UNCHANGED <<queueVars, handles, errorPrints>>

\* rollbackNumCheckpoints goes on with the next checkpoint until n are gone.
NextCheckpoint ==
  /\ pc = "removing" /\ op.name = "rollbackNumCheckpoints" /\ Len(queue) <= Limit
  /\ checkPoints' = Front(checkPoints) /\ saved' = Front(saved)
  /\ IF op.n = 1 THEN Return
                 ELSE /\ op' = [op EXCEPT !.n = @ - 1] /\ last' = <<>>
                      /\ UNCHANGED <<pc, result, before>>
  /\ UNCHANGED <<queueVars, handles, errorPrints>>

FinishDrain ==
  /\ pc = "removing" /\ op.name \in Drains /\ queue = <<>>
  /\ Return
  /\ UNCHANGED <<queueVars, stackVars, handles, errorPrints>>

-----------------------------------------------------------------------------
(* The messages popCheckPoint has handed out come back, or are freed.      *)

\* The newest list is given back.
BeginPush ==
  /\ handles # <<>> /\ Top(handles).msgs # <<>>
  /\ Len(queue) + HandedOut <= MaxMessages
  /\ Begin([name |-> "pushMessages"], Top(handles).msgs)
  /\ UNCHANGED <<queueVars, stackVars, handles, errorPrints>>

Push ==
  /\ pc = "pushing" /\ result # <<>>
  /\ PushMessage(Head(result))
  /\ result' = Tail(result)
  /\ UNCHANGED <<pc, op, last, before, stackVars, handles, errorPrints>>

FinishPush ==
  /\ pc = "pushing" /\ result = <<>>
  /\ handles' = Front(handles)
  /\ Return
  /\ UNCHANGED <<queueVars, stackVars, errorPrints>>

\* freeMessages, or pushMessages of an empty list: the queue stays as it is.
FreeMessages ==
  /\ pc = "idle" /\ handles # <<>>
  /\ handles' = Front(handles)
  /\ UNCHANGED <<queueVars, stackVars, loopVars, errorPrints>>

-----------------------------------------------------------------------------
Next ==
  \/ AddMessage \/ SetCheckpoint \/ DelCheckpoint \/ DeleteNumCheckpoints \/ Abort
  \/ BeginRollBack \/ BeginDrain \/ Remove
  \/ FinishRollBack \/ WrongCheckpoint \/ NextCheckpoint \/ FinishDrain
  \/ BeginPush \/ Push \/ FinishPush \/ FreeMessages

Spec == Init /\ [][Next]_vars

-----------------------------------------------------------------------------
\* The number of messages of severity s in q.
Count(q, s) == Cardinality({i \in DOMAIN q : q[i].severity = s})

Ops == {NoOp, [name |-> "pushMessages"]} \cup [name : Drains]
         \cup [name : NamedRollBacks, id : Ids]
         \cup [name : {"rollbackNumCheckpoints"}, n : Nat \ {0}]

\* The types; while an operation goes back to a checkpoint, there is one, and
\* rollbackNumCheckpoints never counts beyond the bottom of the stack.
TypeOK ==
  /\ pc \in {"idle", "removing", "pushing", "aborted"}
  /\ op \in Ops
  /\ queue \in Seq(Messages) /\ result \in Seq(Messages) /\ last \in Seq(Messages)
  /\ before \in Seq(Messages)
  /\ checkPoints \in Seq([first : Nat, id : Ids])
  /\ saved \in Seq([queue : Seq(Messages), intact : BOOLEAN])
  /\ Len(saved) = Len(checkPoints)
  /\ numErrorMessages \in Int /\ numWarningMessages \in Int
  /\ handles \in Seq([msgs : Seq(Messages), rest : Seq(Messages), all : Seq(Messages)])
  /\ errorPrints \in Nat
  /\ pc = "removing" => op.name \in RollBacks \cup Drains
  /\ pc = "removing" /\ op.name \in NamedRollBacks => Len(checkPoints) >= 1
  /\ pc = "removing" /\ op.name = "rollbackNumCheckpoints" => Len(checkPoints) >= op.n
  /\ pc = "pushing" => op.name = "pushMessages" /\ handles # <<>>

\* The counters agree with the queue through every mix of operations: the front
\* end compares numErrorMessages before and after a call to see whether it failed.
\* The warnings agree as long as printErrorsNoWarning was not used.
CountsAgree ==
  /\ numErrorMessages = Count(queue, "error")
  /\ errorPrints = 0 => numWarningMessages = Count(queue, "warning")

\* A roll back leaves exactly the queue that was there when its checkpoint was set,
\* no matter how many checkpoints, duplicates of older messages and lists handed
\* out came in between, unless an operation has emptied the queue since.
RollBackRestores ==
  [][ op.name \in RollBacks /\ pc' # "aborted" /\ Len(saved') < Len(saved)
        /\ Top(saved).intact => queue' = Top(saved).queue ]_vars

\* What getMessages and printMessagesStr return is the queue, oldest message first,
\* with a row of equal messages given once.
RowStarts(q) == {i \in DOMAIN q : i = 1 \/ q[i] # q[i - 1]}

IsMerged(r, q) ==
  /\ Len(r) = Cardinality(RowStarts(q))
  /\ \A i \in RowStarts(q) : r[Cardinality({j \in RowStarts(q) : j <= i})] = q[i]

DrainsReport ==
  op.name \in {"getMessages", "printMessagesStr"} /\ queue = <<>> =>
    IsMerged(result, before)

\* popCheckPoint followed by pushMessages puts every message back where it was, if
\* the queue is back at what popCheckPoint had left, as after the roll back between.
PushRestores ==
  [][ pc = "pushing" /\ pc' = "idle" /\ before = Top(handles).rest =>
        queue' = Top(handles).all ]_vars
=============================================================================
