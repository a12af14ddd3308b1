--------------------------- MODULE ErrorExtProofs ---------------------------
(***************************************************************************)
(* Theorems about ErrorExt, for every set of messages and identifiers and  *)
(* every bound: the types, the counters, and what a roll back restores.    *)
(***************************************************************************)
EXTENDS ErrorExt, FiniteSetTheorems, FunctionTheorems, SequenceTheorems, TLAPS

\* What is left of a sequence when its last element is removed.
LEMMA FrontProperties ==
  ASSUME NEW S, NEW s \in Seq(S), s # <<>>
  PROVE  /\ Front(s) \in Seq(S) /\ Top(s) \in S
         /\ Len(Front(s)) = Len(s) - 1 /\ Len(s) \in Nat \ {0}
         /\ \A i \in 1..Len(s) - 1 : Front(s)[i] = s[i]
<1>1. Len(s) \in Nat \ {0}
  BY EmptySeq
<1>2. \A i \in 1..Len(s) - 1 : s[i] \in S
  BY <1>1, ElementOfSeq
<1>3. Top(s) \in S
  BY <1>1, ElementOfSeq DEF Top
<1>4. /\ Front(s) \in Seq(S) /\ Len(Front(s)) = Len(s) - 1
      /\ \A i \in 1..Len(s) - 1 : Front(s)[i] = s[i]
  <2>1. PICK n \in Nat : n = Len(s) - 1
    BY <1>1
  <2>2. /\ SubSeq(s, 1, n) \in Seq(S)
        /\ Len(SubSeq(s, 1, n)) = IF 1 <= n THEN n - 1 + 1 ELSE 0
        /\ \A i \in 1..(n - 1 + 1) : SubSeq(s, 1, n)[i] = s[1 + i - 1]
    BY <1>2, <2>1, SubSeqProperties
  <2>3. Front(s) = SubSeq(s, 1, n)
    BY <2>1 DEF Front
  <2> HIDE DEF Front
  <2> QED BY <2>1, <2>2, <2>3
<1> QED BY <1>1, <1>3, <1>4

\* A prefix of a sequence.
LEMMA PrefixProperties ==
  ASSUME NEW S, NEW s \in Seq(S), NEW n \in 0..Len(s)
  PROVE  /\ SubSeq(s, 1, n) \in Seq(S) /\ Len(SubSeq(s, 1, n)) = n
         /\ \A i \in 1..n : SubSeq(s, 1, n)[i] = s[i]
<1>1. Len(s) \in Nat
  OBVIOUS
<1>2. \A i \in 1..n : s[i] \in S
  BY <1>1, ElementOfSeq
<1> QED BY <1>1, <1>2, SubSeqProperties

\* A sequence is its front and its last element.
LEMMA FrontTop ==
  ASSUME NEW S, NEW q \in Seq(S), q # <<>>
  PROVE  Append(Front(q), Top(q)) = q
<1>0. Front(q) \in Seq(S) /\ Top(q) \in S
  BY FrontProperties
<1>1. /\ Append(Front(q), Top(q)) \in Seq(S)
      /\ Len(Append(Front(q), Top(q))) = Len(q)
  BY <1>0, FrontProperties, AppendProperties
<1>2. \A i \in 1..Len(q) : Append(Front(q), Top(q))[i] = q[i]
  <2> TAKE i \in 1..Len(q)
  <2>1. CASE i = Len(q)
    BY <1>0, <2>1, FrontProperties, AppendProperties DEF Top
  <2>2. CASE i # Len(q)
    <3>1. i \in 1..Len(Front(q)) /\ i \in 1..Len(q) - 1
      BY <2>2, FrontProperties
    <3> QED BY <1>0, <3>1, FrontProperties, AppendProperties
  <2> QED BY <2>1, <2>2
<1>3. \A i \in 1..Len(Append(Front(q), Top(q))) : Append(Front(q), Top(q))[i] = q[i]
  BY <1>1, <1>2
<1> DEFINE a == Append(Front(q), Top(q))
<1>4. a \in Seq(S) /\ Len(a) = Len(q) /\ \A i \in 1..Len(a) : a[i] = q[i]
  BY <1>1, <1>3
<1> HIDE DEF a
<1>5. a = q
  BY <1>4, SeqEqual
<1> QED BY <1>5 DEF a

\* The last element of a sequence moves to the front of the one that follows.
LEMMA MoveTop ==
  ASSUME NEW S, NEW q \in Seq(S), NEW r \in Seq(S), q # <<>>
  PROVE  Front(q) \o (<<Top(q)>> \o r) = q \o r
<1>1. Front(q) \in Seq(S) /\ Top(q) \in S /\ <<Top(q)>> \in Seq(S)
  BY FrontProperties
<1>2. Front(q) \o <<Top(q)>> = q
  BY <1>1, FrontTop, AppendIsConcat, Zenon
<1>3. (Front(q) \o <<Top(q)>>) \o r = Front(q) \o (<<Top(q)>> \o r)
  <2> DEFINE f == Front(q)
             t == <<Top(q)>>
  <2>1. f \in Seq(S) /\ t \in Seq(S)
    BY <1>1
  <2> HIDE DEF f, t
  <2>2. (f \o t) \o r = f \o (t \o r)
    BY <2>1, ConcatAssociative
  <2> QED BY <2>2 DEF f, t
<1> QED BY <1>2, <1>3, Zenon

\* The first element of a sequence moves to the end of the one before.
LEMMA MoveHead ==
  ASSUME NEW S, NEW q \in Seq(S), NEW r \in Seq(S), r # <<>>
  PROVE  Append(q, Head(r)) \o Tail(r) = q \o r
<1>1. Head(r) \in S /\ Tail(r) \in Seq(S) /\ <<Head(r)>> \in Seq(S)
  BY HeadTailProperties
<1>2. <<Head(r)>> \o Tail(r) = r
  <2> DEFINE a == <<Head(r)>> \o Tail(r)
  <2>1. a \in Seq(S) /\ Len(a) = Len(r) /\ \A i \in 1..Len(a) : a[i] = r[i]
    BY <1>1, ConcatProperties, HeadTailProperties
  <2> HIDE DEF a
  <2>2. a = r
    BY <2>1, SeqEqual
  <2> QED BY <2>2 DEF a
<1>3. Append(q, Head(r)) = q \o <<Head(r)>>
  BY <1>1, AppendIsConcat, Zenon
<1>4. (q \o <<Head(r)>>) \o Tail(r) = q \o (<<Head(r)>> \o Tail(r))
  <2> DEFINE h == <<Head(r)>>
             t == Tail(r)
  <2>1. h \in Seq(S) /\ t \in Seq(S)
    BY <1>1
  <2> HIDE DEF h, t
  <2>2. (q \o h) \o t = q \o (h \o t)
    BY <2>1, ConcatAssociative
  <2> QED BY <2>2 DEF h, t
<1> QED BY <1>2, <1>3, <1>4, Zenon

\* What an operation has gathered is a sequence of messages.
LEMMA GatherType ==
  ASSUME NEW m \in Messages, result \in Seq(Messages)
  PROVE  Gather(m) \in Seq(Messages)
<1>1. <<m>> \in Seq(Messages)
  OBVIOUS
<1> QED BY <1>1, ConcatProperties DEF Gather

-----------------------------------------------------------------------------
(* Type correctness.                                                       *)

\* The argument of rollbackNumCheckpoints.
LEMMA NumOp ==
  ASSUME op \in Ops, op.name = "rollbackNumCheckpoints"
  PROVE  op.n \in Nat \ {0} /\ op = [name |-> "rollbackNumCheckpoints", n |-> op.n]
  BY DEF Ops, NoOp, Drains, NamedRollBacks

\* A message that is added, and checkpoints that are set or deleted, keep the types.
LEMMA TypeAdd ==
  ASSUME TypeOK, AddMessage \/ SetCheckpoint \/ DelCheckpoint \/ DeleteNumCheckpoints
                   \/ Abort \/ WrongCheckpoint
  PROVE  TypeOK'
<1> USE DEF TypeOK, loopVars, queueVars, stackVars
<1>1. CASE AddMessage
  BY <1>1 DEF AddMessage, PushMessage
<1>2. CASE SetCheckpoint
  <2>1. PICK id \in Ids : checkPoints' = Append(checkPoints, [first |-> Len(queue), id |-> id])
    BY <1>2 DEF SetCheckpoint
  <2>2. /\ checkPoints' \in Seq([first : Nat, id : Ids])
        /\ Len(checkPoints') = Len(checkPoints) + 1
    <3>1. [first |-> Len(queue), id |-> id] \in [first : Nat, id : Ids]
      OBVIOUS
    <3> QED BY <2>1, <3>1, AppendProperties
  <2>3. /\ saved' \in Seq([queue : Seq(Messages), intact : BOOLEAN])
        /\ Len(saved') = Len(saved) + 1
    <3>1. [queue |-> queue, intact |-> TRUE] \in [queue : Seq(Messages), intact : BOOLEAN]
      OBVIOUS
    <3> QED BY <1>2, <3>1, AppendProperties DEF SetCheckpoint
  <2>4. pc = "idle" /\ UNCHANGED <<queueVars, loopVars, handles, errorPrints>>
    BY <1>2 DEF SetCheckpoint
  <2> QED BY <2>2, <2>3, <2>4
<1>3. CASE DelCheckpoint
  <2>1. saved # <<>> /\ checkPoints # <<>>
    BY <1>3 DEF DelCheckpoint
  <2> QED BY <1>3, <2>1, FrontProperties DEF DelCheckpoint
<1>4. CASE DeleteNumCheckpoints
  <2>1. PICK n \in 1..Len(checkPoints) :
          /\ checkPoints' = SubSeq(checkPoints, 1, Len(checkPoints) - n)
          /\ saved' = SubSeq(saved, 1, Len(saved) - n)
    BY <1>4 DEF DeleteNumCheckpoints
  <2>2. Len(checkPoints) - n \in 0..Len(checkPoints) /\ Len(saved) - n \in 0..Len(saved)
    OBVIOUS
  <2>3. checkPoints' \in Seq([first : Nat, id : Ids]) /\ Len(checkPoints') = Len(checkPoints) - n
    BY <2>1, <2>2, PrefixProperties
  <2>4. /\ saved' \in Seq([queue : Seq(Messages), intact : BOOLEAN])
        /\ Len(saved') = Len(saved) - n
    BY <2>1, <2>2, PrefixProperties
  <2>5. pc = "idle" /\ UNCHANGED <<queueVars, loopVars, handles, errorPrints>>
    BY <1>4 DEF DeleteNumCheckpoints
  <2> QED BY <2>3, <2>4, <2>5
<1>5. CASE Abort \/ WrongCheckpoint
  <2>1. EndProcess
    BY <1>5 DEF Abort, WrongCheckpoint
  <2>2. pc' = "aborted" /\ op' \in Ops /\ errorPrints' \in Nat
    BY <2>1 DEF EndProcess, Ops
  <2>3. /\ queue' = <<>> /\ result' = <<>> /\ last' = <<>> /\ before' = <<>>
        /\ checkPoints' = <<>> /\ saved' = <<>> /\ handles' = <<>>
        /\ numErrorMessages' = 0 /\ numWarningMessages' = 0
    BY <2>1 DEF EndProcess
  <2> QED BY <2>2, <2>3
<1> QED BY <1>1, <1>2, <1>3, <1>4, <1>5

\* So does every step of an operation that removes messages.
LEMMA TypeRemove ==
  ASSUME TypeOK, BeginRollBack \/ BeginDrain \/ Remove \/ FinishRollBack
                   \/ NextCheckpoint \/ FinishDrain
  PROVE  TypeOK'
<1> USE DEF TypeOK, loopVars, queueVars, stackVars
<1>1. CASE BeginRollBack
  <2>1. \/ \E name \in NamedRollBacks : \E id \in Ids : op' = [name |-> name, id |-> id]
        \/ \E n \in 1..Len(checkPoints) :
             op' = [name |-> "rollbackNumCheckpoints", n |-> n]
    BY <1>1 DEF BeginRollBack, Begin
  <2>2. op' \in Ops /\ op'.name \in RollBacks
    BY <2>1 DEF Ops, RollBacks, NamedRollBacks
  <2>3. op'.name = "rollbackNumCheckpoints" => Len(checkPoints) >= op'.n
    BY <2>1 DEF NamedRollBacks
  <2>4. Len(checkPoints) >= 1 /\ pc' = "removing" /\ last' = <<>> /\ result' = <<>>
          /\ before' = queue
    BY <1>1 DEF BeginRollBack, Begin
  <2> QED BY <1>1, <2>2, <2>3, <2>4 DEF BeginRollBack
<1>2. CASE BeginDrain
  <2>1. PICK name \in Drains : op' = [name |-> name]
    BY <1>2 DEF BeginDrain, Begin
  <2>2. op' \in Ops /\ op'.name \in Drains /\ op'.name \notin RollBacks
    BY <2>1 DEF Ops, Drains, RollBacks, NamedRollBacks
  <2>3. /\ saved' \in Seq([queue : Seq(Messages), intact : BOOLEAN])
        /\ Len(saved') = Len(saved)
    <3> DEFINE s(i) == [queue |-> <<>>, intact |-> saved[i].intact /\ queue = <<>>]
    <3>1. saved' = [i \in 1..Len(saved) |-> s(i)]
      BY <1>2 DEF BeginDrain
    <3>2. \A i \in 1..Len(saved) : s(i) \in [queue : Seq(Messages), intact : BOOLEAN]
      <4>1. <<>> \in Seq(Messages)
        OBVIOUS
      <4> QED BY <4>1
    <3>3. Len(saved) \in Nat
      OBVIOUS
    <3> HIDE DEF s
    <3> QED BY <3>1, <3>2, <3>3
  <2>4. pc' = "removing" /\ last' = <<>> /\ result' = <<>> /\ before' = queue
          /\ UNCHANGED <<queueVars, checkPoints, handles>> /\ errorPrints' \in Nat
    BY <1>2 DEF BeginDrain, Begin
  <2>5. op'.name \notin NamedRollBacks /\ op'.name # "rollbackNumCheckpoints"
    BY <2>2 DEF RollBacks
  <2> QED BY <2>2, <2>3, <2>4, <2>5
<1>3. CASE Remove
  <2>1. Limit \in Nat
    <3>1. CASE op.name \in RollBacks
      <4>1. checkPoints # <<>>
        BY <1>3, <3>1 DEF Remove, RemoveMessage, RollBacks, Ops, NamedRollBacks, NoOp, Drains
      <4>2. Top(checkPoints) \in [first : Nat, id : Ids]
        BY <4>1, FrontProperties
      <4> QED BY <3>1, <4>2 DEF Limit
    <3> QED BY <3>1 DEF Limit
  <2>2. queue # <<>>
    BY <1>3, <2>1 DEF Remove
  <2>3. Front(queue) \in Seq(Messages) /\ Top(queue) \in Messages
    BY <2>2, FrontProperties
  <2>4. Gather(Top(queue)) \in Seq(Messages) /\ <<Top(queue)>> \in Seq(Messages)
    BY <2>3, GatherType
  <2> QED BY <1>3, <2>3, <2>4 DEF Remove, RemoveMessage
<1>4. CASE FinishRollBack
  <2>1. checkPoints # <<>> /\ saved # <<>>
    BY <1>4 DEF FinishRollBack
  <2>2. handles' \in Seq([msgs : Seq(Messages), rest : Seq(Messages), all : Seq(Messages)])
    <3> DEFINE H == [msgs : Seq(Messages), rest : Seq(Messages), all : Seq(Messages)]
               h == [msgs |-> result, rest |-> queue, all |-> before]
    <3>1. h \in H /\ handles \in Seq(H)
      OBVIOUS
    <3>2. handles' = Append(handles, h) \/ handles' = handles
      BY <1>4 DEF FinishRollBack
    <3> HIDE DEF H, h
    <3>3. handles' \in Seq(H)
      <4>1. Append(handles, h) \in Seq(H)
        BY <3>1, AppendProperties
      <4> QED BY <3>1, <3>2, <4>1
    <3> QED BY <3>3 DEF H
  <2>3. /\ checkPoints' \in Seq([first : Nat, id : Ids])
        /\ saved' \in Seq([queue : Seq(Messages), intact : BOOLEAN])
        /\ Len(saved') = Len(checkPoints')
    BY <1>4, <2>1, FrontProperties DEF FinishRollBack
  <2> QED BY <1>4, <2>2, <2>3 DEF FinishRollBack, Return, Ops
<1>5. CASE NextCheckpoint
  <2>1. op.n \in Nat \ {0}
    BY <1>5, NumOp DEF NextCheckpoint
  <2>2. checkPoints # <<>> /\ saved # <<>>
    BY <1>5, <2>1 DEF NextCheckpoint
  <2>3. /\ checkPoints' \in Seq([first : Nat, id : Ids])
        /\ saved' \in Seq([queue : Seq(Messages), intact : BOOLEAN])
        /\ Len(saved') = Len(checkPoints') /\ Len(checkPoints') = Len(checkPoints) - 1
    BY <1>5, <2>2, FrontProperties DEF NextCheckpoint
  <2>4. CASE op.n = 1
    BY <1>5, <2>3, <2>4 DEF NextCheckpoint, Return, Ops
  <2>5. CASE op.n # 1
    <3>1. op = [name |-> "rollbackNumCheckpoints", n |-> op.n]
      BY <1>5, NumOp DEF NextCheckpoint
    <3>2. op' = [name |-> "rollbackNumCheckpoints", n |-> op.n - 1]
      BY <1>5, <2>5, <3>1 DEF NextCheckpoint
    <3>3. op' \in Ops /\ op'.name = "rollbackNumCheckpoints" /\ op'.n = op.n - 1
      BY <2>1, <2>5, <3>2 DEF Ops
    <3> QED BY <1>5, <2>1, <2>3, <2>5, <3>3 DEF NextCheckpoint, NamedRollBacks, RollBacks
  <2> QED BY <2>4, <2>5
<1>6. CASE FinishDrain
  BY <1>6 DEF FinishDrain, Return, Ops
<1> QED BY <1>1, <1>2, <1>3, <1>4, <1>5, <1>6

\* So does every step that puts back or frees what popCheckPoint handed out.
LEMMA TypePush ==
  ASSUME TypeOK, BeginPush \/ Push \/ FinishPush \/ FreeMessages
  PROVE  TypeOK'
<1> USE DEF TypeOK, loopVars, queueVars, stackVars
<1>1. CASE BeginPush
  <2>1. handles # <<>> /\ Top(handles).msgs # <<>>
    BY <1>1 DEF BeginPush
  <2>2. Top(handles) \in [msgs : Seq(Messages), rest : Seq(Messages), all : Seq(Messages)]
    BY <2>1, FrontProperties
  <2> QED BY <1>1, <2>1, <2>2 DEF BeginPush, Begin, Ops
<1>2. CASE Push
  <2>1. Head(result) \in Messages /\ Tail(result) \in Seq(Messages)
    BY <1>2, HeadTailProperties DEF Push
  <2> QED BY <1>2, <2>1 DEF Push, PushMessage
<1>3. CASE FinishPush
  <2>1. handles' \in Seq([msgs : Seq(Messages), rest : Seq(Messages), all : Seq(Messages)])
    BY <1>3, FrontProperties DEF FinishPush
  <2> QED BY <1>3, <2>1 DEF FinishPush, Return, Ops
<1>4. CASE FreeMessages
  <2>1. handles' \in Seq([msgs : Seq(Messages), rest : Seq(Messages), all : Seq(Messages)])
    BY <1>4, FrontProperties DEF FreeMessages
  <2>2. pc = "idle"
    BY <1>4 DEF FreeMessages
  <2> QED BY <1>4, <2>1, <2>2 DEF FreeMessages
<1> QED BY <1>1, <1>2, <1>3, <1>4

\* Every variable keeps its type; an operation that goes back to a checkpoint
\* always finds one, also rollbackNumCheckpoints on its way down the stack.
THEOREM TypeCorrect == Spec => []TypeOK
<1>1. Init => TypeOK
  BY DEF Init, TypeOK, Ops, NoOp
<1>2. TypeOK /\ [Next]_vars => TypeOK'
  <2> SUFFICES ASSUME TypeOK, [Next]_vars PROVE TypeOK'
    OBVIOUS
  <2>1. CASE UNCHANGED vars
    BY <2>1 DEF vars, loopVars, queueVars, stackVars, TypeOK
  <2> QED BY <2>1, TypeAdd, TypeRemove, TypePush DEF Next
<1> QED BY <1>1, <1>2, PTL DEF Spec

-----------------------------------------------------------------------------
(* The counters.                                                           *)

\* An empty queue has no message of any severity.
LEMMA CountEmpty == ASSUME NEW s PROVE Count(<<>>, s) = 0
<1>1. {i \in DOMAIN <<>> : <<>>[i].severity = s} = {}
  OBVIOUS
<1> QED BY <1>1, FS_EmptySet DEF Count

\* The indices of the messages of a severity are finitely many.
LEMMA CountFinite ==
  ASSUME NEW q \in Seq(Messages), NEW s
  PROVE  IsFiniteSet({i \in DOMAIN q : q[i].severity = s}) /\ Count(q, s) \in Nat
<1>1. IsFiniteSet(1..Len(q))
  BY FS_Interval
<1>2. {i \in DOMAIN q : q[i].severity = s} \subseteq 1..Len(q)
  OBVIOUS
<1>3. IsFiniteSet({i \in DOMAIN q : q[i].severity = s})
  BY <1>1, <1>2, FS_Subset
<1> QED BY <1>3, FS_CardinalityType DEF Count

\* A message more counts for its own severity, and for no other one.
LEMMA CountAppend ==
  ASSUME NEW q \in Seq(Messages), NEW m \in Messages, NEW s
  PROVE  Count(Append(q, m), s) = Count(q, s) + (IF m.severity = s THEN 1 ELSE 0)
<1> DEFINE I == {i \in DOMAIN q : q[i].severity = s}
           J == {i \in DOMAIN Append(q, m) : Append(q, m)[i].severity = s}
<1>1. IsFiniteSet(I) /\ Cardinality(I) \in Nat
  BY CountFinite DEF Count
<1>2. Len(q) + 1 \notin I
  OBVIOUS
<1>3. DOMAIN Append(q, m) = 1..Len(q) + 1 /\ DOMAIN q = 1..Len(q) /\ Len(q) \in Nat
  BY AppendProperties
<1>4. CASE m.severity = s
  <2>1. J = I \cup {Len(q) + 1}
    BY <1>3, <1>4, AppendProperties
  <2> QED BY <1>1, <1>2, <1>4, <2>1, FS_AddElement DEF Count
<1>5. CASE m.severity # s
  <2>1. J = I
    BY <1>3, <1>5, AppendProperties
  <2>2. Count(q, s) = Cardinality(I) /\ Count(Append(q, m), s) = Cardinality(J)
    BY DEF Count
  <2> HIDE DEF I, J
  <2> QED BY <1>1, <1>5, <2>1, <2>2
<1> QED BY <1>4, <1>5

\* Without its last message a queue counts one less of that message's severity.
LEMMA CountFront ==
  ASSUME NEW q \in Seq(Messages), q # <<>>, NEW s
  PROVE  Count(Front(q), s) = Count(q, s) - (IF Top(q).severity = s THEN 1 ELSE 0)
<1>1. Front(q) \in Seq(Messages) /\ Top(q) \in Messages
  BY FrontProperties
<1>2. Append(Front(q), Top(q)) = q
  BY FrontTop
<1>3. Count(q, s) = Count(Front(q), s) + (IF Top(q).severity = s THEN 1 ELSE 0)
  <2>1. Count(Append(Front(q), Top(q)), s)
          = Count(Front(q), s) + (IF Top(q).severity = s THEN 1 ELSE 0)
    BY <1>1, CountAppend, Zenon
  <2> QED BY <1>2, <2>1, Zenon
<1>4. Count(Front(q), s) \in Nat
  BY <1>1, CountFinite
<1> QED BY <1>3, <1>4

\* Warnings are removed without being counted only after printErrorsNoWarning began.
CountInv ==
  /\ CountsAgree
  /\ op.name = "printErrorsNoWarning" => errorPrints > 0

\* A message that is added is counted where it belongs.
LEMMA CountPush ==
  ASSUME TypeOK, CountsAgree, NEW m \in Messages, PushMessage(m), UNCHANGED errorPrints
  PROVE  CountsAgree'
<1>1. queue \in Seq(Messages) /\ numErrorMessages \in Int /\ numWarningMessages \in Int
  BY DEF TypeOK
<1>2. /\ Count(queue, "error") \in Nat /\ Count(queue, "warning") \in Nat
      /\ Count(queue', "error") = Count(queue, "error") + (IF m.severity = "error" THEN 1 ELSE 0)
      /\ Count(queue', "warning")
           = Count(queue, "warning") + (IF m.severity = "warning" THEN 1 ELSE 0)
  BY <1>1, CountFinite, CountAppend DEF PushMessage
<1> QED BY <1>1, <1>2 DEF PushMessage, CountsAgree

\* The counters agree with the queue, whatever mix of operations the thread runs.
THEOREM CountsCorrect == Spec => []CountsAgree
<1>1. Init => CountInv
  BY CountEmpty DEF Init, CountInv, CountsAgree, NoOp
<1>2. TypeOK /\ CountInv /\ [Next]_vars => CountInv'
  <2> SUFFICES ASSUME TypeOK, CountInv, [Next]_vars PROVE CountInv'
    OBVIOUS
  <2>0. CountsAgree /\ (op.name = "printErrorsNoWarning" => errorPrints > 0)
    BY DEF CountInv
  <2>1. CASE AddMessage
    BY <2>0, <2>1, CountPush DEF AddMessage, loopVars, CountInv
  <2>2. CASE Push
    <3>1. Head(result) \in Messages
      BY <2>2, HeadTailProperties DEF Push, TypeOK
    <3> QED BY <2>0, <2>2, <3>1, CountPush DEF Push, CountInv
  <2>3. CASE Remove
    <3>1. checkPoints # <<>> => Top(checkPoints).first \in Nat
      <4>1. checkPoints # <<>> => Top(checkPoints) \in [first : Nat, id : Ids]
        BY FrontProperties DEF TypeOK
      <4> QED BY <4>1
    <3>2. op.name \in RollBacks => checkPoints # <<>>
      BY <2>3 DEF Remove, RemoveMessage, TypeOK, RollBacks, Ops, NoOp, Drains, NamedRollBacks
    <3>3. queue # <<>>
      BY <2>3, <3>1, <3>2 DEF Remove, Limit
    <3>4. /\ Count(queue, "error") \in Nat /\ Count(queue, "warning") \in Nat
          /\ Count(queue', "error")
               = Count(queue, "error") - (IF Top(queue).severity = "error" THEN 1 ELSE 0)
          /\ Count(queue', "warning")
               = Count(queue, "warning") - (IF Top(queue).severity = "warning" THEN 1 ELSE 0)
      BY <2>3, <3>3, CountFinite, CountFront DEF Remove, RemoveMessage, TypeOK
    <3>5. UNCHANGED <<op, errorPrints>>
      BY <2>3 DEF Remove, RemoveMessage
    <3>6. numErrorMessages' = Count(queue', "error")
      BY <2>0, <2>3, <3>4 DEF Remove, RemoveMessage, CountsAgree
    <3>7. CASE errorPrints = 0
      <4>1. op.name # "printErrorsNoWarning"
        BY <2>0, <3>7
      <4>2. numWarningMessages' = Count(queue', "warning")
        BY <2>0, <2>3, <3>4, <3>7, <4>1 DEF Remove, RemoveMessage, CountsAgree
      <4> QED BY <2>0, <3>5, <3>6, <4>1, <4>2 DEF CountInv, CountsAgree
    <3>8. CASE errorPrints # 0
      BY <2>0, <3>5, <3>6, <3>8 DEF CountInv, CountsAgree
    <3> QED BY <3>7, <3>8
  <2>4. CASE BeginDrain
    <3>1. errorPrints \in Nat /\ UNCHANGED queueVars
      BY <2>4 DEF BeginDrain, TypeOK
    <3>2. /\ op'.name = "printErrorsNoWarning" => errorPrints' = errorPrints + 1
          /\ op'.name # "printErrorsNoWarning" => errorPrints' = errorPrints
      BY <2>4 DEF BeginDrain
    <3>3. errorPrints' = 0 => errorPrints = 0
      BY <3>1, <3>2
    <3> QED BY <2>0, <3>1, <3>2, <3>3 DEF CountInv, CountsAgree, queueVars
  <2>5. CASE EndProcess
    BY <2>5, CountEmpty DEF EndProcess, CountInv, CountsAgree, NoOp
  <2>6. CASE /\ UNCHANGED <<queueVars, errorPrints>>
             /\ op'.name = op.name \/ op'.name # "printErrorsNoWarning"
    BY <2>0, <2>6 DEF CountInv, CountsAgree, queueVars
  <2>7. CASE BeginRollBack
    <3>1. op'.name # "printErrorsNoWarning"
      BY <2>7 DEF BeginRollBack, Begin, NamedRollBacks
    <3> QED BY <2>6, <2>7, <3>1 DEF BeginRollBack
  <2>8. CASE NextCheckpoint
    <3>1. op'.name # "printErrorsNoWarning"
      <4>1. op = [name |-> "rollbackNumCheckpoints", n |-> op.n]
        BY <2>8, NumOp DEF NextCheckpoint, TypeOK
      <4> QED BY <2>8, <4>1 DEF NextCheckpoint, Return, NoOp
    <3> QED BY <2>6, <2>8, <3>1 DEF NextCheckpoint
  <2>9. CASE BeginPush
    BY <2>6, <2>9 DEF BeginPush, Begin
  <2>10. CASE FinishRollBack \/ FinishDrain \/ FinishPush
    BY <2>6, <2>10 DEF FinishRollBack, FinishDrain, FinishPush, Return, NoOp
  <2>11. CASE SetCheckpoint \/ DelCheckpoint \/ DeleteNumCheckpoints \/ FreeMessages
    BY <2>6, <2>11 DEF SetCheckpoint, DelCheckpoint, DeleteNumCheckpoints, FreeMessages,
       loopVars
  <2>12. CASE UNCHANGED vars
    BY <2>6, <2>12 DEF vars, loopVars
  <2> QED BY <2>1, <2>2, <2>3, <2>4, <2>5, <2>7, <2>8, <2>9, <2>10, <2>11, <2>12
             DEF Next, Abort, WrongCheckpoint
<1>3. CountInv => CountsAgree
  BY DEF CountInv
<1> QED BY <1>1, <1>2, <1>3, TypeCorrect, PTL DEF Spec

-----------------------------------------------------------------------------
(* What a roll back restores.                                              *)

\* The queue still begins with what it was when checkpoint i was set.
Kept(i) ==
  /\ Len(saved[i].queue) = checkPoints[i].first
  /\ checkPoints[i].first <= Len(queue)
  /\ \A k \in 1..checkPoints[i].first : queue[k] = saved[i].queue[k]

\* A checkpoint that is intact is kept, and no later one lies below it: an
\* operation that has found messages to remove has spoilt all checkpoints.
StackInv ==
  /\ \A i \in 1..Len(saved) : saved[i].intact => Kept(i)
  /\ \A i, j \in 1..Len(saved) : i <= j /\ saved[i].intact =>
       saved[j].intact /\ checkPoints[i].first <= checkPoints[j].first
  /\ pc = "removing" /\ op.name \in Drains /\ queue # <<>> =>
       \A i \in 1..Len(saved) : ~saved[i].intact

\* The types the proofs below use.
LEMMA StackTypes ==
  ASSUME TypeOK
  PROVE  /\ queue \in Seq(Messages) /\ Len(queue) \in Nat
         /\ Len(saved) \in Nat /\ Len(checkPoints) = Len(saved)
         /\ \A i \in 1..Len(saved) :
              /\ checkPoints[i].first \in Nat
              /\ saved[i].queue \in Seq(Messages) /\ Len(saved[i].queue) \in Nat
              /\ saved[i].intact \in BOOLEAN
<1>1. /\ queue \in Seq(Messages) /\ checkPoints \in Seq([first : Nat, id : Ids])
      /\ saved \in Seq([queue : Seq(Messages), intact : BOOLEAN])
      /\ Len(checkPoints) = Len(saved)
  BY DEF TypeOK
<1>2. Len(queue) \in Nat /\ Len(saved) \in Nat
  BY <1>1, LenProperties
<1>3. ASSUME NEW i \in 1..Len(saved)
      PROVE  /\ checkPoints[i] \in [first : Nat, id : Ids]
             /\ saved[i] \in [queue : Seq(Messages), intact : BOOLEAN]
  BY <1>1, <1>3, ElementOfSeq
<1>4. ASSUME NEW i \in 1..Len(saved)
      PROVE  /\ checkPoints[i].first \in Nat
             /\ saved[i].queue \in Seq(Messages)
             /\ saved[i].intact \in BOOLEAN
  BY ONLY <1>3
<1>5. ASSUME NEW i \in 1..Len(saved)
      PROVE  Len(saved[i].queue) \in Nat
  BY ONLY <1>4, LenProperties
<1> QED BY ONLY <1>1, <1>2, <1>4, <1>5

\* The queue grows at its end, so nothing that is kept is touched.
LEMMA StackPush ==
  ASSUME TypeOK, StackInv, NEW m \in Messages, PushMessage(m),
         UNCHANGED stackVars, op.name \notin Drains \/ pc # "removing", UNCHANGED <<op, pc>>
  PROVE  StackInv'
<1>1. /\ queue' = Append(queue, m) /\ UNCHANGED <<checkPoints, saved, op, pc>>
  BY DEF PushMessage, stackVars
<1>2. /\ Len(queue') = Len(queue) + 1 /\ Len(queue) \in Nat
      /\ \A k \in 1..Len(queue) : queue'[k] = queue[k]
  BY <1>1, AppendProperties DEF TypeOK
<1>3. ASSUME NEW i \in 1..Len(saved), saved[i].intact
      PROVE  Kept(i)'
  BY <1>1, <1>2, <1>3, StackTypes DEF StackInv, Kept
<1> QED BY <1>1, <1>3 DEF StackInv

\* Checkpoints at the top of the stack go, the rest stays as it is.
LEMMA StackPop ==
  ASSUME TypeOK, StackInv, NEW n \in 0..Len(saved),
         checkPoints' = SubSeq(checkPoints, 1, n), saved' = SubSeq(saved, 1, n),
         UNCHANGED queue, ~(pc' = "removing" /\ op'.name \in Drains)
  PROVE  StackInv'
<1>1. n \in 0..Len(checkPoints) /\ Len(saved) \in Nat
  BY StackTypes
<1>2. Len(saved') = n /\ \A i \in 1..n : saved'[i] = saved[i]
  BY PrefixProperties DEF TypeOK
<1>3. \A i \in 1..n : checkPoints'[i] = checkPoints[i]
  BY <1>1, PrefixProperties DEF TypeOK
<1>4. \A i \in 1..n : Kept(i) => Kept(i)'
  BY <1>2, <1>3 DEF Kept
<1> QED BY <1>1, <1>2, <1>3, <1>4 DEF StackInv

\* Removing the newest message keeps what the checkpoints stand for.
LEMMA StackRemove ==
  ASSUME TypeOK, StackInv, Remove
  PROVE  StackInv'
<1>1. UNCHANGED <<saved, checkPoints, op, pc>> /\ queue' = Front(queue) /\ pc = "removing"
  BY DEF Remove, RemoveMessage, stackVars
<1>2. op.name \in RollBacks => Len(saved) >= 1
  BY <1>1 DEF TypeOK, RollBacks, NamedRollBacks, Ops, NoOp, Drains
<1>3. queue # <<>> /\ Len(queue) > Limit
  <2>1. op.name \in RollBacks => Top(checkPoints).first \in Nat
    BY <1>2, StackTypes DEF Top
  <2> QED BY <2>1, StackTypes DEF Remove, Limit
<1>4. /\ Len(queue') = Len(queue) - 1
      /\ \A k \in 1..Len(queue) - 1 : queue'[k] = queue[k]
  BY <1>1, <1>3, StackTypes, FrontProperties
<1>5. CASE op.name \in Drains
  BY <1>1, <1>3, <1>5 DEF StackInv
<1>6. CASE op.name \in RollBacks
  <2>1. Len(queue) > checkPoints[Len(saved)].first
    BY <1>3, <1>6, StackTypes DEF Limit, Top
  <2>2. ASSUME NEW i \in 1..Len(saved), saved[i].intact
        PROVE  Kept(i)'
    <3>1. Kept(i) /\ checkPoints[i].first <= checkPoints[Len(saved)].first
      BY <1>2, <1>6, <2>2, StackTypes DEF StackInv
    <3>2. checkPoints[i].first <= Len(queue) - 1
      BY <1>2, <1>6, <2>1, <3>1, StackTypes
    <3> QED BY <1>1, <1>4, <3>1, <3>2, StackTypes DEF Kept
  <2>3. op.name \notin Drains
    BY <1>6 DEF RollBacks, NamedRollBacks, Drains
  <2> QED BY <1>1, <2>2, <2>3 DEF StackInv
<1> QED BY <1>1, <1>5, <1>6 DEF TypeOK

\* A new checkpoint stands for the queue it was set with.
LEMMA StackSet ==
  ASSUME TypeOK, StackInv, SetCheckpoint
  PROVE  StackInv'
<1>0. PICK n \in Nat : n = Len(saved)
  BY StackTypes
<1>1. PICK id \in Ids : checkPoints' = Append(checkPoints, [first |-> Len(queue), id |-> id])
  BY DEF SetCheckpoint
<1>2. /\ saved' = Append(saved, [queue |-> queue, intact |-> TRUE])
      /\ UNCHANGED <<queue, pc, op>> /\ pc = "idle"
  BY DEF SetCheckpoint, queueVars, loopVars
<1>3. Len(checkPoints) = n /\ Len(queue) \in Nat
  BY <1>0, StackTypes
<1>4. /\ Len(saved') = n + 1 /\ saved'[n + 1] = [queue |-> queue, intact |-> TRUE]
      /\ \A i \in 1..n : saved'[i] = saved[i]
  <2> DEFINE S == [queue : Seq(Messages), intact : BOOLEAN]
             e == [queue |-> queue, intact |-> TRUE]
  <2>1. e \in S /\ saved \in Seq(S) /\ saved' = Append(saved, e)
    BY <1>2 DEF TypeOK
  <2> HIDE DEF S, e
  <2>2. Len(saved') = n + 1 /\ saved'[n + 1] = e /\ \A i \in 1..n : saved'[i] = saved[i]
    BY <1>0, <2>1, AppendProperties
  <2> QED BY <2>2 DEF e
<1>5. /\ checkPoints'[n + 1] = [first |-> Len(queue), id |-> id]
      /\ \A i \in 1..n : checkPoints'[i] = checkPoints[i]
  <2>1. [first |-> Len(queue), id |-> id] \in [first : Nat, id : Ids]
    BY <1>3
  <2> QED BY <1>0, <1>1, <1>3, <2>1, AppendProperties DEF TypeOK
<1>6. \A i \in 1..n : Kept(i) => Kept(i)' /\ checkPoints[i].first <= Len(queue)
  BY <1>2, <1>4, <1>5 DEF Kept
<1>7. Kept(n + 1)'
  <2>1. saved'[n + 1].queue = queue /\ checkPoints'[n + 1].first = Len(queue)
    BY <1>4, <1>5
  <2>2. queue' = queue /\ Len(queue) \in Nat
    BY <1>2, <1>3
  <2> DEFINE q == saved'[n + 1].queue
             f == checkPoints'[n + 1].first
  <2>3. q = queue' /\ f = Len(queue') /\ f \in Nat
    BY <2>1, <2>2
  <2> HIDE DEF q, f
  <2>4. Len(q) = f /\ f <= Len(queue') /\ \A k \in 1..f : queue'[k] = q[k]
    BY <2>3
  <2> QED BY <2>4 DEF Kept, q, f
<1>8. \A i \in 1..n + 1 : saved'[i].intact => Kept(i)'
  BY <1>0, <1>4, <1>6, <1>7 DEF StackInv
<1>9. \A i, j \in 1..n + 1 : i <= j /\ saved'[i].intact =>
        saved'[j].intact /\ checkPoints'[i].first <= checkPoints'[j].first
  <2> SUFFICES ASSUME NEW i \in 1..n + 1, NEW j \in 1..n + 1, i <= j, saved'[i].intact
               PROVE  saved'[j].intact /\ checkPoints'[i].first <= checkPoints'[j].first
    OBVIOUS
  <2>1. CASE j \in 1..n
    <3>1. i \in 1..n
      BY <1>3, <2>1
    <3> QED BY <1>0, <1>4, <1>5, <2>1, <3>1 DEF StackInv
  <2>2. CASE j = n + 1 /\ i \in 1..n
    <3>1. saved'[j].intact
      BY <1>4, <2>2
    <3>2. Kept(i)
      BY <1>0, <1>4, <2>2 DEF StackInv
    <3> QED BY <1>5, <1>6, <2>2, <3>1, <3>2
  <2>3. CASE i = n + 1 /\ j = n + 1
    BY <1>3, <1>4, <1>5, <2>3
  <2> QED BY <1>3, <2>1, <2>2, <2>3
<1> QED BY <1>2, <1>4, <1>8, <1>9 DEF StackInv

\* Emptying the queue keeps only the checkpoints that were set with none.
LEMMA StackDrain ==
  ASSUME TypeOK, StackInv, BeginDrain
  PROVE  StackInv'
<1>1. /\ saved' = [i \in 1..Len(saved) |->
                     [queue |-> <<>>, intact |-> saved[i].intact /\ queue = <<>>]]
      /\ UNCHANGED <<queue, checkPoints>>
  BY DEF BeginDrain, queueVars, TypeOK
<1>2. Len(saved') = Len(saved) /\ Len(saved) \in Nat
  BY <1>1, StackTypes
<1>3. \A i \in 1..Len(saved) : /\ saved'[i].queue = <<>>
                               /\ saved'[i].intact <=> saved[i].intact /\ queue = <<>>
  BY <1>1
<1>4. ASSUME NEW i \in 1..Len(saved), saved'[i].intact
      PROVE  Kept(i)'
  <2>1. Kept(i) /\ queue = <<>>
    BY <1>3, <1>4 DEF StackInv
  <2>2. checkPoints[i].first = 0
    BY <2>1, StackTypes DEF Kept
  <2> QED BY <1>1, <1>3, <2>1, <2>2 DEF Kept
<1> QED BY <1>1, <1>2, <1>3, <1>4 DEF StackInv

\* Every step keeps what the checkpoints stand for.
LEMMA StackNext == TypeOK /\ TypeOK' /\ StackInv /\ [Next]_vars => StackInv'
<1> SUFFICES ASSUME TypeOK, TypeOK', StackInv, [Next]_vars PROVE StackInv'
  OBVIOUS
<1>0. Len(saved) \in Nat /\ Len(checkPoints) = Len(saved)
  BY StackTypes
<1>1. CASE AddMessage \/ Push
  <2>1. \E m \in Messages : PushMessage(m)
    BY <1>1, HeadTailProperties DEF AddMessage, Push, TypeOK
  <2>2. UNCHANGED <<stackVars, op, pc>> /\ pc # "removing"
    BY <1>1 DEF AddMessage, Push, loopVars
  <2> QED BY <2>1, <2>2, StackPush
<1>2. CASE DelCheckpoint \/ FinishRollBack \/ NextCheckpoint
  <2>1. checkPoints # <<>>
    <3>1. CASE DelCheckpoint \/ FinishRollBack
      BY <3>1 DEF DelCheckpoint, FinishRollBack, TypeOK
    <3>2. CASE NextCheckpoint
      <4>1. op \in Ops /\ op.name = "rollbackNumCheckpoints" /\ Len(checkPoints) >= op.n
        BY <3>2 DEF NextCheckpoint, TypeOK
      <4>2. op.n \in Nat \ {0} /\ Len(checkPoints) \in Nat
        BY <1>0, <4>1, NumOp
      <4>3. Len(checkPoints) # 0
        BY <4>1, <4>2
      <4> QED BY <4>3
    <3> QED BY <1>2, <3>1, <3>2
  <2>2. Len(saved) - 1 \in 0..Len(saved)
    <3>1. Len(checkPoints) \in Nat \ {0}
      BY <2>1, EmptySeq DEF TypeOK
    <3> QED BY <1>0, <3>1
  <2>3. /\ checkPoints' = SubSeq(checkPoints, 1, Len(saved) - 1)
        /\ saved' = SubSeq(saved, 1, Len(saved) - 1)
        /\ UNCHANGED queue
    BY <1>0, <1>2 DEF DelCheckpoint, FinishRollBack, NextCheckpoint, Front, queueVars
  <2>4. ~(pc' = "removing" /\ op'.name \in Drains)
    <3>1. CASE DelCheckpoint \/ FinishRollBack
      BY <3>1 DEF DelCheckpoint, FinishRollBack, Return, loopVars
    <3>2. CASE NextCheckpoint
      <4>1. op = [name |-> "rollbackNumCheckpoints", n |-> op.n]
        BY <3>2, NumOp DEF NextCheckpoint, TypeOK
      <4> QED BY <3>2, <4>1 DEF NextCheckpoint, Return, Drains
    <3> QED BY <1>2, <3>1, <3>2
  <2> QED BY <2>2, <2>3, <2>4, StackPop
<1>3. CASE DeleteNumCheckpoints
  <2>1. PICK n \in 1..Len(checkPoints) :
          /\ checkPoints' = SubSeq(checkPoints, 1, Len(checkPoints) - n)
          /\ saved' = SubSeq(saved, 1, Len(saved) - n)
    BY <1>3 DEF DeleteNumCheckpoints
  <2>2. Len(saved) - n \in 0..Len(saved)
    BY <1>0
  <2>3. pc' = "idle" /\ UNCHANGED queue
    BY <1>3 DEF DeleteNumCheckpoints, loopVars, queueVars
  <2> QED BY <1>0, <2>1, <2>2, <2>3, StackPop
<1>4. CASE EndProcess
  BY <1>4 DEF EndProcess, StackInv
<1>5. CASE UNCHANGED <<queue, stackVars>> /\ ~(pc' = "removing" /\ op'.name \in Drains)
  BY <1>5 DEF StackInv, Kept, stackVars
<1>6. CASE BeginRollBack
  <2>1. op'.name \notin Drains
    BY <1>6 DEF BeginRollBack, Begin, NamedRollBacks, Drains
  <2> QED BY <1>5, <1>6, <2>1 DEF BeginRollBack, queueVars
<1>7. CASE FinishDrain \/ FinishPush \/ FreeMessages
  BY <1>5, <1>7 DEF FinishDrain, FinishPush, FreeMessages, Return, queueVars, loopVars
<1>8. CASE BeginPush
  BY <1>5, <1>8 DEF BeginPush, Begin, queueVars, Drains
<1>9. CASE UNCHANGED vars
  BY <1>9 DEF vars, queueVars, stackVars, loopVars, StackInv, Kept
<1> QED BY <1>1, <1>2, <1>3, <1>4, <1>6, <1>7, <1>8, <1>9, StackRemove, StackSet,
           StackDrain DEF Next, Abort, WrongCheckpoint

\* Between two operations no operation is in progress.
IdleInv == pc = "idle" => op = NoOp

\* Every step that ends an operation clears it.
LEMMA IdleNext == TypeOK /\ IdleInv /\ [Next]_vars => IdleInv'
<1> SUFFICES ASSUME TypeOK, IdleInv, [Next]_vars PROVE IdleInv'
  OBVIOUS
<1> USE DEF IdleInv
<1>1. CASE UNCHANGED <<pc, op>>
  BY <1>1
<1>2. CASE AddMessage \/ SetCheckpoint \/ DelCheckpoint \/ DeleteNumCheckpoints \/ FreeMessages
  BY <1>1, <1>2 DEF AddMessage, SetCheckpoint, DelCheckpoint, DeleteNumCheckpoints,
     FreeMessages, loopVars
<1>3. CASE Remove \/ Push
  BY <1>1, <1>3 DEF Remove, RemoveMessage, Push
<1>4. CASE EndProcess
  BY <1>4 DEF EndProcess
<1>5. CASE BeginRollBack \/ BeginDrain \/ BeginPush
  BY <1>5 DEF BeginRollBack, BeginDrain, BeginPush, Begin
<1>6. CASE FinishRollBack \/ FinishDrain \/ FinishPush \/ NextCheckpoint
  BY <1>6 DEF FinishRollBack, FinishDrain, FinishPush, NextCheckpoint, Return
<1>7. CASE UNCHANGED vars
  BY <1>1, <1>7 DEF vars, loopVars
<1> QED BY <1>2, <1>3, <1>4, <1>5, <1>6, <1>7 DEF Next, Abort, WrongCheckpoint

\* Only the end of a roll back, or of one of its rounds, takes a checkpoint away
\* while a roll back is in progress, and the queue is then as long as it was when
\* the checkpoint was set.
LEMMA RollBackStep ==
  ASSUME TypeOK, StackInv, IdleInv, [Next]_vars,
         op.name \in RollBacks, pc' # "aborted", Len(saved') < Len(saved), Top(saved).intact
  PROVE  queue' = Top(saved).queue
<1>0. Len(saved) \in Nat /\ Len(checkPoints) = Len(saved)
  BY StackTypes
<1>1. pc # "idle"
  BY DEF IdleInv, NoOp, RollBacks, NamedRollBacks
<1>2. FinishRollBack \/ NextCheckpoint
  <2>1. ~UNCHANGED saved
    BY <1>0
  <2>2. ~BeginDrain /\ ~BeginRollBack /\ ~BeginPush
    BY <1>1 DEF BeginDrain, BeginRollBack, BeginPush, Begin
  <2>3. ~EndProcess
    BY DEF EndProcess
  <2>4. ~AddMessage /\ ~SetCheckpoint /\ ~DelCheckpoint /\ ~DeleteNumCheckpoints /\ ~FreeMessages
    BY <1>1 DEF AddMessage, SetCheckpoint, DelCheckpoint, DeleteNumCheckpoints, FreeMessages
  <2>5. ~Remove /\ ~Push /\ ~FinishDrain /\ ~FinishPush
    BY <2>1 DEF Remove, RemoveMessage, Push, FinishDrain, FinishPush, stackVars
  <2>6. ~UNCHANGED vars
    BY <2>1 DEF vars, stackVars
  <2> QED BY <2>2, <2>3, <2>4, <2>5, <2>6 DEF Next, Abort, WrongCheckpoint
<1>3. /\ Len(queue) <= Top(checkPoints).first /\ UNCHANGED queue
      /\ checkPoints # <<>>
  <2>1. Len(queue) <= Limit /\ UNCHANGED queue /\ pc = "removing"
    BY <1>2 DEF FinishRollBack, NextCheckpoint, queueVars
  <2>2. Len(checkPoints) >= 1
    BY <1>0, <2>1 DEF TypeOK, RollBacks, Ops, NoOp, Drains, NamedRollBacks
  <2> QED BY <2>1, <2>2 DEF Limit, TypeOK
<1>4. PICK n \in Nat : n = Len(saved) /\ n \in 1..Len(saved)
  <2>1. Len(checkPoints) \in Nat \ {0}
    BY <1>3, EmptySeq DEF TypeOK
  <2> QED BY <1>0, <2>1
<1>5. Kept(n) /\ saved[n].queue \in Seq(Messages) /\ queue \in Seq(Messages)
  BY <1>4, StackTypes DEF StackInv, Top
<1>6. Len(queue) <= checkPoints[n].first
  BY <1>0, <1>3, <1>4 DEF Top
<1>7. /\ Len(queue) = Len(saved[n].queue)
      /\ \A k \in 1..Len(queue) : queue[k] = saved[n].queue[k]
  BY <1>4, <1>5, <1>6, StackTypes DEF Kept
<1>8. queue = saved[n].queue
  BY <1>5, <1>7, SeqEqual
<1> QED BY <1>3, <1>4, <1>8 DEF Top

\* A roll back to a checkpoint leaves the queue as it was when the checkpoint was
\* set, unless an operation has emptied the queue since (rollBack, rollBackAndPrint,
\* popCheckPoint and each round of rollbackNumCheckpoints).
THEOREM RollBackCorrect == Spec => RollBackRestores
<1>1. Init => StackInv /\ IdleInv
  BY DEF Init, StackInv, IdleInv
<1>2. TypeOK /\ TypeOK' /\ StackInv /\ IdleInv /\ [Next]_vars => StackInv' /\ IdleInv'
  BY StackNext, IdleNext
<1>3. TypeOK /\ StackInv /\ IdleInv /\ [Next]_vars =>
        [ op.name \in RollBacks /\ pc' # "aborted" /\ Len(saved') < Len(saved)
            /\ Top(saved).intact => queue' = Top(saved).queue ]_vars
  BY RollBackStep
<1> QED BY <1>1, <1>2, <1>3, TypeCorrect, PTL DEF Spec, RollBackRestores

-----------------------------------------------------------------------------
(* What popCheckPoint hands out and pushMessages gives back.               *)

\* What has been handed out is a queue cut in two; while popCheckPoint cuts it,
\* and while pushMessages joins it, nothing is missing.
HandleInv ==
  /\ \A i \in 1..Len(handles) : handles[i].all = handles[i].rest \o handles[i].msgs
  /\ pc = "removing" /\ op.name = "popCheckPoint" => queue \o result = before
  /\ pc = "pushing" => queue \o result = before \o Top(handles).msgs

\* The lists handed out before stay as they are.
LEMMA HandleFront ==
  ASSUME TypeOK, HandleInv, handles # <<>>, handles' = Front(handles), pc' = "idle"
  PROVE  HandleInv'
<1>1. PICK n \in Nat : n = Len(handles)
  BY DEF TypeOK
<1>2. Len(handles') = n - 1 /\ \A i \in 1..n - 1 : handles'[i] = handles[i]
  BY <1>1, FrontProperties DEF TypeOK
<1>3. \A i \in 1..n - 1 : handles'[i].all = handles'[i].rest \o handles'[i].msgs
  <2> TAKE i \in 1..n - 1
  <2>1. i \in 1..Len(handles)
    BY <1>1
  <2>2. handles[i].all = handles[i].rest \o handles[i].msgs
    BY <2>1, Zenon DEF HandleInv
  <2>3. handles'[i] = handles[i]
    BY <1>2
  <2> QED BY <2>2, <2>3, Zenon
<1> QED BY <1>2, <1>3 DEF HandleInv

\* What popCheckPoint hands out goes with the queue it leaves.
LEMMA HandleAppend ==
  ASSUME TypeOK, HandleInv, FinishRollBack, op.name = "popCheckPoint"
  PROVE  HandleInv'
<1>1. PICK n \in Nat : n = Len(handles)
  BY DEF TypeOK
<1>2. /\ Len(handles') = n + 1 /\ \A i \in 1..n : handles'[i] = handles[i]
      /\ handles'[n + 1] = [msgs |-> result, rest |-> queue, all |-> before]
  <2> DEFINE H == [msgs : Seq(Messages), rest : Seq(Messages), all : Seq(Messages)]
             h == [msgs |-> result, rest |-> queue, all |-> before]
  <2>1. h \in H /\ handles \in Seq(H) /\ handles' = Append(handles, h)
    BY DEF TypeOK, FinishRollBack
  <2> HIDE DEF H, h
  <2>2. Len(handles') = n + 1 /\ handles'[n + 1] = h /\ \A i \in 1..n : handles'[i] = handles[i]
    BY <1>1, <2>1, AppendProperties
  <2> QED BY <2>2 DEF h
<1>3. queue \o result = before /\ pc' = "idle"
  BY DEF HandleInv, FinishRollBack, Return
<1>4. ASSUME NEW i \in 1..n + 1
      PROVE  handles'[i].all = handles'[i].rest \o handles'[i].msgs
  <2>1. CASE i = n + 1
    <3>1. /\ handles'[i].all = before /\ handles'[i].rest = queue
          /\ handles'[i].msgs = result
      BY <1>2, <2>1
    <3> QED BY <1>3, <3>1, Zenon
  <2>2. CASE i \in 1..n
    BY <1>1, <1>2, <2>2 DEF HandleInv
  <2>3. i = n + 1 \/ i \in 1..n
    OBVIOUS
  <2> QED BY <2>1, <2>2, <2>3, Zenon
<1> QED BY <1>2, <1>3, <1>4 DEF HandleInv

\* Every step keeps what was handed out.
LEMMA HandleNext == TypeOK /\ HandleInv /\ [Next]_vars => HandleInv'
<1> SUFFICES ASSUME TypeOK, HandleInv, [Next]_vars PROVE HandleInv'
  OBVIOUS
<1>1. CASE Remove
  <2>1. UNCHANGED <<pc, op, before, handles>> /\ pc = "removing"
    BY <1>1 DEF Remove, RemoveMessage
  <2>2. CASE op.name = "popCheckPoint"
    <3>1. queue # <<>>
      <4>1. Limit \in Nat
        <5>1. checkPoints # <<>>
          BY <2>1, <2>2 DEF TypeOK, NamedRollBacks
        <5>2. Top(checkPoints) \in [first : Nat, id : Ids]
          BY <5>1, FrontProperties DEF TypeOK
        <5> QED BY <5>2 DEF Limit
      <4> QED BY <1>1, <4>1 DEF Remove
    <3>2. queue' = Front(queue) /\ result' = <<Top(queue)>> \o result
      BY <1>1, <2>2 DEF Remove, RemoveMessage, Gather, IsGathered
    <3>3. queue \in Seq(Messages) /\ result \in Seq(Messages)
      BY DEF TypeOK
    <3>4. queue' \o result' = queue \o result
      BY <3>1, <3>2, <3>3, MoveTop, Zenon
    <3> QED BY <2>1, <2>2, <3>4 DEF HandleInv
  <2>3. CASE op.name # "popCheckPoint"
    BY <2>1, <2>3 DEF HandleInv
  <2> QED BY <2>2, <2>3
<1>2. CASE Push
  <2>1. /\ UNCHANGED <<pc, op, before, handles>> /\ pc = "pushing" /\ result # <<>>
        /\ queue' = Append(queue, Head(result)) /\ result' = Tail(result)
    BY <1>2 DEF Push, PushMessage
  <2>2. queue \in Seq(Messages) /\ result \in Seq(Messages)
    BY DEF TypeOK
  <2>3. queue' \o result' = queue \o result
    BY <2>1, <2>2, MoveHead, Zenon
  <2> QED BY <2>1, <2>3 DEF HandleInv
<1>3. CASE BeginPush
  <2>1. /\ UNCHANGED <<queue, handles>> /\ pc' = "pushing"
        /\ result' = Top(handles).msgs /\ before' = queue
    BY <1>3 DEF BeginPush, Begin, queueVars
  <2>2. queue' \o result' = before' \o Top(handles').msgs
    BY <2>1
  <2> QED BY <2>1, <2>2 DEF HandleInv
<1>4. CASE BeginRollBack \/ BeginDrain
  <2>1. /\ UNCHANGED <<queue, handles>> /\ pc' = "removing" /\ result' = <<>> /\ before' = queue
    BY <1>4 DEF BeginRollBack, BeginDrain, Begin, queueVars
  <2>2. queue' \o result' = before'
    BY <2>1, ConcatEmptySeq DEF TypeOK
  <2> QED BY <2>1, <2>2 DEF HandleInv
<1>5. CASE FinishRollBack
  <2>1. CASE op.name = "popCheckPoint"
    BY <1>5, <2>1, HandleAppend
  <2>2. CASE op.name # "popCheckPoint"
    BY <1>5, <2>2 DEF FinishRollBack, Return, HandleInv
  <2> QED BY <2>1, <2>2
<1>6. CASE FinishPush \/ FreeMessages
  <2>1. handles # <<>>
    BY <1>6 DEF FinishPush, FreeMessages, TypeOK
  <2>2. pc' = "idle" /\ handles' = Front(handles)
    BY <1>6 DEF FinishPush, FreeMessages, Return, loopVars
  <2> QED BY <2>1, <2>2, HandleFront
<1>7. CASE EndProcess
  BY <1>7 DEF EndProcess, HandleInv
<1>8. CASE NextCheckpoint
  <2>1. op'.name # "popCheckPoint"
    <3>1. op = [name |-> "rollbackNumCheckpoints", n |-> op.n]
      BY <1>8, NumOp DEF NextCheckpoint, TypeOK
    <3> QED BY <1>8, <3>1 DEF NextCheckpoint, Return, NoOp
  <2>2. UNCHANGED handles /\ pc' # "pushing"
    BY <1>8 DEF NextCheckpoint, Return
  <2> QED BY <2>1, <2>2 DEF HandleInv
<1>9. CASE UNCHANGED handles /\ pc' = "idle"
  BY <1>9 DEF HandleInv
<1>10. CASE AddMessage \/ SetCheckpoint \/ DelCheckpoint \/ DeleteNumCheckpoints \/ FinishDrain
  BY <1>9, <1>10 DEF AddMessage, SetCheckpoint, DelCheckpoint, DeleteNumCheckpoints,
     FinishDrain, Return, loopVars
<1>11. CASE UNCHANGED vars
  BY <1>11 DEF vars, queueVars, loopVars, HandleInv
<1> QED BY <1>1, <1>2, <1>3, <1>4, <1>5, <1>6, <1>7, <1>8, <1>10, <1>11
           DEF Next, Abort, WrongCheckpoint

\* pushMessages leaves the queue popCheckPoint has cut, if nothing has changed what
\* popCheckPoint left in the meantime.
LEMMA PushStep ==
  ASSUME TypeOK, HandleInv, [Next]_vars,
         pc = "pushing", pc' = "idle", before = Top(handles).rest
  PROVE  queue' = Top(handles).all
<1>1. FinishPush
  BY DEF Next, AddMessage, SetCheckpoint, DelCheckpoint, DeleteNumCheckpoints, Abort,
     BeginRollBack, BeginDrain, BeginPush, Begin, Remove, RemoveMessage, FinishRollBack,
     WrongCheckpoint, NextCheckpoint, FinishDrain, Push, FreeMessages, vars, loopVars
<1>2. queue \o result = before \o Top(handles).msgs /\ result = <<>> /\ UNCHANGED queue
  BY <1>1 DEF HandleInv, FinishPush, queueVars
<1>3. queue \o <<>> = queue
  BY ConcatEmptySeq DEF TypeOK
<1>4. Top(handles).all = Top(handles).rest \o Top(handles).msgs
  <2>1. handles # <<>> /\ Len(handles) \in Nat
    BY DEF TypeOK
  <2>2. Len(handles) \in 1..Len(handles)
    BY <2>1, EmptySeq DEF TypeOK
  <2> QED BY <2>2 DEF HandleInv, Top
<1> QED BY <1>2, <1>3, <1>4, Zenon

\* popCheckPoint followed by pushMessages puts every message back in its place.
THEOREM PushCorrect == Spec => PushRestores
<1>1. Init => HandleInv
  BY DEF Init, HandleInv
<1>2. TypeOK /\ HandleInv /\ [Next]_vars =>
        [ pc = "pushing" /\ pc' = "idle" /\ before = Top(handles).rest =>
            queue' = Top(handles).all ]_vars
  BY PushStep
<1> QED BY <1>1, <1>2, HandleNext, TypeCorrect, PTL DEF Spec, PushRestores

-----------------------------------------------------------------------------
(* What getMessages and printMessagesStr return.                           *)

\* The positions of a set one further on, and a new first one.
LEMMA ShiftedCount ==
  ASSUME NEW N \in Nat, NEW K \in SUBSET (1..N)
  PROVE  /\ IsFiniteSet(K) /\ Cardinality(K) \in Nat
         /\ Cardinality({1} \cup {k + 1 : k \in K}) = Cardinality(K) + 1
<1> DEFINE T == {k + 1 : k \in K}
           f == [k \in K |-> k + 1]
<1>1. IsFiniteSet(K) /\ Cardinality(K) \in Nat
  <2>1. IsFiniteSet(1..N)
    BY FS_Interval
  <2>2. IsFiniteSet(K)
    BY <2>1, FS_Subset
  <2> QED BY <2>2, FS_CardinalityType
<1>2. f \in Bijection(K, T)
  <2>1. f \in [K -> T]
    OBVIOUS
  <2>2. \A a, b \in K : f[a] = f[b] => a = b
    OBVIOUS
  <2>3. \A t \in T : \E a \in K : f[a] = t
    OBVIOUS
  <2> HIDE DEF f, T
  <2> QED BY <2>1, <2>2, <2>3, Fun_IsBij
<1>3. IsFiniteSet(T) /\ Cardinality(T) = Cardinality(K)
  <2> HIDE DEF f, T
  <2> QED BY <1>1, <1>2, FS_Bijection DEF ExistsBijection
<1>4. 1 \notin T
  OBVIOUS
<1> HIDE DEF T
<1>5. Cardinality(T \cup {1}) = Cardinality(T) + 1
  BY <1>3, <1>4, FS_AddElement
<1>6. T \cup {1} = {1} \cup T
  OBVIOUS
<1> QED BY <1>1, <1>3, <1>5, <1>6 DEF T

\* How many rows start up to a place.
Rank(q, i) == Cardinality({j \in RowStarts(q) : j <= i})

\* A list that is merged has an element for every row.
LEMMA RankFacts ==
  ASSUME NEW q \in Seq(Messages), NEW r \in Seq(Messages), IsMerged(r, q)
  PROVE  /\ RowStarts(q) \in SUBSET (1..Len(q)) /\ Len(q) \in Nat /\ Len(r) \in Nat
         /\ Len(r) = Cardinality(RowStarts(q))
         /\ \A i \in RowStarts(q) : Rank(q, i) \in 1..Len(r) /\ r[Rank(q, i)] = q[i]
<1>1. /\ RowStarts(q) \in SUBSET (1..Len(q)) /\ Len(q) \in Nat /\ Len(r) \in Nat
      /\ Len(r) = Cardinality(RowStarts(q))
  BY DEF RowStarts, IsMerged
<1>2. IsFiniteSet(RowStarts(q))
  BY <1>1, ShiftedCount
<1>3. ASSUME NEW i \in RowStarts(q)
      PROVE  Rank(q, i) \in 1..Len(r) /\ r[Rank(q, i)] = q[i]
  <2> DEFINE J == {j \in RowStarts(q) : j <= i}
  <2>1. J \in SUBSET RowStarts(q) /\ i \in J /\ Rank(q, i) = Cardinality(J)
    BY <1>1 DEF Rank
  <2> HIDE DEF J
  <2>2. IsFiniteSet(J) /\ Cardinality(J) <= Cardinality(RowStarts(q))
    BY <1>2, <2>1, FS_Subset
  <2>3. Cardinality(J) \in Nat /\ Cardinality(J) # 0
    BY <2>1, <2>2, FS_CardinalityType, FS_EmptySet
  <2>4. r[Rank(q, i)] = q[i]
    BY <1>3 DEF IsMerged, Rank
  <2> QED BY <1>1, <2>1, <2>2, <2>3, <2>4
<1> QED BY <1>1, <1>3

\* One more message before the others: its row is new, or the first one.
Merged(m, r, q) == IF q # <<>> /\ q[1] = m THEN r ELSE <<m>> \o r

\* Merging stays right when the queue's next older message comes before it.
LEMMA MergedMore ==
  ASSUME NEW q \in Seq(Messages), NEW r \in Seq(Messages), IsMerged(r, q), NEW m \in Messages
  PROVE  Merged(m, r, q) \in Seq(Messages) /\ IsMerged(Merged(m, r, q), <<m>> \o q)
<1> DEFINE p == <<m>> \o q
           N == Len(q)
           RQ == RowStarts(q)
           RP == RowStarts(p)
           same == q # <<>> /\ q[1] = m
           K == IF same THEN RQ \ {1} ELSE RQ
           s == Merged(m, r, q)
<1>1. /\ N \in Nat /\ DOMAIN q = 1..N /\ RQ \in SUBSET (1..N) /\ Len(r) \in Nat
      /\ Len(r) = Cardinality(RQ)
      /\ \A i \in RQ : Rank(q, i) \in 1..Len(r) /\ r[Rank(q, i)] = q[i]
  BY RankFacts
<1>2. /\ <<m>> \in Seq(Messages) /\ Len(<<m>>) = 1 /\ <<m>>[1] = m
  OBVIOUS
<1>3. /\ p \in Seq(Messages) /\ DOMAIN p = 1..N + 1
      /\ p[1] = m /\ \A k \in 1..N : p[k + 1] = q[k]
  <2>1. /\ p \in Seq(Messages) /\ Len(p) = 1 + N
        /\ \A i \in 1..1 + N : p[i] = IF i <= 1 THEN <<m>>[i] ELSE q[i - 1]
    BY <1>2, ConcatProperties
  <2> HIDE DEF p, N
  <2>2. DOMAIN p = 1..N + 1
    BY <1>1, <2>1
  <2>3. p[1] = m
    BY <1>1, <1>2, <2>1
  <2>4. ASSUME NEW k \in 1..N PROVE p[k + 1] = q[k]
    <3>1. k + 1 \in 1..1 + N /\ ~(k + 1 <= 1) /\ k + 1 - 1 = k
      BY <1>1
    <3> QED BY <2>1, <3>1
  <2> QED BY <2>1, <2>2, <2>3, <2>4
<1>4. /\ <<m>> \o r \in Seq(Messages) /\ Len(<<m>> \o r) = Len(r) + 1
      /\ (<<m>> \o r)[1] = m /\ \A k \in 1..Len(r) : (<<m>> \o r)[k + 1] = r[k]
  <2> DEFINE t == <<m>> \o r
             n == Len(r)
  <2>1. /\ t \in Seq(Messages) /\ Len(t) = 1 + n
        /\ \A i \in 1..1 + n : t[i] = IF i <= 1 THEN <<m>>[i] ELSE r[i - 1]
    BY <1>2, ConcatProperties
  <2>2. n \in Nat
    BY <1>1
  <2> HIDE DEF t, n
  <2>3. t[1] = m /\ Len(t) = n + 1
    BY <1>2, <2>1, <2>2
  <2>4. ASSUME NEW k \in 1..n PROVE t[k + 1] = r[k]
    <3>1. k + 1 \in 1..1 + n /\ ~(k + 1 <= 1) /\ k + 1 - 1 = k
      BY <2>2
    <3> QED BY <2>1, <3>1
  <2> QED BY <2>1, <2>3, <2>4 DEF t, n
<1>5. /\ \A i \in 1..N : i \in RQ <=> i = 1 \/ q[i] # q[i - 1]
      /\ \A i \in 1..N + 1 : i \in RP <=> i = 1 \/ p[i] # p[i - 1]
      /\ RP \subseteq 1..N + 1
  BY <1>1, <1>3 DEF RowStarts
<1>6. same <=> N # 0 /\ q[1] = m
  BY <1>1, EmptySeq
<1>7. s = IF same THEN r ELSE <<m>> \o r
  BY DEF Merged
<1> HIDE DEF p, N, RQ, RP, s, same
<1>8. \A k \in 1..N : k + 1 \in RP <=> k \in K
  <2>1. ASSUME NEW k \in 1..N PROVE k + 1 \in RP <=> k \in K
    <3>1. k + 1 \in 1..N + 1 /\ k + 1 # 1 /\ k + 1 - 1 = k
      BY <1>1
    <3>2. k + 1 \in RP <=> q[k] # p[k]
      BY <1>3, <1>5, <3>1
    <3>3. CASE k = 1
      BY <1>1, <1>3, <1>5, <1>6, <3>2, <3>3
    <3>4. CASE k # 1
      <4>1. k - 1 \in 1..N /\ k - 1 + 1 = k
        BY <1>1, <3>4
      <4>2. p[k] = q[k - 1]
        BY <1>3, <4>1
      <4> QED BY <1>5, <3>2, <3>4, <4>2
    <3> QED BY <3>3, <3>4
  <2> QED BY <2>1
<1>9. K \in SUBSET (1..N) /\ 1 \in RP
  BY <1>1, <1>5
<1>10. \A i \in RP : i = 1 \/ \E k \in K : i = k + 1
  <2>1. ASSUME NEW i \in RP, i # 1 PROVE \E k \in K : i = k + 1
    <3>1. i - 1 \in 1..N /\ i = i - 1 + 1
      BY <1>1, <1>5, <2>1
    <3> QED BY <1>8, <3>1
  <2> QED BY <2>1
<1> HIDE DEF K
<1>11. RP = {1} \cup {k + 1 : k \in K}
  BY <1>8, <1>9, <1>10
<1>12. Cardinality(RP) = Cardinality(K) + 1 /\ Cardinality(K) \in Nat
  BY <1>1, <1>9, <1>11, ShiftedCount
<1>13. ASSUME NEW k \in K
       PROVE  LET L == {x \in K : x <= k}
              IN  Rank(p, k + 1) = Cardinality(L) + 1 /\ IsFiniteSet(L) /\ Cardinality(L) \in Nat
  <2> DEFINE L == {x \in K : x <= k}
  <2>1. L \in SUBSET (1..N)
    BY <1>9
  <2>2. {j \in RP : j <= k + 1} = {1} \cup {x + 1 : x \in L}
    BY <1>1, <1>9, <1>11
  <2>3. Rank(p, k + 1) = Cardinality({1} \cup {x + 1 : x \in L})
    BY <2>2 DEF Rank, RP
  <2> HIDE DEF L
  <2> QED BY <1>1, <2>1, <2>3, ShiftedCount DEF L
<1>14. Rank(p, 1) = 1
  <2>1. {j \in RP : j <= 1} = {1}
    BY <1>1, <1>9, <1>11
  <2> QED BY <2>1, FS_Singleton DEF Rank, RP
<1>15. CASE ~same
  <2>1. K = RQ /\ s = <<m>> \o r
    BY <1>7, <1>15 DEF K
  <2>2. Len(s) = Cardinality(RP)
    BY <1>1, <1>4, <1>12, <2>1
  <2>3. ASSUME NEW i \in RP PROVE s[Rank(p, i)] = p[i]
    <3>1. CASE i = 1
      BY <1>3, <1>4, <1>14, <2>1, <3>1
    <3>2. CASE \E k \in K : i = k + 1
      <4>1. PICK k \in K : i = k + 1
        BY <3>2
      <4>2. Rank(p, i) = Rank(q, k) + 1
        BY <1>13, <2>1, <4>1 DEF Rank, RQ
      <4>3. Rank(q, k) \in 1..Len(r) /\ r[Rank(q, k)] = q[k]
        BY <1>1, <2>1
      <4>4. p[i] = q[k]
        BY <1>3, <1>9, <4>1
      <4> QED BY <1>4, <2>1, <4>2, <4>3, <4>4
    <3> QED BY <1>10, <3>1, <3>2
  <2>4. IsMerged(s, p)
    BY <2>2, <2>3 DEF IsMerged, Rank, RP
  <2> QED BY <1>4, <2>1, <2>4 DEF s, p
<1>16. CASE same
  <2>1. K = RQ \ {1} /\ s = r /\ 1 \in RQ /\ q[1] = m
    BY <1>1, <1>5, <1>6, <1>7, <1>16 DEF K
  <2>2. IsFiniteSet(K)
    BY <1>1, <1>9, ShiftedCount
  <2>3. RQ = K \cup {1} /\ 1 \notin K
    BY <2>1
  <2>4. Cardinality(RQ) = Cardinality(K) + 1
    BY <2>2, <2>3, FS_AddElement
  <2>5. Len(s) = Cardinality(RP)
    BY <1>1, <1>12, <2>1, <2>4
  <2>6. Rank(q, 1) = 1
    <3>1. \A j \in RQ : j \in Int /\ j >= 1
      BY <1>1
    <3>2. {j \in RQ : j <= 1} = {1}
      BY <2>1, <3>1
    <3> QED BY <3>2, FS_Singleton DEF Rank, RQ
  <2>7. ASSUME NEW i \in RP PROVE s[Rank(p, i)] = p[i]
    <3>1. CASE i = 1
      <4>1. r[1] = q[1]
        BY <1>1, <2>1, <2>6
      <4> QED BY <1>3, <1>14, <2>1, <3>1, <4>1
    <3>2. CASE \E k \in K : i = k + 1
      <4>1. PICK k \in K : i = k + 1
        BY <3>2
      <4> DEFINE L == {x \in K : x <= k}
      <4>2. Rank(p, k + 1) = Cardinality(L) + 1 /\ IsFiniteSet(L)
        BY <1>13
      <4>3. {x \in RQ : x <= k} = L \cup {1} /\ 1 \notin L
        BY <1>9, <2>3
      <4> HIDE DEF L
      <4>4. Rank(q, k) = Cardinality(L) + 1
        BY <4>2, <4>3, FS_AddElement DEF Rank, RQ
      <4>5. Rank(p, i) = Rank(q, k)
        BY <4>1, <4>2, <4>4
      <4>6. r[Rank(q, k)] = q[k]
        BY <1>1, <2>3
      <4>7. p[i] = q[k]
        BY <1>3, <1>9, <4>1
      <4> QED BY <2>1, <4>5, <4>6, <4>7
    <3> QED BY <1>10, <3>1, <3>2
  <2>8. IsMerged(s, p)
    BY <2>5, <2>7 DEF IsMerged, Rank, RP
  <2> QED BY <2>1, <2>8 DEF s, p
<1> QED BY <1>15, <1>16

\* Operations that return the text of every row.
Reports == {"getMessages", "printMessagesStr"}

\* The messages that are gone are the rest of the queue the operation began with;
\* their rows have been gathered, and the last one removed is the first of them.
Drained(rest) ==
  /\ rest \in Seq(Messages)
  /\ before = queue \o rest
  /\ IsMerged(result, rest)
  /\ last = IF rest = <<>> THEN <<>> ELSE <<rest[1]>>

DrainInv ==
  op.name \in Reports => pc = "removing" /\ \E rest : Drained(rest)

\* Nothing is merged into nothing.
LEMMA MergedNone == IsMerged(<<>>, <<>>)
<1>1. RowStarts(<<>>) = {}
  BY DEF RowStarts
<1> QED BY <1>1, FS_EmptySet DEF IsMerged

\* The newest message is removed, and gathered if it is not like the one before.
LEMMA DrainRemove ==
  ASSUME TypeOK, DrainInv, Remove
  PROVE  DrainInv'
<1>1. /\ UNCHANGED <<pc, op, before>>
      /\ Len(queue) > Limit
      /\ queue' = Front(queue) /\ result' = Gather(Top(queue)) /\ last' = <<Top(queue)>>
  BY DEF Remove, RemoveMessage
<1> SUFFICES ASSUME op.name \in Reports PROVE pc' = "removing" /\ \E rest : Drained(rest)'
  BY <1>1 DEF DrainInv
<1>2. PICK rest : Drained(rest)
  BY DEF DrainInv
<1>3. /\ queue \in Seq(Messages) /\ result \in Seq(Messages)
      /\ rest \in Seq(Messages) /\ before = queue \o rest /\ IsMerged(result, rest)
      /\ last = IF rest = <<>> THEN <<>> ELSE <<rest[1]>>
  BY <1>2 DEF TypeOK, Drained
<1>4. queue # <<>>
  <2>1. Limit = 0
    BY DEF Limit, Reports, RollBacks, NamedRollBacks
  <2> QED BY <1>1, <2>1
<1> DEFINE m == Top(queue)
           more == <<m>> \o rest
<1>5. m \in Messages
  BY <1>3, <1>4, FrontProperties
<1>6. before' = queue' \o more
  BY <1>1, <1>3, <1>4, MoveTop, Zenon
<1>7. more \in Seq(Messages) /\ more # <<>> /\ more[1] = m
  <2>1. <<m>> \in Seq(Messages) /\ Len(<<m>>) = 1 /\ <<m>>[1] = m
    BY <1>5
  <2> HIDE DEF m
  <2>2. /\ more \in Seq(Messages) /\ Len(more) = 1 + Len(rest)
        /\ \A i \in 1..1 + Len(rest) : more[i] = IF i <= 1 THEN <<m>>[i] ELSE rest[i - 1]
    BY <1>3, <2>1, ConcatProperties
  <2>3. Len(rest) \in Nat
    BY <1>3
  <2> HIDE DEF more
  <2>4. more[1] = m
    BY <2>1, <2>2, <2>3
  <2>5. Len(more) # 0
    BY <2>2, <2>3
  <2> QED BY <2>2, <2>4, <2>5, EmptySeq
<1>8. result' = Merged(m, result, rest)
  <2>1. last = <<m>> <=> rest # <<>> /\ rest[1] = m
    <3> HIDE DEF m
    <3>1. rest = <<>> => last # <<m>>
      BY <1>3
    <3>2. rest # <<>> => (last = <<m>> <=> rest[1] = m)
      BY <1>3
    <3> QED BY <3>1, <3>2
  <2>2. IsGathered(m) <=> last # <<m>>
    BY DEF IsGathered, Reports
  <2> QED BY <1>1, <2>1, <2>2 DEF Gather, Merged
<1>9. IsMerged(result', more)
  BY <1>3, <1>5, <1>8, MergedMore
<1>10. last' = <<more[1]>>
  BY <1>1, <1>7
<1> HIDE DEF m, more
<1>11. PICK new : new = more
  OBVIOUS
<1>13. Drained(new)'
  BY <1>6, <1>7, <1>9, <1>10, <1>11 DEF Drained
<1>12. pc' = "removing"
  BY <1>1 DEF DrainInv
<1> QED BY <1>12, <1>13

\* An operation begins with the whole queue.
LEMMA DrainBegin ==
  ASSUME TypeOK, BeginDrain
  PROVE  DrainInv'
<1>1. /\ pc' = "removing" /\ result' = <<>> /\ last' = <<>> /\ before' = queue /\ queue' = queue
  BY DEF BeginDrain, Begin, queueVars
<1>2. queue \in Seq(Messages)
  BY DEF TypeOK
<1>3. before' = queue' \o <<>>
  BY <1>1, <1>2, ConcatEmptySeq
<1>4. Drained(<<>>)'
  <2>1. <<>> \in Seq(Messages)
    OBVIOUS
  <2> QED BY <1>1, <1>3, <2>1, MergedNone DEF Drained
<1> QED BY <1>1, <1>4 DEF DrainInv

\* No other step touches what is left of a drain.
LEMMA DrainNext == TypeOK /\ IdleInv /\ DrainInv /\ [Next]_vars => DrainInv'
<1> SUFFICES ASSUME TypeOK, IdleInv, DrainInv, [Next]_vars PROVE DrainInv'
  OBVIOUS
<1>1. CASE Remove
  BY <1>1, DrainRemove
<1>2. CASE BeginDrain
  BY <1>2, DrainBegin
<1>3. CASE BeginRollBack \/ BeginPush
  BY <1>3 DEF BeginRollBack, BeginPush, Begin, NamedRollBacks, DrainInv, Reports
<1>4. CASE op' = NoOp
  BY <1>4 DEF DrainInv, NoOp, Reports
<1>5. CASE AddMessage \/ SetCheckpoint \/ DelCheckpoint \/ DeleteNumCheckpoints \/ FreeMessages
  <2>1. op' = NoOp
    BY <1>5 DEF AddMessage, SetCheckpoint, DelCheckpoint, DeleteNumCheckpoints, FreeMessages,
       loopVars, IdleInv
  <2> QED BY <2>1, <1>4
<1>6. CASE FinishRollBack \/ FinishDrain \/ FinishPush \/ EndProcess
  BY <1>4, <1>6 DEF FinishRollBack, FinishDrain, FinishPush, EndProcess, Return
<1>7. CASE NextCheckpoint
  <2>1. op = [name |-> "rollbackNumCheckpoints", n |-> op.n]
    BY <1>7, NumOp DEF NextCheckpoint, TypeOK
  <2> QED BY <1>7, <2>1 DEF NextCheckpoint, Return, NoOp, DrainInv, Reports
<1>8. CASE Push
  <2>1. op.name = "pushMessages" /\ op' = op
    BY <1>8 DEF Push, TypeOK
  <2> QED BY <2>1 DEF DrainInv, Reports
<1>9. CASE UNCHANGED vars
  BY <1>9 DEF vars, queueVars, loopVars, DrainInv, Drained
<1> QED BY <1>1, <1>2, <1>3, <1>5, <1>6, <1>7, <1>8, <1>9 DEF Next, Abort, WrongCheckpoint

\* getMessages and printMessagesStr return every row of equal messages of the queue
\* once, oldest first, whatever is in the queue.
THEOREM DrainsCorrect == Spec => []DrainsReport
<1>1. Init => IdleInv /\ DrainInv
  BY DEF Init, IdleInv, DrainInv, NoOp, Reports
<1>2. TypeOK /\ IdleInv /\ DrainInv /\ [Next]_vars => IdleInv' /\ DrainInv'
  BY IdleNext, DrainNext
<1>3. TypeOK /\ DrainInv => DrainsReport
  <2> SUFFICES ASSUME TypeOK, DrainInv, op.name \in Reports, queue = <<>>
               PROVE  IsMerged(result, before)
    BY DEF DrainsReport, Reports
  <2>1. PICK rest : Drained(rest)
    BY DEF DrainInv
  <2>2. before = rest
    BY <2>1, ConcatEmptySeq DEF Drained
  <2> QED BY <2>1, <2>2 DEF Drained
<1> QED BY <1>1, <1>2, <1>3, TypeCorrect, PTL DEF Spec

=============================================================================
