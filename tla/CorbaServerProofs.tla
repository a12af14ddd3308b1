------------------------- MODULE CorbaServerProofs -------------------------
(***************************************************************************)
(* Theorems about CorbaServer, for every set of clients and commands: type *)
(* correctness, the life of the command until it is copied, and that the   *)
(* server implements CommandService.                                       *)
(***************************************************************************)
EXTENDS CorbaServer, TLAPS

(* Where the calls and the compiler are. *)
Holds(c) == pc[c] \in {"signal", "awaitReply", "asleep", "unlock"}
Waits(c) == pc[c] \in {"awaitReply", "asleep"}
Working == main \in {"fetch", "handle", "sendreply"}
CommandOf(c) == [client |-> c, text |-> expr[c]]

(* A call owns the client lock from "signal" to "unlock"; it has its argument
   until it returns and its result once it took the reply. *)
CallInv == \A c \in Clients : /\ Holds(c) <=> omc_corba_clientlock = c
                              /\ expr[c] = None <=> pc[c] = "idle"
                              /\ result[c] = None <=> pc[c] # "unlock"

(* The turn is with one of three: the flag of the command, the compiler at
   work, the flag of the reply; each time for a client that waits. *)
TurnInv ==
    /\ omc_waiting => /\ ~corba_waiting /\ ~Working
                      /\ \E c \in Clients : Waits(c) /\ omc_cmd_message = CommandOf(c)
    /\ corba_waiting => /\ ~Working
                        /\ \E c \in Clients : Waits(c) /\ omc_reply_message = expr[c]
    /\ main = "fetch" =>
          \E c \in Clients : Waits(c) /\ omc_cmd_message = CommandOf(c)
    /\ main \in {"handle", "sendreply"} =>
          \E c \in Clients : Waits(c) /\ str = expr[c]

(* The loop ends at the first quit. *)
LoopInv == /\ main \in {"wait", "asleep", "fetch", "handle"} => cont
           /\ main \in {"close", "shutdown", "closed"} => ~cont

ServerInv == TypeOK /\ CallInv /\ TurnInv /\ LoopInv
-----------------------------------------------------------------------------
(* Type correctness *)

\* Every step keeps the types: a command that is signalled is not empty.
LEMMA TypeStep == ServerInv /\ [Next]_vars => TypeOK'
<1> SUFFICES ASSUME TypeOK, CallInv, [Next]_vars PROVE TypeOK'
  BY DEF ServerInv
<1> USE ServerAssumption DEF TypeOK, Goto, clientVars, mainVars
<1>1. ASSUME NEW c \in Clients, NEW cmd \in Commands, Call(c, cmd) PROVE TypeOK'
  BY <1>1 DEF Call
<1>2. ASSUME NEW c \in Clients, LockClient(c) PROVE TypeOK'
  BY <1>2 DEF LockClient
<1>3. ASSUME NEW c \in Clients, SignalCommand(c) PROVE TypeOK'
  <2>1. expr[c] \in Commands
    BY <1>3 DEF SignalCommand, CallInv
  <2> QED BY <1>3, <2>1 DEF SignalCommand, WakeMain, Strings
<1>4. ASSUME NEW c \in Clients, TakeReply(c) PROVE TypeOK'
  BY <1>4 DEF TakeReply
<1>5. ASSUME NEW c \in Clients, SleepForReply(c) PROVE TypeOK'
  BY <1>5 DEF SleepForReply
<1>6. ASSUME NEW c \in Clients, UnlockClient(c) PROVE TypeOK'
  BY <1>6 DEF UnlockClient
<1>7. ASSUME NEW c \in Clients, SpuriousWakeup(c) PROVE TypeOK'
  BY <1>7 DEF SpuriousWakeup
<1>8. CASE TakeCommand
  BY <1>8 DEF TakeCommand
<1>9. CASE SleepForCommand
  BY <1>9 DEF SleepForCommand
<1>10. CASE FetchCommand
  BY <1>10 DEF FetchCommand, Strings, NoString
<1>11. CASE handleCommand
  BY <1>11 DEF handleCommand
<1>12. CASE sendreply
  BY <1>12 DEF sendreply, WakeClient
<1>13. CASE Close
  BY <1>13 DEF Close
<1>14. CASE ShutdownReturns
  BY <1>14 DEF ShutdownReturns
<1>15. CASE SpuriousWakeupMain
  BY <1>15 DEF SpuriousWakeupMain
<1>16. CASE UNCHANGED vars
  BY <1>16 DEF vars
<1> QED
  BY <1>1, <1>2, <1>3, <1>4, <1>5, <1>6, <1>7, <1>8, <1>9, <1>10, <1>11, <1>12,
     <1>13, <1>14, <1>15, <1>16 DEF Next, SendExpression, ServerLoop

(* The inductive invariant *)

\* The lock, the arguments and the results stay with the calls.
LEMMA CallStep == ServerInv /\ [Next]_vars => CallInv'
<1> SUFFICES ASSUME TypeOK, CallInv, TurnInv, [Next]_vars PROVE CallInv'
  BY DEF ServerInv
<1> USE ServerAssumption DEF TypeOK, CallInv, Holds, Goto, clientVars, mainVars
<1>1. ASSUME NEW c \in Clients, NEW cmd \in Commands, Call(c, cmd) PROVE CallInv'
  BY <1>1 DEF Call
<1>2. ASSUME NEW c \in Clients, LockClient(c) PROVE CallInv'
  BY <1>2 DEF LockClient
<1>3. ASSUME NEW c \in Clients, SignalCommand(c) PROVE CallInv'
  BY <1>3 DEF SignalCommand
<1>4. ASSUME NEW c \in Clients, TakeReply(c) PROVE CallInv'
  <2>1. omc_reply_message # None
    BY <1>4 DEF TakeReply, TurnInv, Waits
  <2> QED BY <1>4, <2>1 DEF TakeReply
<1>5. ASSUME NEW c \in Clients, SleepForReply(c) PROVE CallInv'
  BY <1>5 DEF SleepForReply
<1>6. ASSUME NEW c \in Clients, UnlockClient(c) PROVE CallInv'
  BY <1>6 DEF UnlockClient
<1>7. ASSUME NEW c \in Clients, SpuriousWakeup(c) PROVE CallInv'
  BY <1>7 DEF SpuriousWakeup
<1>8. CASE sendreply
  BY <1>8 DEF sendreply, WakeClient
<1>9. CASE UNCHANGED clientVars
  BY <1>9
<1> QED
  BY <1>1, <1>2, <1>3, <1>4, <1>5, <1>6, <1>7, <1>8, <1>9
  DEF Next, SendExpression, ServerLoop, TakeCommand, SleepForCommand, FetchCommand,
      handleCommand, Close, ShutdownReturns, SpuriousWakeupMain, vars

\* The turn is passed from the client to the compiler and back.
LEMMA TurnStep == ServerInv /\ [Next]_vars => TurnInv'
<1> SUFFICES ASSUME TypeOK, CallInv, TurnInv, [Next]_vars PROVE TurnInv'
  BY DEF ServerInv
<1> USE ServerAssumption
    DEF TypeOK, TurnInv, Waits, Working, CommandOf, Goto, clientVars, mainVars
<1>1. ASSUME NEW c \in Clients, NEW cmd \in Commands, Call(c, cmd) PROVE TurnInv'
  BY <1>1 DEF Call
<1>2. ASSUME NEW c \in Clients, LockClient(c) PROVE TurnInv'
  BY <1>2 DEF LockClient
<1>3. ASSUME NEW c \in Clients, SignalCommand(c) PROVE TurnInv'
  <2>1. \A d \in Clients : ~Waits(d)
    BY <1>3 DEF SignalCommand, CallInv, Holds
  <2>2. ~corba_waiting /\ ~Working
    BY <2>1
  <2> QED BY <1>3, <2>2 DEF SignalCommand, WakeMain
<1>4. ASSUME NEW c \in Clients, TakeReply(c) PROVE TurnInv'
  BY <1>4 DEF TakeReply
<1>5. ASSUME NEW c \in Clients, SleepForReply(c) PROVE TurnInv'
  BY <1>5 DEF SleepForReply
<1>6. ASSUME NEW c \in Clients, UnlockClient(c) PROVE TurnInv'
  <2>1. \A d \in Clients : ~Waits(d)
    BY <1>6 DEF UnlockClient, CallInv, Holds
  <2> QED BY <1>6, <2>1 DEF UnlockClient
<1>7. ASSUME NEW c \in Clients, SpuriousWakeup(c) PROVE TurnInv'
  BY <1>7 DEF SpuriousWakeup
<1>8. CASE TakeCommand
  BY <1>8 DEF TakeCommand
<1>9. CASE SleepForCommand
  BY <1>9 DEF SleepForCommand
<1>10. CASE FetchCommand
  BY <1>10 DEF FetchCommand
<1>11. CASE handleCommand
  BY <1>11 DEF handleCommand
<1>12. CASE sendreply
  BY <1>12 DEF sendreply, WakeClient
<1>13. CASE Close
  BY <1>13 DEF Close
<1>14. CASE ShutdownReturns
  BY <1>14 DEF ShutdownReturns
<1>15. CASE SpuriousWakeupMain
  BY <1>15 DEF SpuriousWakeupMain
<1>16. CASE UNCHANGED vars
  BY <1>16 DEF vars
<1> QED
  BY <1>1, <1>2, <1>3, <1>4, <1>5, <1>6, <1>7, <1>8, <1>9, <1>10, <1>11, <1>12,
     <1>13, <1>14, <1>15, <1>16 DEF Next, SendExpression, ServerLoop

\* The flag of the loop belongs to where the loop is.
LEMMA LoopStep == LoopInv /\ [Next]_vars => LoopInv'
<1> SUFFICES ASSUME LoopInv, [Next]_vars PROVE LoopInv'
  OBVIOUS
<1> USE DEF LoopInv, mainVars
<1>1. CASE UNCHANGED mainVars
  BY <1>1
<1>2. ASSUME NEW c \in Clients, SignalCommand(c) PROVE LoopInv'
  BY <1>2 DEF SignalCommand, WakeMain
<1>3. CASE ServerLoop \/ SpuriousWakeupMain
  BY <1>3 DEF ServerLoop, TakeCommand, SleepForCommand, FetchCommand, handleCommand,
              sendreply, Close, ShutdownReturns, SpuriousWakeupMain
<1> QED
  BY <1>1, <1>2, <1>3 DEF Next, SendExpression, Call, LockClient, TakeReply, SleepForReply,
                          UnlockClient, SpuriousWakeup, vars

(* The invariant holds at the start. *)
LEMMA InitInv == Init => ServerInv
BY ServerAssumption
   DEF Init, ServerInv, TypeOK, CallInv, TurnInv, LoopInv, Holds, Working, Strings

(* The invariant holds. *)
LEMMA Invariance == Spec => []ServerInv
<1>1. ServerInv /\ [Next]_vars => ServerInv'
  BY TypeStep, CallStep, TurnStep, LoopStep DEF ServerInv
<1> QED BY InitInv, <1>1, PTL DEF Spec
-----------------------------------------------------------------------------
(* The state keeps its types: in particular a command that is passed on is
   never the empty message. *)
THEOREM TypeCorrect == Spec => []TypeOK
<1>1. ServerInv => TypeOK
  BY DEF ServerInv
<1> QED BY Invariance, <1>1, PTL

(* The string that the compiler copies without a lock belongs to a call that is
   under way, until it has been copied. *)
THEOREM CommandLives == Spec => []CommandIsAlive
<1>1. ServerInv => CommandIsAlive
  BY DEF ServerInv, TurnInv, CommandIsAlive, Waits, CommandOf
<1> QED BY Invariance, <1>1, PTL

(* The server implements CommandService: commands are executed one at a time,
   each once, and each call returns the reply to its own command. *)
THEOREM Implements == Spec => ImplementsService
<1> USE ServerAssumption
<1>1. Init => Service!ServiceInit
  BY DEF Init, Service!ServiceInit, PendingReply
<1>2. ServerInv /\ [Next]_vars => [Service!ServiceNext]_(Service!serviceVars)
  <2> SUFFICES ASSUME TypeOK, CallInv, TurnInv, LoopInv, [Next]_vars
               PROVE  Service!ServiceNext \/ UNCHANGED Service!serviceVars
    BY DEF ServerInv
  <2> USE DEF TypeOK, Goto, clientVars, mainVars
  <2> DEFINE reply == [c \in Clients |-> PendingReply(c)]
  <2>s. ASSUME expr' = expr, cont' = cont,
               \A c \in Clients : PendingReply(c)' = PendingReply(c)
        PROVE  UNCHANGED Service!serviceVars
    BY <2>s DEF Service!serviceVars
  <2>1. ASSUME NEW c \in Clients, NEW cmd \in Commands, Call(c, cmd)
        PROVE  Service!CallCommand(c, cmd)
    <3>1. \A d \in Clients : PendingReply(d)' = PendingReply(d)
      BY <2>1 DEF Call, PendingReply
    <3> QED BY <2>1, <3>1 DEF Call, CallInv, Service!CallCommand
  <2>2. ASSUME NEW c \in Clients, LockClient(c) PROVE UNCHANGED Service!serviceVars
    BY <2>2, <2>s DEF LockClient, PendingReply
  <2>3. ASSUME NEW c \in Clients, SignalCommand(c) PROVE UNCHANGED Service!serviceVars
    <3>1. \A d \in Clients : ~Waits(d)
      BY <2>3 DEF SignalCommand, CallInv, Holds, Waits
    <3>2. ~corba_waiting /\ ~Working
      BY <3>1 DEF TurnInv, Working
    <3> QED BY <2>3, <2>s, <3>1, <3>2 DEF SignalCommand, WakeMain, PendingReply, Waits, Working
  <2>4. ASSUME NEW c \in Clients, TakeReply(c) PROVE UNCHANGED Service!serviceVars
    <3>1. main # "sendreply"
      BY <2>4 DEF TakeReply, TurnInv, Working
    <3>2. \A d \in Clients : d # c => ~Waits(d)
      BY <2>4 DEF TakeReply, CallInv, Holds, Waits
    <3> QED BY <2>4, <2>s, <3>1, <3>2 DEF TakeReply, PendingReply, Waits
  <2>5. ASSUME NEW c \in Clients, SleepForReply(c) PROVE UNCHANGED Service!serviceVars
    BY <2>5, <2>s DEF SleepForReply, PendingReply
  <2>6. ASSUME NEW c \in Clients, UnlockClient(c) PROVE Service!ReturnReply(c)
    <3>1. result[c] # None
      BY <2>6 DEF UnlockClient, CallInv
    <3>2. PendingReply(c) = result[c] /\ PendingReply(c)' = None
      BY <2>6 DEF UnlockClient, PendingReply
    <3>3. \A d \in Clients : d # c => PendingReply(d)' = PendingReply(d)
      BY <2>6 DEF UnlockClient, PendingReply
    <3> QED BY <2>6, <3>1, <3>2, <3>3 DEF UnlockClient, Service!ReturnReply
  <2>7. ASSUME NEW c \in Clients, SpuriousWakeup(c) PROVE UNCHANGED Service!serviceVars
    BY <2>7, <2>s DEF SpuriousWakeup, PendingReply
  <2>8. CASE TakeCommand
    BY <2>8, <2>s DEF TakeCommand, PendingReply
  <2>9. CASE SleepForCommand \/ SpuriousWakeupMain \/ FetchCommand \/ Close \/ ShutdownReturns
    BY <2>9, <2>s DEF SleepForCommand, SpuriousWakeupMain, FetchCommand, Close, ShutdownReturns,
                      PendingReply
  <2>10. CASE handleCommand
    <3>1. PICK c \in Clients : Waits(c) /\ str = expr[c]
      BY <2>10 DEF handleCommand, TurnInv
    <3>2. \A d \in Clients : d # c => ~Waits(d)
      BY <3>1 DEF CallInv, Holds, Waits
    <3>3. ~corba_waiting /\ cont
      BY <2>10 DEF handleCommand, TurnInv, Working, LoopInv
    <3>4. expr[c] # None /\ str = expr[c]
      BY <3>1 DEF CallInv, Waits
    <3>5. PendingReply(c) = None /\ PendingReply(c)' = expr[c]
      BY <2>10, <3>1, <3>3, <3>4 DEF handleCommand, PendingReply, Waits
    <3>6. \A d \in Clients : d # c => PendingReply(d)' = PendingReply(d)
      BY <2>10, <3>2 DEF handleCommand, PendingReply, Waits
    <3>7. Service!Execute(c)
      BY <2>10, <3>3, <3>4, <3>5, <3>6 DEF handleCommand, Service!Execute
    <3> QED BY <3>7 DEF Service!ServiceNext
  <2>11. CASE sendreply
    <3>1. \A c \in Clients : PendingReply(c)' = PendingReply(c)
      BY <2>11 DEF sendreply, WakeClient, PendingReply
    <3> QED BY <2>11, <2>s, <3>1 DEF sendreply
  <2>12. CASE UNCHANGED vars
    BY <2>12, <2>s DEF vars, PendingReply
  <2> QED
    BY <2>1, <2>2, <2>3, <2>4, <2>5, <2>6, <2>7, <2>8, <2>9, <2>10, <2>11, <2>12
    DEF Next, SendExpression, ServerLoop, Service!ServiceNext
<1> QED
  BY <1>1, <1>2, Invariance, PTL DEF Spec, ImplementsService, Service!ServiceSpec
=============================================================================
