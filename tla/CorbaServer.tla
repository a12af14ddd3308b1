----------------------------- MODULE CorbaServer -----------------------------
(***************************************************************************)
(* The CORBA command loop of the interactive compiler: the threads of the  *)
(* ORB call sendExpression, each for a client, and hand the command to the *)
(* compiler's main thread and its reply back through two global pointers,  *)
(* two flags and two condition variables.                                  *)
(*                                                                         *)
(* omc_waitlock and corba_waitlock are held in one critical section at a   *)
(* time and not across a blocking call, so each section is one step.       *)
(* omc_corba_lock is taken by the main thread alone and excludes nobody.   *)
(* The ORB is external: it runs any number of calls at a time, and its     *)
(* shutdown(true) refuses new calls and waits for those under way.         *)
(* omc_cmd_message points to a string in the request of a call, which is   *)
(* gone when the call returns; it is modelled by whose string it is and    *)
(* what it says.  The compiler handles a copy of its own.                  *)
(***************************************************************************)
EXTENDS Naturals

CONSTANTS Clients,               \* threads of the ORB that call sendExpression
          Commands,              \* the commands they send
          Quit,                  \* the command quit()
          None                   \* no command

ASSUME ServerAssumption == Quit \in Commands /\ None \notin Commands \cup Clients

NoString == [client |-> None, text |-> None]         \* the empty initial message

VARIABLES
    pc,                          \* pc[c]: where client c's call of sendExpression is
    expr,                        \* expr[c]: its argument
    result,                      \* result[c]: its result
    omc_corba_clientlock,        \* the client that owns the mutex, or None
    omc_waiting,                 \* a command waits for the compiler
    omc_cmd_message,             \* the command
    corba_waiting,               \* a reply waits for the client
    omc_reply_message,           \* the reply, named by the command it answers
    main,                        \* where the main thread is
    str,                         \* serverLoopCorba: the command it handles, a copy
    cont                         \* serverLoopCorba: no quit yet

clientVars == <<pc, expr, result, omc_corba_clientlock>>
mainVars == <<main, str, cont>>
vars == <<clientVars, omc_waiting, omc_cmd_message, corba_waiting, omc_reply_message, mainVars>>

Init == /\ pc = [c \in Clients |-> "idle"]
        /\ expr = [c \in Clients |-> None]
        /\ result = [c \in Clients |-> None]
        /\ omc_corba_clientlock = None
        /\ omc_waiting = FALSE /\ omc_cmd_message = NoString
        /\ corba_waiting = FALSE /\ omc_reply_message = None
        /\ main = "wait" /\ str = None /\ cont = TRUE

Goto(c, l) == pc' = [pc EXCEPT ![c] = l]
(* pthread_cond_signal wakes a thread that sleeps. *)
WakeClient == pc' = [c \in Clients |-> IF pc[c] = "asleep" THEN "awaitReply" ELSE pc[c]]
(* Mutant: the compiler is not signalled. *)
WakeMainForgotten == main' = main
WakeMain == main' = IF main = "asleep" THEN "wait" ELSE main
-----------------------------------------------------------------------------
(* sendExpression *)

Call(c, cmd) == /\ pc[c] = "idle" /\ main \notin {"shutdown", "closed"}
                /\ Goto(c, "lock")
                /\ expr' = [expr EXCEPT ![c] = cmd]
                /\ UNCHANGED <<result, omc_corba_clientlock, omc_waiting, omc_cmd_message,
                               corba_waiting, omc_reply_message, mainVars>>

(* Mutant: as sendClass does, no client lock. *)
LockClientNot(c) == /\ pc[c] = "lock"
                    /\ omc_corba_clientlock' = c
                    /\ Goto(c, "signal")
                    /\ UNCHANGED <<expr, result, omc_waiting, omc_cmd_message, corba_waiting,
                                   omc_reply_message, mainVars>>

LockClient(c) == /\ pc[c] = "lock" /\ omc_corba_clientlock = None
                 /\ omc_corba_clientlock' = c
                 /\ Goto(c, "signal")
                 /\ UNCHANGED <<expr, result, omc_waiting, omc_cmd_message, corba_waiting,
                                omc_reply_message, mainVars>>

SignalCommand(c) ==
    /\ pc[c] = "signal"
    /\ omc_waiting' = TRUE
    /\ omc_cmd_message' = [client |-> c, text |-> expr[c]]
    /\ WakeMain
    /\ Goto(c, "awaitReply")
    /\ UNCHANGED <<expr, result, omc_corba_clientlock, corba_waiting, omc_reply_message, str, cont>>

(* Mutant: the flag is not reset. *)
TakeReplyKeeping(c) ==
    /\ pc[c] = "awaitReply" /\ corba_waiting
    /\ result' = [result EXCEPT ![c] = omc_reply_message]
    /\ Goto(c, "unlock")
    /\ UNCHANGED <<expr, omc_corba_clientlock, omc_waiting, omc_cmd_message, corba_waiting,
                   omc_reply_message, mainVars>>

(* Mutant: the message is duplicated instead of the reply. *)
TakeReplyMessage(c) ==
    /\ pc[c] = "awaitReply" /\ corba_waiting
    /\ corba_waiting' = FALSE
    /\ result' = [result EXCEPT ![c] = omc_cmd_message]
    /\ Goto(c, "unlock")
    /\ UNCHANGED <<expr, omc_corba_clientlock, omc_waiting, omc_cmd_message, omc_reply_message,
                   mainVars>>

TakeReply(c) ==
    /\ pc[c] = "awaitReply" /\ corba_waiting
    /\ corba_waiting' = FALSE
    /\ result' = [result EXCEPT ![c] = omc_reply_message]
    /\ Goto(c, "unlock")
    /\ UNCHANGED <<expr, omc_corba_clientlock, omc_waiting, omc_cmd_message, omc_reply_message,
                   mainVars>>

SleepForReply(c) ==
    /\ pc[c] = "awaitReply" /\ ~corba_waiting
    /\ Goto(c, "asleep")
    /\ UNCHANGED <<expr, result, omc_corba_clientlock, omc_waiting, omc_cmd_message,
                   corba_waiting, omc_reply_message, mainVars>>

SpuriousWakeup(c) ==
    /\ pc[c] = "asleep"
    /\ Goto(c, "awaitReply")
    /\ UNCHANGED <<expr, result, omc_corba_clientlock, omc_waiting, omc_cmd_message,
                   corba_waiting, omc_reply_message, mainVars>>

UnlockClient(c) ==
    /\ pc[c] = "unlock"
    /\ omc_corba_clientlock' = None
    /\ Goto(c, "idle")
    /\ expr' = [expr EXCEPT ![c] = None]
    /\ result' = [result EXCEPT ![c] = None]
    /\ UNCHANGED <<omc_waiting, omc_cmd_message, corba_waiting, omc_reply_message, mainVars>>

SendExpression(c) == \/ LockClient(c) \/ SignalCommand(c) \/ TakeReply(c)
                     \/ SleepForReply(c) \/ UnlockClient(c)
-----------------------------------------------------------------------------
(* The main thread: serverLoopCorba *)

TakeCommand == /\ main = "wait" /\ omc_waiting
               /\ omc_waiting' = FALSE
               /\ main' = "fetch"
               /\ UNCHANGED <<clientVars, omc_cmd_message, corba_waiting, omc_reply_message,
                              str, cont>>

SleepForCommand == /\ main = "wait" /\ ~omc_waiting
                   /\ main' = "asleep"
                   /\ UNCHANGED <<clientVars, omc_waiting, omc_cmd_message, corba_waiting,
                                  omc_reply_message, str, cont>>

SpuriousWakeupMain == /\ main = "asleep"
                      /\ main' = "wait"
                      /\ UNCHANGED <<clientVars, omc_waiting, omc_cmd_message, corba_waiting,
                                     omc_reply_message, str, cont>>

(* waitForCommand reads the pointer after it has left omc_waitlock, and the
   string is copied with no lock that a call takes. *)
FetchCommand == /\ main = "fetch"
                /\ str' = omc_cmd_message.text
                /\ main' = "handle"
                /\ UNCHANGED <<clientVars, omc_waiting, omc_cmd_message, corba_waiting,
                               omc_reply_message, cont>>

handleCommand == /\ main = "handle"
                 /\ cont' = (str # Quit)
                 /\ main' = "sendreply"
                 /\ UNCHANGED <<clientVars, omc_waiting, omc_cmd_message, corba_waiting,
                                omc_reply_message, str>>

sendreply == /\ main = "sendreply"
             /\ corba_waiting' = TRUE
             /\ omc_reply_message' = str
             /\ WakeClient
             /\ main' = IF cont THEN "wait" ELSE "close"
             /\ UNCHANGED <<expr, result, omc_corba_clientlock, omc_waiting, omc_cmd_message,
                            str, cont>>

Close == /\ main = "close"
         /\ main' = "shutdown"
         /\ UNCHANGED <<clientVars, omc_waiting, omc_cmd_message, corba_waiting,
                        omc_reply_message, str, cont>>

ShutdownReturns == /\ main = "shutdown" /\ \A c \in Clients : pc[c] = "idle"
                   /\ main' = "closed"
                   /\ UNCHANGED <<clientVars, omc_waiting, omc_cmd_message, corba_waiting,
                                  omc_reply_message, str, cont>>

ServerLoop == \/ TakeCommand \/ SleepForCommand \/ FetchCommand \/ handleCommand
              \/ sendreply \/ Close \/ ShutdownReturns

Next == \/ \E c \in Clients : \/ \E cmd \in Commands : Call(c, cmd)
                              \/ SendExpression(c)
                              \/ SpuriousWakeup(c)
        \/ ServerLoop
        \/ SpuriousWakeupMain

(* Threads run; the mutex prefers nobody, and no wakeup is promised. *)
Fairness == /\ WF_vars(ServerLoop)
            /\ \A c \in Clients : WF_vars(SendExpression(c))
Spec == Init /\ [][Next]_vars /\ Fairness
-----------------------------------------------------------------------------
(* Properties *)

Strings == [client : Clients, text : Commands] \cup {NoString}

(* Type correctness. *)
TypeOK ==
    /\ pc \in [Clients -> {"idle", "lock", "signal", "awaitReply", "asleep", "unlock"}]
    /\ expr \in [Clients -> Commands \cup {None}]
    /\ result \in [Clients -> Commands \cup {None}]
    /\ omc_corba_clientlock \in Clients \cup {None}
    /\ omc_waiting \in BOOLEAN /\ corba_waiting \in BOOLEAN
    /\ omc_cmd_message \in Strings
    /\ omc_reply_message \in Commands \cup {None}
    /\ main \in {"wait", "asleep", "fetch", "handle", "sendreply", "close", "shutdown", "closed"}
    /\ str \in Commands \cup {None}
    /\ cont \in BOOLEAN

(* From when it has left omc_waitlock until it has copied the command, the
   compiler reads a string of a client's request without a lock: that call is
   still under way, so the string exists and is the one that was announced. *)
CommandIsAlive ==
    main = "fetch" => \E c \in Clients : /\ pc[c] \in {"awaitReply", "asleep"}
                                          /\ omc_cmd_message = [client |-> c, text |-> expr[c]]

(* The reply that waits for c: computed, stored or taken. *)
PendingReply(c) ==
    IF pc[c] = "unlock" THEN result[c]
    ELSE IF pc[c] \notin {"awaitReply", "asleep"} THEN None
    ELSE IF main = "sendreply" THEN str
    ELSE IF corba_waiting THEN omc_reply_message ELSE None

(* Commands are executed one at a time, each once, and every client gets the
   reply to its own. *)
Service == INSTANCE CommandService
               WITH called <- expr, reply <- [c \in Clients |-> PendingReply(c)], over <- ~cont
ImplementsService == Service!ServiceSpec

(* No wakeup is lost: a client that has got the lock before a quit gets its
   reply. *)
RepliesCome ==
    \A c \in Clients : (pc[c] = "signal" /\ cont) ~> pc[c] = "idle"
=============================================================================
