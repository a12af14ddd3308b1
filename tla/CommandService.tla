--------------------------- MODULE CommandService ---------------------------
(***************************************************************************)
(* What the interactive compiler promises its clients: commands are        *)
(* executed one at a time, each once, and a call returns the reply to the  *)
(* command it passed, and returns only when that command was executed.     *)
(* After the command quit nothing is executed.                             *)
(***************************************************************************)
CONSTANTS Clients, Commands, Quit, None

VARIABLES
    called,                      \* called[c]: the command c waits for, or None
    reply,                       \* reply[c]: the reply that waits for c, or None
    over                         \* quit was executed

serviceVars == <<called, reply, over>>

ServiceInit == /\ called = [c \in Clients |-> None]
               /\ reply = [c \in Clients |-> None]
               /\ over = FALSE

CallCommand(c, cmd) == /\ called[c] = None
                       /\ called' = [called EXCEPT ![c] = cmd]
                       /\ UNCHANGED <<reply, over>>

Execute(c) == /\ called[c] # None /\ reply[c] = None /\ ~over
              /\ reply' = [reply EXCEPT ![c] = called[c]]
              /\ over' = (called[c] = Quit)
              /\ UNCHANGED called

ReturnReply(c) == /\ reply[c] # None
                  /\ called' = [called EXCEPT ![c] = None]
                  /\ reply' = [reply EXCEPT ![c] = None]
                  /\ UNCHANGED over

ServiceNext == \E c \in Clients : \/ \E cmd \in Commands : CallCommand(c, cmd)
                                  \/ Execute(c)
                                  \/ ReturnReply(c)

ServiceSpec == ServiceInit /\ [][ServiceNext]_serviceVars
=============================================================================
