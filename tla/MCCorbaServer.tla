---------------------------- MODULE MCCorbaServer ----------------------------
(***************************************************************************)
(* Three clients that send two commands and quit().                        *)
(***************************************************************************)
EXTENDS CorbaServer

CONSTANTS a, b, d, eval, load, quit

MCClients == {a, b, d}
MCCommands == {eval, load, quit}
=============================================================================
