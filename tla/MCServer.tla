------------------------------- MODULE MCServer -------------------------------
(***************************************************************************)
(* A small instance of Server.  A tick is 5 s.                             *)
(***************************************************************************)
EXTENDS Server

\* SERVER_READ_TIMEOUT, SERVER_WRITE_TIMEOUT and SERVER_SHUTDOWN_TIMEOUT.
Set(read, write, shutdown) == [read |-> read, write |-> write, shutdown |-> shutdown]

\* 5 s, 10 s and 15 s.
Defaults == Set(1, 2, 3)

\* The defaults, no deadlines, a drain shorter than a response may take, and a
\* response that has less time than the ping of /health.
SomeTimeouts == {Defaults, Set(0, 0, 0), Set(2, 3, 1), Set(0, 1, 2)}
=============================================================================
