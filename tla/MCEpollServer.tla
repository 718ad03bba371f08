---------------------------- MODULE MCEpollServer ----------------------------
(* EpollServer for TLC: three connections for two uids with one request, and *)
(* two requests on one connection; each with a queue for every handler and *)
(* an overload limit below the capacity, and with one shared queue that is   *)
(* full soon.  The endpoint has an idle time; with the two requests also     *)
(* none.                                                                     *)
EXTENDS EpollServer

Option(mode, cap, over, idle, c, r) ==
    [queueMode |-> mode, capacity |-> cap, overloadAt |-> over, timeout |-> idle,
     conns |-> c, requests |-> r]

ServerOptions ==
    {Option(TRUE, 2, 0, 1, 3, 1), Option(FALSE, 1, 0, 1, 3, 1)}
      \cup {Option(TRUE, 2, 0, t, 1, 2) : t \in {0, 1}}
      \cup {Option(FALSE, 1, 0, t, 1, 2) : t \in {0, 1}}
=============================================================================
