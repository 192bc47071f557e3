------------------------ MODULE ScgiServerRefinement ------------------------
(***************************************************************************)
(* The accept-fork server implements RequestService: the line of waiting   *)
(* customers is the kernel's queue, and the customer being served is the   *)
(* one whose accepted connection some process still holds.                 *)
(***************************************************************************)
EXTENDS ScgiServer

\* The accepted connections that are still open on the server's side.
InService == {c \in Clients : client[c] = "accepted" /\ Held(c)}

ServedClient ==
  IF InService = {} THEN NoConn ELSE CHOOSE c \in InService : TRUE

ClientOutcome ==
  [c \in Clients |->
     CASE client[c] = "idle" -> "none"
       [] client[c] = "queued" \/ c \in InService -> "pending"
       [] OTHER -> IF answered[c] THEN "done" ELSE "dropped"]

Service ==
  INSTANCE RequestService WITH
    Customers <- Clients, Nobody <- NoConn, MayDrop <- "fork" \in Faults,
    waiting <- queue, serving <- ServedClient, outcome <- ClientOutcome

\* The server takes connections in order and one at a time, and only a
\* failing fork() may end one without an answer: the loop of scgi_server.c,
\* 103 to 139, under any failure but that of execle().
ImplementsSafeService == Service!SafeServiceSpec

\* When no system call fails, the loop moreover takes every waiting
\* connection and answers every one it took (scgi_server.c, 103 to 139).
ImplementsService == Service!ServiceSpec
=============================================================================
