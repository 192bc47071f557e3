----------------------------- MODULE ScgiServer -----------------------------
(***************************************************************************)
(* The accept-fork SCGI server: main() of accept-fork/scgi_server.c, as    *)
(* the processes fork() makes of it, the descriptors each of them holds    *)
(* and the connections its clients open.                                   *)
(*                                                                         *)
(* One action is one system call of one process.  Every process has its    *)
(* own copy of the C variables pid and connection_fd and its own           *)
(* descriptor table; fork copies all of them.  The kernel's part (the      *)
(* backlog, waitpid's matching, closing the descriptors of a process that  *)
(* exits), /bin/cat and the clients are external and modelled from how     *)
(* main() uses them.                                                       *)
(***************************************************************************)
EXTENDS Integers, Sequences, FiniteSets

CONSTANTS
  Pids,       \* process ids the kernel may hand out
  Launcher,   \* the process started from the command line
  Clients,    \* client end points, each opens one connection at a time
  NoConn,     \* connection_fd = -1
  Console,    \* descriptors 0 and 1 as the launcher inherited them
  Backlog,    \* connections the kernel keeps for listen(fd, 0)
  Faults      \* the system calls that may fail

FaultKinds == {"bind", "listen", "accept", "fork", "exec"}

ASSUME PidsAssumption == Pids \subseteq Nat \ {0} /\ Launcher \in Pids
ASSUME ConnAssumption ==
  NoConn \notin Clients /\ Console \notin Clients /\ NoConn # Console
ASSUME BacklogAssumption == Backlog \in Nat \ {0}
ASSUME FaultsAssumption == Faults \subseteq FaultKinds

VARIABLES
  pc,              \* pc[p]: where process p is, "none" if there is no p
  parent,          \* parent[p]: who forked p, 0 for the launcher
  pid,             \* pid[p]: p's C variable pid
  connection_fd,   \* connection_fd[p]: the connection of p's C variable
  opened,          \* opened[p]: connections p has open above descriptor 1
  stdin,           \* stdin[p], stdout[p]: what p's descriptors 0 and 1 are
  stdout,
  foreground_flag, \* the options main() reads
  socket_flag,
  listener,        \* the state of socket_fd
  queue,           \* connections the kernel has completed, oldest first
  client,          \* client[c]: "idle", "queued" or "accepted"
  eof,             \* eof[c]: c has sent its request and closed its half
  answered         \* answered[c]: c's request was answered in full

procVars   == <<pc, parent, pid>>
fdVars     == <<connection_fd, opened, stdin, stdout>>
optionVars == <<foreground_flag, socket_flag>>
netVars    == <<queue, client, eof, answered>>
vars       == <<procVars, fdVars, optionVars, listener, netVars>>

-----------------------------------------------------------------------------
\* The program points of main() by the process that executes them.
StartupPC == {"main", "bind", "listen"}
LoopPC    == {"accept", "fork", "close", "wait"}
ServerPC  == StartupPC \cup LoopPC
ChildPC   == {"dup_stdin", "dup_stdout", "exec", "cat"}
ExitPC    == {"exit0", "exit1"}          \* terminated, not yet reaped
PC        == {"none", "init_child"} \cup ServerPC \cup ChildPC \cup ExitPC

Exited(p)   == pc[p] \in ExitPC
Children(p) == {q \in Pids : pc[q] # "none" /\ parent[q] = p}

\* Process p refers to the connection of client c through some descriptor.
Refers(p, c) == c \in opened[p] \/ stdin[p] = c \/ stdout[p] = c

\* Some process still refers to c's connection: the kernel keeps it open.
Held(c) == \E p \in Pids : Refers(p, c)

Goto(p, l) == pc' = [pc EXCEPT ![p] = l]

\* fork() in p: q is a copy of p that resumes at childAt, with pid = 0.
ForkInto(p, q, parentAt, childAt) ==
  /\ pc[q] = "none"
  /\ pc'     = [pc EXCEPT ![p] = parentAt, ![q] = childAt]
  /\ parent' = [parent EXCEPT ![q] = p]
  /\ pid'    = [pid EXCEPT ![p] = q, ![q] = 0]
  /\ connection_fd' = [connection_fd EXCEPT ![q] = connection_fd[p]]
  /\ opened' = [opened EXCEPT ![q] = opened[p]]
  /\ stdin'  = [stdin EXCEPT ![q] = stdin[p]]
  /\ stdout' = [stdout EXCEPT ![q] = stdout[p]]

\* fork() in p returns -1: by a fault, or since no process id is left.
ForkFails(p, parentAt) ==
  /\ "fork" \in Faults \/ \A q \in Pids : pc[q] # "none"
  /\ Goto(p, parentAt)
  /\ pid' = [pid EXCEPT ![p] = -1]
  /\ UNCHANGED <<parent, fdVars>>

\* p terminates: the kernel closes every descriptor it holds.
Exit(p, status) ==
  /\ Goto(p, status)
  /\ connection_fd' = [connection_fd EXCEPT ![p] = NoConn]
  /\ opened' = [opened EXCEPT ![p] = {}]
  /\ stdin'  = [stdin EXCEPT ![p] = Console]
  /\ stdout' = [stdout EXCEPT ![p] = Console]
  /\ UNCHANGED <<parent, pid>>

-----------------------------------------------------------------------------
(***************************************************************************)
(* Start-up: lines 62 to 101 of main().                                    *)
(***************************************************************************)

\* The command line asks for the foreground or not, for --port or --socket.
Init ==
  /\ pc = [p \in Pids |-> IF p = Launcher THEN "main" ELSE "none"]
  /\ parent = [p \in Pids |-> 0]
  /\ pid = [p \in Pids |-> 0]
  /\ connection_fd = [p \in Pids |-> NoConn]
  /\ opened = [p \in Pids |-> {}]
  /\ stdin = [p \in Pids |-> Console]
  /\ stdout = [p \in Pids |-> Console]
  /\ foreground_flag \in BOOLEAN
  /\ socket_flag \in BOOLEAN
  /\ listener = "unbound"
  /\ queue = <<>>
  /\ client = [c \in Clients |-> "idle"]
  /\ eof = [c \in Clients |-> FALSE]
  /\ answered = [c \in Clients |-> FALSE]

\* Without --foreground main() forks, and it is the fork's parent that goes
\* on: pid # 0 holds in the parent, also when fork failed.
Daemonize(p) ==
  /\ pc[p] = "main"
  /\ \/ /\ foreground_flag
        /\ Goto(p, "bind")
        /\ UNCHANGED <<parent, pid, fdVars>>
     \/ /\ ~foreground_flag
        /\ \/ \E q \in Pids : ForkInto(p, q, "bind", "init_child")
           \/ ForkFails(p, "bind")
  /\ UNCHANGED <<optionVars, listener, netVars>>

\* Mutant: the child of the start-up fork is not stopped.
InitChildRuns(p) ==
  /\ pc[p] = "init_child"
  /\ Goto(p, "bind")
  /\ UNCHANGED <<parent, pid, fdVars, optionVars, listener, netVars>>

\* The child of that fork calls exit(1).
InitChildExit(p) ==
  /\ pc[p] = "init_child"
  /\ Exit(p, "exit1")
  /\ UNCHANGED <<optionVars, listener, netVars>>

\* --socket is not implemented: main() exits.
SocketUnsupported(p) ==
  /\ pc[p] = "bind"
  /\ socket_flag
  /\ Exit(p, "exit1")
  /\ UNCHANGED <<optionVars, listener, netVars>>

\* bind_p: a failure is reported on stderr and then ignored.
Bind(p) ==
  /\ pc[p] = "bind"
  /\ ~socket_flag
  /\ \/ listener' = "bound"
     \/ "bind" \in Faults /\ UNCHANGED listener
  /\ Goto(p, "listen")
  /\ UNCHANGED <<parent, pid, fdVars, optionVars, netVars>>

\* listen_p: as bind_p.  The kernel gives an unbound socket a port of its
\* own choice when it starts to listen.
Listen(p) ==
  /\ pc[p] = "listen"
  /\ \/ listener' = IF listener = "bound" THEN "listening" ELSE "elsewhere"
     \/ "listen" \in Faults /\ UNCHANGED listener
  /\ Goto(p, "accept")
  /\ UNCHANGED <<parent, pid, fdVars, optionVars, netVars>>

-----------------------------------------------------------------------------
(***************************************************************************)
(* The accept loop: lines 103 to 139 of main().                            *)
(***************************************************************************)

\* accept() returns the oldest completed connection.
AcceptConnection(p) ==
  /\ pc[p] = "accept"
  /\ queue # <<>>
  /\ queue' = Tail(queue)
  /\ client' = [client EXCEPT ![Head(queue)] = "accepted"]
  /\ connection_fd' = [connection_fd EXCEPT ![p] = Head(queue)]
  /\ opened' = [opened EXCEPT ![p] = @ \cup {Head(queue)}]
  /\ Goto(p, "fork")
  /\ UNCHANGED <<parent, pid, stdin, stdout, optionVars, listener, eof,
                 answered>>

\* accept() returns -1, which main() does not test.  On a socket that does
\* not listen it always does.
AcceptFails(p) ==
  /\ pc[p] = "accept"
  /\ "accept" \in Faults \/ listener \in {"unbound", "bound"}
  /\ connection_fd' = [connection_fd EXCEPT ![p] = NoConn]
  /\ Goto(p, "fork")
  /\ UNCHANGED <<parent, pid, opened, stdin, stdout, optionVars, listener,
                 netVars>>

\* The parent takes the else branch also when fork returned -1.
Fork(p) ==
  /\ pc[p] = "fork"
  /\ \/ \E q \in Pids : ForkInto(p, q, "close", "dup_stdin")
     \/ ForkFails(p, "close")
  /\ UNCHANGED <<optionVars, listener, netVars>>

\* Mutant: close(n) and dup(fd), which leaves n closed if dup fails.
CloseThenDup(fd, old) == fd

\* dup2(-1, n) fails and leaves descriptor n as it was.
Dup2Result(fd, old) == IF fd = NoConn THEN old ELSE fd

DupStdin(p) ==
  /\ pc[p] = "dup_stdin"
  /\ stdin' = [stdin EXCEPT ![p] = Dup2Result(connection_fd[p], @)]
  /\ Goto(p, "dup_stdout")
  /\ UNCHANGED <<parent, pid, connection_fd, opened, stdout, optionVars,
                 listener, netVars>>

\* Mutant: the second dup2 call is missing.
NoDupStdout(p) ==
  /\ pc[p] = "dup_stdout"
  /\ Goto(p, "exec")
  /\ UNCHANGED <<parent, pid, fdVars, optionVars, listener, netVars>>

DupStdout(p) ==
  /\ pc[p] = "dup_stdout"
  /\ stdout' = [stdout EXCEPT ![p] = Dup2Result(connection_fd[p], @)]
  /\ Goto(p, "exec")
  /\ UNCHANGED <<parent, pid, connection_fd, opened, stdin, optionVars,
                 listener, netVars>>

\* execle() succeeds, with every descriptor still open.
Exec(p) ==
  /\ pc[p] = "exec"
  /\ Goto(p, "cat")
  /\ UNCHANGED <<parent, pid, fdVars, optionVars, listener, netVars>>

\* execle() returns (its envp is an uninitialised array, so that it may
\* return EFAULT on any call): the child falls out of the if statement and
\* the do loop takes it to accept().
ExecFails(p) ==
  /\ pc[p] = "exec"
  /\ "exec" \in Faults
  /\ Goto(p, "accept")
  /\ UNCHANGED <<parent, pid, fdVars, optionVars, listener, netVars>>

\* Mutant: the parent does not close its copy of the connection.
CloseForgotten(p) ==
  /\ pc[p] = "close"
  /\ Goto(p, "wait")
  /\ UNCHANGED <<parent, pid, fdVars, optionVars, listener, netVars>>

\* close(connection_fd) in the parent; close(-1) does nothing.
Close(p) ==
  /\ pc[p] = "close"
  /\ opened' = [opened EXCEPT ![p] = @ \ {connection_fd[p]}]
  /\ Goto(p, "wait")
  /\ UNCHANGED <<parent, pid, connection_fd, stdin, stdout, optionVars,
                 listener, netVars>>

\* Mutant: waitpid(-1, ...), which takes the child of the start-up fork too.
WaitForAny(p) ==
  /\ pc[p] = "wait"
  /\ \/ \E q \in Children(p) :
          /\ Exited(q)
          /\ pc' = [pc EXCEPT ![p] = "accept", ![q] = "none"]
          /\ parent' = [parent EXCEPT ![q] = 0]
          /\ pid' = [pid EXCEPT ![q] = 0]
     \/ /\ Children(p) = {}
        /\ Goto(p, "accept")
        /\ UNCHANGED <<parent, pid>>
  /\ UNCHANGED <<fdVars, optionVars, listener, netVars>>

\* Mutant: waitpid(pid, ..., WNOHANG) does not wait.
WaitNoHang(p) ==
  /\ pc[p] = "wait"
  /\ Goto(p, "accept")
  /\ UNCHANGED <<parent, pid, fdVars, optionVars, listener, netVars>>

\* Mutant: no loop around the body of the server.
WaitAndReturn(p) ==
  /\ pc[p] = "wait"
  /\ Exit(p, "exit0")
  /\ UNCHANGED <<optionVars, listener, netVars>>

\* waitpid(pid, ...) returns: it reaps the child pid names, or any child if
\* fork returned -1, and fails at once if there is no child to wait for.
Wait(p) ==
  /\ pc[p] = "wait"
  /\ \/ \E q \in Children(p) :
          /\ Exited(q)
          /\ pid[p] \in {q, -1}
          /\ pc' = [pc EXCEPT ![p] = "accept", ![q] = "none"]
          /\ parent' = [parent EXCEPT ![q] = 0]
          /\ pid' = [pid EXCEPT ![q] = 0]
     \/ /\ \A q \in Children(p) : pid[p] \notin {q, -1}
        /\ Goto(p, "accept")
        /\ UNCHANGED <<parent, pid>>
  /\ UNCHANGED <<fdVars, optionVars, listener, netVars>>

-----------------------------------------------------------------------------
(***************************************************************************)
(* The environment: /bin/cat, the kernel's backlog and the clients.        *)
(***************************************************************************)

\* cat has copied its input up to the end of file to its output and exits.
CatConnection(p) ==
  /\ pc[p] = "cat"
  /\ stdin[p] \in Clients
  /\ eof[stdin[p]]
  /\ answered' = [answered EXCEPT ![stdin[p]] = @ \/ stdout[p] = stdin[p]]
  /\ Exit(p, "exit0")
  /\ UNCHANGED <<optionVars, listener, queue, client, eof>>

\* cat reads the terminal of the server until the operator closes it.
CatConsole(p) ==
  /\ pc[p] = "cat"
  /\ stdin[p] = Console
  /\ Exit(p, "exit0")
  /\ UNCHANGED <<optionVars, listener, netVars>>

\* c connects to the configured port; a full backlog makes it try again.
Connect(c) ==
  /\ client[c] = "idle"
  /\ listener = "listening"
  /\ Len(queue) < Backlog
  /\ queue' = Append(queue, c)
  /\ client' = [client EXCEPT ![c] = "queued"]
  /\ UNCHANGED <<procVars, fdVars, optionVars, listener, eof, answered>>

\* c has sent its request and shuts its sending side down.
Shut(c) ==
  /\ client[c] # "idle"
  /\ ~eof[c]
  /\ eof' = [eof EXCEPT ![c] = TRUE]
  /\ UNCHANGED <<procVars, fdVars, optionVars, listener, queue, client,
                 answered>>

\* c reads the end of file of a connection no process holds, and may come
\* back with another request.
Leave(c) ==
  /\ client[c] = "accepted"
  /\ ~Held(c)
  /\ client' = [client EXCEPT ![c] = "idle"]
  /\ eof' = [eof EXCEPT ![c] = FALSE]
  /\ answered' = [answered EXCEPT ![c] = FALSE]
  /\ UNCHANGED <<procVars, fdVars, optionVars, listener, queue>>

-----------------------------------------------------------------------------
Startup(p) ==
  Daemonize(p) \/ InitChildExit(p) \/ SocketUnsupported(p) \/ Bind(p)
    \/ Listen(p)

ServerStep(p) ==
  AcceptConnection(p) \/ AcceptFails(p) \/ Fork(p) \/ Close(p) \/ Wait(p)

ChildStep(p) ==
  DupStdin(p) \/ DupStdout(p) \/ Exec(p) \/ ExecFails(p)

Next ==
  \/ \E p \in Pids : Startup(p) \/ ServerStep(p) \/ ChildStep(p)
  \/ \E p \in Pids : CatConnection(p) \/ CatConsole(p)
  \/ \E c \in Clients : Connect(c) \/ Shut(c) \/ Leave(c)

Spec == Init /\ [][Next]_vars

\* The scheduler runs every process that can run; cat ends after the end of
\* file; a client that connected finishes sending and reads the end of file.
\* Nothing makes a client connect, or the operator close the terminal.
Fairness ==
  /\ \A p \in Pids : WF_vars(Startup(p) \/ ServerStep(p) \/ ChildStep(p))
  /\ \A p \in Pids : WF_vars(CatConnection(p))
  /\ \A c \in Clients : WF_vars(Shut(c)) /\ WF_vars(Leave(c))

FairSpec == Spec /\ Fairness

-----------------------------------------------------------------------------
\* The type of every variable of the model of main().
TypeOK ==
  /\ pc \in [Pids -> PC]
  /\ parent \in [Pids -> Pids \cup {0}]
  /\ pid \in [Pids -> Pids \cup {0, -1}]
  /\ connection_fd \in [Pids -> Clients \cup {NoConn}]
  /\ opened \in [Pids -> SUBSET Clients]
  /\ stdin \in [Pids -> Clients \cup {Console}]
  /\ stdout \in [Pids -> Clients \cup {Console}]
  /\ foreground_flag \in BOOLEAN
  /\ socket_flag \in BOOLEAN
  /\ listener \in {"unbound", "bound", "listening", "elsewhere"}
  /\ queue \in Seq(Clients)
  /\ client \in [Clients -> {"idle", "queued", "accepted"}]
  /\ eof \in [Clients -> BOOLEAN]
  /\ answered \in [Clients -> BOOLEAN]

\* The process that runs the accept loop of main() is the one main() started
\* with.  It is a part of ServerInv, and true only while execle does not fail.
SoleAcceptor == \A p \in Pids : pc[p] \in ServerPC => p = Launcher

\* The loop waits for each request before it accepts the next one: whatever
\* fails, at most one process forked for a request is alive or unreaped.
OneRequestAtATime ==
  Cardinality({p \in Pids : pc[p] \in ChildPC \cup {"exit0"}}) <= 1

\* close() in the parent and exit() in the child are enough: when the loop
\* is back at accept() no process refers to any connection, so that every
\* earlier client has read its end of file and no descriptor leaks.
NoConnectionLeak ==
  (\E p \in Pids : pc[p] = "accept") => \A c \in Clients : ~Held(c)

\* The inductive strengthening of the two invariants above, for a server
\* whose execle() does not fail, with SoleAcceptor.  A request child is the one the launcher is
\* about to wait for, shares its connection_fd, and it and the launcher hold
\* nothing but that connection.
RequestPC == ChildPC \cup {"exit0"}

RequestChild(q) ==
  /\ q # Launcher
  /\ parent[q] = Launcher
  /\ pid[Launcher] = q
  /\ pc[Launcher] \in {"close", "wait"}

MayRefer(p, c) ==
  /\ c = connection_fd[Launcher]
  /\ \/ p = Launcher /\ pc[p] \in {"fork", "close"}
     \/ pc[p] \in ChildPC

ServerInv ==
  /\ SoleAcceptor
  /\ \A q \in Pids : pc[q] \in RequestPC => RequestChild(q)
  /\ \A q \in Pids : pc[q] \in ChildPC =>
        connection_fd[q] = connection_fd[Launcher]
  /\ stdin[Launcher] = Console /\ stdout[Launcher] = Console
  /\ \A p \in Pids, c \in Clients : Refers(p, c) => MayRefer(p, c)

\* No two processes that run the CGI program read the same connection: a
\* request is never split between them.
OneReaderPerConnection ==
  \A p, q \in Pids :
    /\ {pc[p], pc[q]} = {"cat"}
    /\ stdin[p] = stdin[q]
    /\ stdin[p] # Console
    => p = q

\* An exec that fails sends a second process into the accept loop, yet its
\* parent then waits for it forever: never are two processes in accept() at
\* once, whatever system calls fail.
OneAcceptorAtATime ==
  \A p, q \in Pids : pc[p] = "accept" /\ pc[q] = "accept" => p = q

\* Who else than the launcher runs the accept loop.  general.h:14 lists the
\* exec error among those that end a process with the exit code 2, but a child
\* whose execle has returned goes on into the loop (scgi_server.c:129-139).
\* Only such a child gets there: not the child of the start-up fork, nor one
\* that has not failed to execute.  The parent of each waits for it, and so
\* never serves again, and descriptors 0 and 1 of the child are the connection
\* the parent had accepted: the client of the failed request is never told
\* that it will have no answer.
SecondServers ==
  \A p \in Pids \ {Launcher} : pc[p] \in ServerPC =>
    /\ "exec" \in Faults
    /\ pc[parent[p]] \in {"close", "wait"}
    /\ pid[parent[p]] = p
    /\ \A c \in Clients : connection_fd[parent[p]] = c =>
         /\ stdin[p] = c
         /\ stdout[p] = c
         /\ client[c] = "accepted"

\* The CGI program reads and answers the same connection, and that is the
\* one accept() returned; it never has the terminal of the server.
WiredToConnection ==
  \A p \in Pids : pc[p] = "cat" => /\ stdin[p] \in Clients
                                   /\ stdout[p] = stdin[p]
                                   /\ client[stdin[p]] = "accepted"

\* Every client the kernel has queued is answered in the end, in spite of
\* the requests served before it.
EveryClientAnswered ==
  \A c \in Clients : client[c] = "queued" ~> answered[c]
=============================================================================
