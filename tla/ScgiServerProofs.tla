-------------------------- MODULE ScgiServerProofs --------------------------
(***************************************************************************)
(* Theorems about the accept-fork server, for every set of process ids,    *)
(* clients and faults and every backlog; at the end, that it implements    *)
(* RequestService if execle() does not fail.                               *)
(***************************************************************************)
EXTENDS ScgiServerRefinement, FiniteSetTheorems, TLAPS

\* What the proofs use of the constants.
LEMMA Constants ==
  /\ Launcher \in Pids
  /\ 0 \notin Pids /\ -1 \notin Pids
  /\ NoConn \notin Clients /\ Console \notin Clients /\ NoConn # Console
BY PidsAssumption, ConnAssumption, SMT

-----------------------------------------------------------------------------
\* The descriptor table and the variables of a process after fork() and
\* exit() keep their types.
LEMMA ForkIntoType ==
  ASSUME TypeOK, NEW p \in Pids, NEW q \in Pids,
         NEW parentAt \in PC, NEW childAt \in PC,
         ForkInto(p, q, parentAt, childAt),
         UNCHANGED <<optionVars, listener, netVars>>
  PROVE  TypeOK'
BY Constants
   DEF TypeOK, ForkInto, optionVars, netVars

LEMMA ForkFailsType ==
  ASSUME TypeOK, NEW p \in Pids, NEW parentAt \in PC,
         ForkFails(p, parentAt),
         UNCHANGED <<optionVars, listener, netVars>>
  PROVE  TypeOK'
BY Constants DEF TypeOK, ForkFails, Goto, fdVars, optionVars, netVars

LEMMA ExitType ==
  ASSUME TypeOK, NEW p \in Pids, NEW status \in ExitPC, Exit(p, status)
  PROVE  /\ pc' \in [Pids -> PC]
         /\ parent' \in [Pids -> Pids \cup {0}]
         /\ pid' \in [Pids -> Pids \cup {0, -1}]
         /\ connection_fd' \in [Pids -> Clients \cup {NoConn}]
         /\ opened' \in [Pids -> SUBSET Clients]
         /\ stdin' \in [Pids -> Clients \cup {Console}]
         /\ stdout' \in [Pids -> Clients \cup {Console}]
BY DEF TypeOK, Exit, Goto, PC, ExitPC

\* Every variable of the server always has its type, whatever system calls
\* fail: in particular connection_fd only ever names a client's connection or
\* is -1, and descriptors 0 and 1 of every process stay open.
THEOREM TypeCorrect == Spec => []TypeOK
<1>1. Init => TypeOK
  BY Constants DEF Init, TypeOK, PC, ServerPC, StartupPC
<1>2. TypeOK /\ [Next]_vars => TypeOK'
  <2> SUFFICES ASSUME TypeOK, [Next]_vars
               PROVE  TypeOK'
    OBVIOUS
  <2> USE DEF Goto, fdVars, optionVars, netVars
  <2>pc. {"main", "bind", "listen", "accept", "fork", "close", "wait",
          "init_child", "dup_stdin", "dup_stdout", "exec", "cat", "none",
          "exit0", "exit1"} \subseteq PC
    BY DEF PC, ServerPC, StartupPC, LoopPC, ChildPC, ExitPC
  <2>ex. "exit0" \in ExitPC /\ "exit1" \in ExitPC
    BY DEF ExitPC
  <2>1. ASSUME NEW p \in Pids, Daemonize(p)
        PROVE  TypeOK'
    <3>1. CASE foreground_flag
      BY <2>1, <2>pc, <3>1 DEF TypeOK, Daemonize
    <3>2. CASE ~foreground_flag
      BY <2>1, <2>pc, <3>2, ForkIntoType, ForkFailsType DEF Daemonize
    <3> QED BY <3>1, <3>2
  <2>2. ASSUME NEW p \in Pids, InitChildExit(p) \/ SocketUnsupported(p)
        PROVE  TypeOK'
    BY <2>2, <2>ex, ExitType DEF TypeOK, InitChildExit, SocketUnsupported
  <2>3. ASSUME NEW p \in Pids, Bind(p) \/ Listen(p)
        PROVE  TypeOK'
    BY <2>3, <2>pc DEF TypeOK, Bind, Listen
  <2>4. ASSUME NEW p \in Pids, AcceptConnection(p)
        PROVE  TypeOK'
    BY <2>4, <2>pc DEF TypeOK, AcceptConnection
  <2>5. ASSUME NEW p \in Pids, AcceptFails(p)
        PROVE  TypeOK'
    BY <2>5, <2>pc DEF TypeOK, AcceptFails
  <2>6. ASSUME NEW p \in Pids, Fork(p)
        PROVE  TypeOK'
    BY <2>6, <2>pc, ForkIntoType, ForkFailsType DEF Fork
  <2>7. ASSUME NEW p \in Pids, Close(p)
        PROVE  TypeOK'
    BY <2>7, <2>pc DEF TypeOK, Close
  <2>8. ASSUME NEW p \in Pids, Wait(p)
        PROVE  TypeOK'
    <3>1. CASE \E q \in Children(p) :
                 /\ Exited(q)
                 /\ pid[p] \in {q, -1}
                 /\ pc' = [pc EXCEPT ![p] = "accept", ![q] = "none"]
                 /\ parent' = [parent EXCEPT ![q] = 0]
                 /\ pid' = [pid EXCEPT ![q] = 0]
      BY <2>8, <2>pc, <3>1 DEF TypeOK, Wait, Children
    <3>2. CASE Goto(p, "accept") /\ UNCHANGED <<parent, pid>>
      BY <2>8, <2>pc, <3>2 DEF TypeOK, Wait
    <3> HIDE DEF Goto
    <3> QED BY <2>8, <3>1, <3>2, Zenon DEF Wait
  <2>9. ASSUME NEW p \in Pids, ChildStep(p)
        PROVE  TypeOK'
    <3>fd. \A f \in Clients \cup {NoConn}, old \in Clients \cup {Console} :
             Dup2Result(f, old) \in Clients \cup {Console}
      BY DEF Dup2Result
    <3>1. CASE DupStdin(p)
      BY <3>1, <3>fd, <2>pc DEF TypeOK, DupStdin
    <3>2. CASE DupStdout(p)
      BY <3>2, <3>fd, <2>pc DEF TypeOK, DupStdout
    <3>3. CASE Exec(p) \/ ExecFails(p)
      BY <3>3, <2>pc DEF TypeOK, Exec, ExecFails
    <3> QED BY <2>9, <3>1, <3>2, <3>3 DEF ChildStep
  <2>10. ASSUME NEW p \in Pids, CatConnection(p) \/ CatConsole(p)
         PROVE  TypeOK'
    BY <2>10, <2>ex, ExitType DEF TypeOK, CatConnection, CatConsole
  <2>11. ASSUME NEW c \in Clients, Connect(c) \/ Shut(c) \/ Leave(c)
         PROVE  TypeOK'
    <3>1. CASE Connect(c)
      <4>1. queue' \in Seq(Clients)
        BY <3>1 DEF TypeOK, Connect
      <4>2. client' \in [Clients -> {"idle", "queued", "accepted"}]
        BY <3>1 DEF TypeOK, Connect
      <4> QED BY <3>1, <4>1, <4>2 DEF TypeOK, Connect, procVars
    <3>2. CASE Shut(c) \/ Leave(c)
      BY <3>2 DEF TypeOK, Shut, Leave, procVars
    <3> QED BY <2>11, <3>1, <3>2
  <2>12. CASE UNCHANGED vars
    BY <2>12 DEF TypeOK, vars, procVars
  <2> QED
    BY <2>1, <2>2, <2>3, <2>4, <2>5, <2>6, <2>7, <2>8, <2>9, <2>10, <2>11,
       <2>12 DEF Next, Startup, ServerStep
<1> QED
  BY <1>1, <1>2, PTL DEF Spec

-----------------------------------------------------------------------------
\* What ServerInv says of the moment before a step.

\* Outside of close and wait the launcher has no request child.
LEMMA NoRequestChild ==
  ASSUME ServerInv, pc[Launcher] \notin {"close", "wait"}
  PROVE  \A q \in Pids : pc[q] \notin RequestPC
BY DEF ServerInv, RequestChild

\* Outside of the span from fork to wait nothing refers to a connection.
LEMMA NothingRefers ==
  ASSUME ServerInv, pc[Launcher] \notin {"fork", "close", "wait"}
  PROVE  \A p \in Pids, c \in Clients : ~Refers(p, c)
BY NoRequestChild DEF ServerInv, MayRefer, RequestPC

\* A process that executes a step of the loop or of start-up is the launcher,
\* one that executes a child's step is not.
LEMMA WhoSteps ==
  ASSUME ServerInv, NEW p \in Pids
  PROVE  /\ pc[p] \in {"main", "bind", "listen", "accept", "fork", "close",
                       "wait"} => p = Launcher
         /\ pc[p] \in {"dup_stdin", "dup_stdout", "exec", "cat", "exit0"}
              => /\ pc[p] \in RequestPC
                 /\ p # Launcher
                 /\ RequestChild(p)
BY DEF ServerInv, SoleAcceptor, ServerPC, StartupPC, LoopPC, RequestPC,
       ChildPC, RequestChild

-----------------------------------------------------------------------------
\* The invariant survives each step; "exec" \notin Faults is needed only for
\* ExecFails.

LEMMA DaemonizeInv ==
  ASSUME TypeOK, ServerInv, NEW p \in Pids, Daemonize(p)
  PROVE  ServerInv'
<1> USE Constants
<1>1. p = Launcher /\ pc[Launcher] = "main"
  BY WhoSteps DEF Daemonize
<1>2. \A q \in Pids : pc[q] \notin RequestPC
  BY <1>1, NoRequestChild
<1>3. \A q \in Pids, c \in Clients : ~Refers(q, c)
  BY <1>1, NothingRefers
<1>4. CASE \E q \in Pids : ForkInto(p, q, "bind", "init_child")
  <2> PICK q \in Pids : ForkInto(p, q, "bind", "init_child")
    BY <1>4
  <2>1. q # Launcher
    BY <1>1 DEF ForkInto
  <2>2. \A r \in Pids : pc'[r] = IF r = p THEN "bind"
                                 ELSE IF r = q THEN "init_child" ELSE pc[r]
    BY <1>1, <2>1 DEF ForkInto, TypeOK
  <2>3. \A r \in Pids, c \in Clients : ~Refers(r, c)'
    BY <1>1, <1>3 DEF ForkInto, TypeOK, Refers
  <2>4. SoleAcceptor'
    BY <1>1, <2>2 DEF ServerInv, SoleAcceptor, ServerPC, StartupPC, LoopPC
  <2>5. \A r \in Pids : pc'[r] \notin RequestPC
    BY <1>2, <2>2 DEF RequestPC, ChildPC
  <2>6. stdin'[Launcher] = Console /\ stdout'[Launcher] = Console
    BY <1>1, <2>1 DEF ForkInto, TypeOK, ServerInv
  <2> QED BY <2>3, <2>4, <2>5, <2>6 DEF ServerInv, RequestPC
<1>5. CASE Goto(p, "bind") /\ UNCHANGED <<parent, fdVars>>
  <2>1. \A r \in Pids : pc'[r] = IF r = p THEN "bind" ELSE pc[r]
    BY <1>5 DEF Goto, TypeOK
  <2>2. SoleAcceptor'
    BY <1>1, <2>1 DEF ServerInv, SoleAcceptor, ServerPC, StartupPC, LoopPC
  <2>3. \A r \in Pids : pc'[r] \notin RequestPC
    BY <1>2, <2>1 DEF RequestPC, ChildPC
  <2>4. \A r \in Pids, c \in Clients : ~Refers(r, c)'
    BY <1>3, <1>5 DEF Refers, fdVars
  <2> QED BY <1>5, <2>2, <2>3, <2>4 DEF ServerInv, RequestPC, fdVars
<1> QED BY <1>4, <1>5 DEF Daemonize, ForkFails, fdVars

\* A launcher step from start-up or accept that forks nobody and leaves it
\* where it holds nothing.
LEMMA QuietStepInv ==
  ASSUME TypeOK, ServerInv, NEW l \in PC \ (RequestPC \cup {"fork", "close"}),
         pc[Launcher] \notin {"fork", "close", "wait"},
         pc' = [pc EXCEPT ![Launcher] = l],
         \A q \in Pids, c \in Clients : ~Refers(q, c)',
         stdin'[Launcher] = Console /\ stdout'[Launcher] = Console
  PROVE  ServerInv'
<1>1. \A q \in Pids : pc'[q] = IF q = Launcher THEN l ELSE pc[q]
  BY Constants DEF TypeOK
<1>2. \A q \in Pids : pc'[q] \notin RequestPC
  BY <1>1, NoRequestChild
<1>3. SoleAcceptor'
  BY <1>1 DEF ServerInv, SoleAcceptor
<1> QED BY <1>2, <1>3 DEF ServerInv, RequestPC

LEMMA StartupInv ==
  ASSUME TypeOK, ServerInv, NEW p \in Pids,
         SocketUnsupported(p) \/ Bind(p) \/ Listen(p)
  PROVE  ServerInv'
<1> USE Constants
<1>1. p = Launcher /\ pc[Launcher] \in {"bind", "listen"}
  BY WhoSteps DEF SocketUnsupported, Bind, Listen
<1>2. \A q \in Pids, c \in Clients : ~Refers(q, c)
  BY <1>1, NothingRefers
<1>3. {"exit1", "listen", "accept"}
        \subseteq PC \ (RequestPC \cup {"fork", "close"})
  BY DEF PC, RequestPC, ExitPC, ServerPC, StartupPC, LoopPC, ChildPC
<1>4. CASE SocketUnsupported(p)
  <2>1. \A q \in Pids, c \in Clients : ~Refers(q, c)'
    BY <1>1, <1>2, <1>4 DEF SocketUnsupported, Exit, Refers, TypeOK
  <2>2. stdin'[Launcher] = Console /\ stdout'[Launcher] = Console
    BY <1>1, <1>4 DEF SocketUnsupported, Exit, TypeOK
  <2>3. pc' = [pc EXCEPT ![Launcher] = "exit1"]
    BY <1>1, <1>4 DEF SocketUnsupported, Exit, Goto
  <2> QED BY <1>1, <1>3, <2>1, <2>2, <2>3, QuietStepInv
<1>5. CASE Bind(p) \/ Listen(p)
  <2>1. UNCHANGED <<connection_fd, opened, stdin, stdout>>
    BY <1>5 DEF Bind, Listen, fdVars
  <2>2. \A q \in Pids, c \in Clients : ~Refers(q, c)'
    BY <1>2, <2>1 DEF Refers
  <2>3. \E l \in {"listen", "accept"} : pc' = [pc EXCEPT ![Launcher] = l]
    BY <1>1, <1>5 DEF Bind, Listen, Goto
  <2>4. stdin'[Launcher] = Console /\ stdout'[Launcher] = Console
    BY <2>1 DEF ServerInv
  <2> QED BY <1>1, <1>3, <2>2, <2>3, <2>4, QuietStepInv
<1> QED BY <1>4, <1>5

LEMMA InitChildExitInv ==
  ASSUME TypeOK, ServerInv, NEW p \in Pids, InitChildExit(p)
  PROVE  ServerInv'
<1> USE Constants
<1>1. \A q \in Pids : pc'[q] = IF q = p THEN "exit1" ELSE pc[q]
  BY DEF InitChildExit, Exit, Goto, TypeOK
<1>2. \A q \in Pids, c \in Clients : Refers(q, c)' => Refers(q, c) /\ q # p
  BY DEF InitChildExit, Exit, Refers, TypeOK
<1>3. pc[p] = "init_child" /\ UNCHANGED <<parent, pid>>
  BY DEF InitChildExit, Exit
<1>4. \A q \in Pids : q # p => connection_fd'[q] = connection_fd[q]
  BY DEF InitChildExit, Exit, TypeOK
<1>5. SoleAcceptor'
  BY <1>1 DEF ServerInv, SoleAcceptor, ServerPC, StartupPC, LoopPC
<1>6. \A q \in Pids : pc'[q] \in RequestPC => q # p /\ pc[q] \in RequestPC
  BY <1>1, <1>3 DEF RequestPC, ChildPC
<1>7. \A q \in Pids : pc'[q] \in RequestPC => RequestChild(q)'
  BY <1>1, <1>3, <1>6 DEF ServerInv, RequestChild
<1>8. stdin'[Launcher] = Console /\ stdout'[Launcher] = Console
  BY DEF InitChildExit, Exit, TypeOK, ServerInv
<1>9. CASE p = Launcher
  <2>1. \A q \in Pids : pc'[q] \notin RequestPC
    BY <1>3, <1>6, <1>9, NoRequestChild
  <2>2. \A q \in Pids, c \in Clients : ~Refers(q, c)'
    BY <1>2, <1>3, <1>9, NothingRefers
  <2> QED BY <1>5, <1>8, <2>1, <2>2 DEF ServerInv, RequestPC
<1>10. CASE p # Launcher
  <2>1. \A q \in Pids : pc'[q] \in ChildPC =>
          connection_fd'[q] = connection_fd'[Launcher]
    BY <1>1, <1>4, <1>6, <1>10 DEF ServerInv, RequestPC
  <2>2. \A q \in Pids, c \in Clients : Refers(q, c)' => MayRefer(q, c)'
    BY <1>1, <1>2, <1>4, <1>10 DEF ServerInv, MayRefer
  <2> QED BY <1>5, <1>7, <1>8, <2>1, <2>2 DEF ServerInv
<1> QED BY <1>9, <1>10

LEMMA AcceptConnectionInv ==
  ASSUME TypeOK, ServerInv, NEW p \in Pids, AcceptConnection(p)
  PROVE  ServerInv'
<1> USE Constants
<1>1. p = Launcher /\ pc[Launcher] = "accept"
  BY WhoSteps DEF AcceptConnection
<1>2. \A q \in Pids : pc[q] \notin RequestPC
  BY <1>1, NoRequestChild
<1>3. \A q \in Pids, c \in Clients : ~Refers(q, c)
  BY <1>1, NothingRefers
<1>4. \A q \in Pids : pc'[q] = IF q = Launcher THEN "fork" ELSE pc[q]
  BY <1>1 DEF AcceptConnection, Goto, TypeOK
<1>5. \A q \in Pids : pc'[q] \notin RequestPC
  BY <1>2, <1>4 DEF RequestPC, ChildPC
<1>6. SoleAcceptor'
  BY <1>4 DEF ServerInv, SoleAcceptor
<1>7. \A q \in Pids, c \in Clients : Refers(q, c)' => MayRefer(q, c)'
  <2> SUFFICES ASSUME NEW q \in Pids, NEW c \in Clients, Refers(q, c)'
               PROVE  MayRefer(q, c)'
    OBVIOUS
  <2> DEFINE h == Head(queue)
  <2>h. /\ connection_fd' = [connection_fd EXCEPT ![p] = h]
        /\ opened' = [opened EXCEPT ![p] = @ \cup {h}]
        /\ UNCHANGED <<stdin, stdout>>
    BY DEF AcceptConnection
  <2> HIDE DEF h
  <2>1. q = Launcher /\ c = h
    BY <1>1, <1>3, <2>h DEF Refers, TypeOK
  <2>2. connection_fd'[Launcher] = h
    BY <1>1, <2>h DEF TypeOK
  <2> QED BY <1>4, <2>1, <2>2 DEF MayRefer
<1>8. stdin'[Launcher] = Console /\ stdout'[Launcher] = Console
  BY DEF AcceptConnection, ServerInv
<1> QED BY <1>5, <1>6, <1>7, <1>8 DEF ServerInv, RequestPC

LEMMA AcceptFailsInv ==
  ASSUME TypeOK, ServerInv, NEW p \in Pids, AcceptFails(p)
  PROVE  ServerInv'
<1> USE Constants
<1>1. p = Launcher /\ pc[Launcher] = "accept"
  BY WhoSteps DEF AcceptFails
<1>2. \A q \in Pids, c \in Clients : ~Refers(q, c)
  BY <1>1, NothingRefers
<1>3. \A q \in Pids, c \in Clients : ~Refers(q, c)'
  BY <1>2 DEF AcceptFails, Refers
<1>4. \A q \in Pids : pc'[q] = IF q = Launcher THEN "fork" ELSE pc[q]
  BY <1>1 DEF AcceptFails, Goto, TypeOK
<1>5. \A q \in Pids : pc'[q] \notin RequestPC
  BY <1>1, <1>4, NoRequestChild DEF RequestPC, ChildPC
<1>6. SoleAcceptor'
  BY <1>4 DEF ServerInv, SoleAcceptor
<1>7. stdin'[Launcher] = Console /\ stdout'[Launcher] = Console
  BY DEF AcceptFails, ServerInv
<1> QED BY <1>3, <1>5, <1>6, <1>7 DEF ServerInv, RequestPC

LEMMA ForkInv ==
  ASSUME TypeOK, ServerInv, NEW p \in Pids, Fork(p)
  PROVE  ServerInv'
<1> USE Constants
<1>1. p = Launcher /\ pc[Launcher] = "fork"
  BY WhoSteps DEF Fork
<1>2. \A q \in Pids : pc[q] \notin RequestPC
  BY <1>1, NoRequestChild
<1>3. \A q \in Pids, c \in Clients :
        Refers(q, c) => q = Launcher /\ c = connection_fd[Launcher]
  BY <1>2 DEF ServerInv, MayRefer, RequestPC
<1>4. CASE \E q \in Pids : ForkInto(p, q, "close", "dup_stdin")
  <2> PICK q \in Pids : ForkInto(p, q, "close", "dup_stdin")
    BY <1>4
  <2>1. q # Launcher
    BY <1>1 DEF ForkInto
  <2>2. \A r \in Pids : pc'[r] = IF r = p THEN "close"
                                 ELSE IF r = q THEN "dup_stdin" ELSE pc[r]
    BY <1>1, <2>1 DEF ForkInto, TypeOK
  <2>3. \A r \in Pids : pc'[r] \in RequestPC => r = q
    BY <1>2, <2>2 DEF RequestPC, ChildPC
  <2>4. RequestChild(q)'
    BY <1>1, <2>1, <2>2 DEF ForkInto, RequestChild, TypeOK
  <2>5. connection_fd'[q] = connection_fd'[Launcher]
    BY <1>1, <2>1 DEF ForkInto, TypeOK
  <2>6. \A r \in Pids, c \in Clients : Refers(r, c)' => MayRefer(r, c)'
    <3> SUFFICES ASSUME NEW r \in Pids, NEW c \in Clients, Refers(r, c)'
                 PROVE  MayRefer(r, c)'
      OBVIOUS
    <3>1. r \in {p, q} /\ Refers(p, c)
      BY <1>1, <1>3, <2>1 DEF ForkInto, Refers, TypeOK
    <3>2. c = connection_fd'[Launcher]
      BY <1>1, <1>3, <2>1, <3>1 DEF ForkInto, TypeOK
    <3> QED BY <1>1, <2>1, <2>2, <3>1, <3>2 DEF MayRefer, ChildPC
  <2>7. SoleAcceptor'
    BY <1>1, <2>2 DEF ServerInv, SoleAcceptor, ServerPC, StartupPC, LoopPC
  <2>8. stdin'[Launcher] = Console /\ stdout'[Launcher] = Console
    BY <1>1, <2>1 DEF ForkInto, TypeOK, ServerInv
  <2> QED BY <2>3, <2>4, <2>5, <2>6, <2>7, <2>8 DEF ServerInv, RequestPC
<1>5. CASE ForkFails(p, "close")
  <2>1. \A q \in Pids : pc'[q] = IF q = Launcher THEN "close" ELSE pc[q]
    BY <1>1, <1>5 DEF ForkFails, Goto, TypeOK
  <2>2. \A q \in Pids : pc'[q] \notin RequestPC
    BY <1>2, <2>1 DEF RequestPC, ChildPC
  <2>3. UNCHANGED <<connection_fd, opened, stdin, stdout>>
    BY <1>5 DEF ForkFails, fdVars
  <2>4. \A q \in Pids, c \in Clients : Refers(q, c)' => MayRefer(q, c)'
    BY <1>3, <2>1, <2>3 DEF Refers, MayRefer
  <2>5. SoleAcceptor'
    BY <2>1 DEF ServerInv, SoleAcceptor
  <2>6. stdin'[Launcher] = Console /\ stdout'[Launcher] = Console
    BY <2>3 DEF ServerInv
  <2> QED BY <2>2, <2>4, <2>5, <2>6 DEF ServerInv, RequestPC
<1> QED BY <1>4, <1>5 DEF Fork

LEMMA ChildStepInv ==
  ASSUME TypeOK, ServerInv, "exec" \notin Faults,
         NEW p \in Pids, ChildStep(p)
  PROVE  ServerInv'
<1> USE Constants
<1>1. p # Launcher /\ pc[p] \in ChildPC /\ RequestChild(p)
  BY WhoSteps DEF ChildStep, DupStdin, DupStdout, Exec, ExecFails, ChildPC
<1>2. connection_fd[p] = connection_fd[Launcher]
  BY <1>1 DEF ServerInv
<1>3. PICK l \in ChildPC : pc' = [pc EXCEPT ![p] = l]
  BY DEF ChildStep, DupStdin, DupStdout, Exec, ExecFails, Goto, ChildPC
<1>4. \A q \in Pids : pc'[q] = IF q = p THEN l ELSE pc[q]
  BY <1>3 DEF TypeOK
<1>5. UNCHANGED <<parent, pid, connection_fd, opened>>
  BY DEF ChildStep, DupStdin, DupStdout, Exec, ExecFails, fdVars
<1>6. \A q \in Pids, c \in Clients :
        Refers(q, c)' =>
          Refers(q, c) \/ (q = p /\ c = connection_fd[Launcher])
  <2>1. CASE DupStdin(p)
    BY <1>2, <2>1 DEF DupStdin, Dup2Result, Refers, TypeOK
  <2>2. CASE DupStdout(p)
    BY <1>2, <2>2 DEF DupStdout, Dup2Result, Refers, TypeOK
  <2>3. CASE Exec(p) \/ ExecFails(p)
    BY <2>3 DEF Exec, ExecFails, Refers, fdVars
  <2> QED BY <2>1, <2>2, <2>3 DEF ChildStep
<1>7. stdin'[Launcher] = Console /\ stdout'[Launcher] = Console
  BY <1>1 DEF ChildStep, DupStdin, DupStdout, Exec, ExecFails, fdVars, TypeOK,
              ServerInv
<1>8. SoleAcceptor'
  BY <1>4 DEF ServerInv, SoleAcceptor, ServerPC, StartupPC, LoopPC, ChildPC
<1>9. \A q \in Pids : pc'[q] \in RequestPC => RequestChild(q)'
  BY <1>1, <1>4, <1>5 DEF ServerInv, RequestPC, RequestChild
<1>10. \A q \in Pids : pc'[q] \in ChildPC =>
         connection_fd'[q] = connection_fd'[Launcher]
  BY <1>1, <1>4, <1>5 DEF ServerInv
<1>11. \A q \in Pids, c \in Clients : Refers(q, c)' => MayRefer(q, c)'
  BY <1>1, <1>4, <1>5, <1>6 DEF ServerInv, MayRefer
<1> QED BY <1>7, <1>8, <1>9, <1>10, <1>11 DEF ServerInv

LEMMA CloseInv ==
  ASSUME TypeOK, ServerInv, NEW p \in Pids, Close(p)
  PROVE  ServerInv'
<1> USE Constants
<1>1. p = Launcher /\ pc[Launcher] = "close"
  BY WhoSteps DEF Close
<1>2. \A q \in Pids : pc'[q] = IF q = Launcher THEN "wait" ELSE pc[q]
  BY <1>1 DEF Close, Goto, TypeOK
<1>3. UNCHANGED <<parent, pid, connection_fd, stdin, stdout>>
  BY DEF Close
<1>4. SoleAcceptor'
  BY <1>2 DEF ServerInv, SoleAcceptor
<1>5. \A q \in Pids : pc'[q] \in RequestPC => RequestChild(q)'
  BY <1>1, <1>2, <1>3 DEF ServerInv, RequestPC, ChildPC, RequestChild
<1>6. \A q \in Pids : pc'[q] \in ChildPC =>
        connection_fd'[q] = connection_fd'[Launcher]
  BY <1>2, <1>3 DEF ServerInv, ChildPC
<1>7. \A q \in Pids, c \in Clients : Refers(q, c)' => MayRefer(q, c)'
  <2> SUFFICES ASSUME NEW q \in Pids, NEW c \in Clients, Refers(q, c)'
               PROVE  MayRefer(q, c)'
    OBVIOUS
  <2>1. Refers(q, c) /\ MayRefer(q, c)
    BY <1>3 DEF Close, Refers, ServerInv, TypeOK
  <2>2. q # Launcher
    BY <1>1, <2>1 DEF Close, Refers, ServerInv, MayRefer, TypeOK
  <2> QED BY <1>2, <1>3, <2>1, <2>2 DEF MayRefer
<1>8. stdin'[Launcher] = Console /\ stdout'[Launcher] = Console
  BY <1>3 DEF ServerInv
<1> QED BY <1>4, <1>5, <1>6, <1>7, <1>8 DEF ServerInv

LEMMA WaitInv ==
  ASSUME TypeOK, ServerInv, NEW p \in Pids, Wait(p)
  PROVE  ServerInv'
<1> USE Constants
<1>1. p = Launcher /\ pc[Launcher] = "wait"
  BY WhoSteps DEF Wait
<1>2. UNCHANGED <<connection_fd, opened, stdin, stdout>>
  BY DEF Wait, fdVars
<1>3. CASE \E q \in Children(p) :
             /\ Exited(q)
             /\ pid[p] \in {q, -1}
             /\ pc' = [pc EXCEPT ![p] = "accept", ![q] = "none"]
  <2> PICK q \in Children(p) :
             /\ Exited(q)
             /\ pid[p] \in {q, -1}
             /\ pc' = [pc EXCEPT ![p] = "accept", ![q] = "none"]
    BY <1>3
  <2>1. q \in Pids /\ q # p
    BY <1>1 DEF Children, Exited, ExitPC
  <2>2. \A r \in Pids : pc'[r] = IF r = q THEN "none"
                                 ELSE IF r = p THEN "accept" ELSE pc[r]
    BY <2>1 DEF TypeOK
  <2>3. \A r \in Pids : pc'[r] \notin RequestPC
    <3> SUFFICES ASSUME NEW r \in Pids, pc'[r] \in RequestPC
                 PROVE  FALSE
      OBVIOUS
    <3>1. r # q /\ pc[r] \in RequestPC
      <4>1. "none" \notin RequestPC /\ "accept" \notin RequestPC
        BY DEF RequestPC, ChildPC
      <4> QED BY <2>2, <4>1, Zenon
    <3>2. pid[p] = r
      BY <1>1, <3>1 DEF ServerInv, RequestChild
    <3> QED BY <3>1, <3>2
  <2>4. SoleAcceptor'
    BY <1>1, <2>2 DEF ServerInv, SoleAcceptor, ServerPC, StartupPC, LoopPC
  <2>5. \A r \in Pids, c \in Clients : ~Refers(r, c)
    <3> SUFFICES ASSUME NEW r \in Pids, NEW c \in Clients, Refers(r, c)
                 PROVE  FALSE
      OBVIOUS
    <3>1. pc[r] \in ChildPC
      BY <1>1 DEF ServerInv, MayRefer
    <3>2. r = q
      BY <1>1, <3>1 DEF ServerInv, RequestChild, RequestPC
    <3> QED BY <3>1, <3>2 DEF Exited, ExitPC, ChildPC
  <2>6. \A r \in Pids, c \in Clients : ~Refers(r, c)'
    BY <1>2, <2>5 DEF Refers
  <2> QED BY <1>2, <2>3, <2>4, <2>6 DEF ServerInv, RequestPC
<1>4. CASE /\ \A q \in Children(p) : pid[p] \notin {q, -1}
           /\ Goto(p, "accept")
  <2>1. \A r \in Pids : pc'[r] = IF r = p THEN "accept" ELSE pc[r]
    BY <1>4 DEF Goto, TypeOK
  <2>2. \A r \in Pids : pc[r] \notin RequestPC
    <3> SUFFICES ASSUME NEW r \in Pids, pc[r] \in RequestPC
                 PROVE  FALSE
      OBVIOUS
    <3>1. r \in Children(p) /\ pid[p] = r
      BY <1>1 DEF ServerInv, RequestChild, Children, RequestPC, ChildPC
    <3> QED BY <1>4, <3>1
  <2>3. \A r \in Pids : pc'[r] \notin RequestPC
    BY <2>1, <2>2 DEF RequestPC, ChildPC
  <2>4. \A r \in Pids, c \in Clients : ~Refers(r, c)'
    BY <1>1, <1>2, <2>2 DEF ServerInv, MayRefer, Refers, RequestPC
  <2>5. SoleAcceptor'
    BY <1>1, <2>1 DEF ServerInv, SoleAcceptor
  <2> QED BY <1>2, <2>3, <2>4, <2>5 DEF ServerInv, RequestPC
<1> QED BY <1>3, <1>4 DEF Wait

LEMMA CatInv ==
  ASSUME TypeOK, ServerInv, NEW p \in Pids,
         CatConnection(p) \/ CatConsole(p)
  PROVE  ServerInv'
<1> USE Constants
<1>1. pc[p] = "cat" /\ Exit(p, "exit0")
  BY DEF CatConnection, CatConsole
<1>2. p # Launcher /\ RequestChild(p)
  BY <1>1, WhoSteps
<1>3. \A q \in Pids : pc'[q] = IF q = p THEN "exit0" ELSE pc[q]
  BY <1>1 DEF Exit, Goto, TypeOK
<1>4. \A q \in Pids, c \in Clients : Refers(q, c)' => Refers(q, c) /\ q # p
  BY <1>1 DEF Exit, Refers, TypeOK
<1>5. UNCHANGED <<parent, pid>>
  BY <1>1 DEF Exit
<1>6. \A q \in Pids : q # p => connection_fd'[q] = connection_fd[q]
  BY <1>1 DEF Exit, TypeOK
<1>7. SoleAcceptor'
  BY <1>3 DEF ServerInv, SoleAcceptor, ServerPC, StartupPC, LoopPC
<1>8. \A q \in Pids : pc'[q] \in RequestPC => RequestChild(q)'
  BY <1>1, <1>2, <1>3, <1>5 DEF ServerInv, RequestPC, ChildPC, RequestChild
<1>9. \A q \in Pids : pc'[q] \in ChildPC =>
        connection_fd'[q] = connection_fd'[Launcher]
  BY <1>2, <1>3, <1>6 DEF ServerInv, ChildPC
<1>10. \A q \in Pids, c \in Clients : Refers(q, c)' => MayRefer(q, c)'
  BY <1>2, <1>3, <1>4, <1>6 DEF ServerInv, MayRefer
<1>11. stdin'[Launcher] = Console /\ stdout'[Launcher] = Console
  BY <1>1, <1>2 DEF Exit, TypeOK, ServerInv
<1> QED BY <1>7, <1>8, <1>9, <1>10, <1>11 DEF ServerInv

LEMMA ElsewhereInv ==
  ASSUME ServerInv, UNCHANGED <<procVars, fdVars>>
  PROVE  ServerInv'
BY DEF ServerInv, procVars, fdVars, SoleAcceptor, RequestChild, MayRefer, Refers

\* As long as execle() does not fail, the accept loop stays with the launcher,
\* a request child is the process it waits for, and those two alone hold the
\* connection being served (scgi_server.c, 103 to 139).
THEOREM ServerInvariant ==
  ASSUME "exec" \notin Faults
  PROVE  Spec => []ServerInv
<1>1. Init => ServerInv
  <2> SUFFICES ASSUME Init PROVE ServerInv
    OBVIOUS
  <2>1. \A p \in Pids : pc[p] \in {"main", "none"}
    BY DEF Init
  <2>2. \A p \in Pids : pc[p] = "main" => p = Launcher
    BY DEF Init
  <2>3. \A p \in Pids : pc[p] \notin RequestPC
    BY <2>1 DEF RequestPC, ChildPC
  <2>4. SoleAcceptor
    BY <2>1, <2>2 DEF SoleAcceptor, ServerPC, StartupPC, LoopPC
  <2>5. \A p \in Pids, c \in Clients : ~Refers(p, c)
    BY Constants DEF Init, Refers
  <2>6. stdin[Launcher] = Console /\ stdout[Launcher] = Console
    BY Constants DEF Init
  <2> QED BY <2>3, <2>4, <2>5, <2>6 DEF ServerInv, RequestPC
<1>2. TypeOK /\ ServerInv /\ [Next]_vars => ServerInv'
  <2> SUFFICES ASSUME TypeOK, ServerInv, [Next]_vars
               PROVE  ServerInv'
    OBVIOUS
  <2>1. ASSUME NEW p \in Pids, Startup(p)
        PROVE  ServerInv'
    BY <2>1, DaemonizeInv, InitChildExitInv, StartupInv DEF Startup
  <2>2. ASSUME NEW p \in Pids, ServerStep(p)
        PROVE  ServerInv'
    BY <2>2, AcceptConnectionInv, AcceptFailsInv, ForkInv, CloseInv, WaitInv
       DEF ServerStep
  <2>3. ASSUME NEW p \in Pids, ChildStep(p)
        PROVE  ServerInv'
    BY <2>3, ChildStepInv
  <2>4. ASSUME NEW p \in Pids, CatConnection(p) \/ CatConsole(p)
        PROVE  ServerInv'
    BY <2>4, CatInv
  <2>5. ASSUME NEW c \in Clients, Connect(c) \/ Shut(c) \/ Leave(c)
        PROVE  ServerInv'
    BY <2>5, ElsewhereInv DEF Connect, Shut, Leave
  <2>6. CASE UNCHANGED vars
    BY <2>6, ElsewhereInv DEF vars
  <2> QED BY <2>1, <2>2, <2>3, <2>4, <2>5, <2>6 DEF Next
<1> QED
  BY <1>1, <1>2, TypeCorrect, PTL DEF Spec

\* The process that accepts is the one started from the command line.
THEOREM SoleAcceptorTheorem ==
  ASSUME "exec" \notin Faults
  PROVE  Spec => []SoleAcceptor
<1>1. ServerInv => SoleAcceptor
  BY DEF ServerInv
<1> QED BY <1>1, ServerInvariant, PTL

\* Back at accept() the server holds no connection of an earlier request, so
\* that close() and exit() between them have told its client the end of file.
THEOREM NoConnectionLeakTheorem ==
  ASSUME "exec" \notin Faults
  PROVE  Spec => []NoConnectionLeak
<1>1. ServerInv => NoConnectionLeak
  <2> SUFFICES ASSUME ServerInv, NEW p \in Pids, pc[p] = "accept"
               PROVE  \A c \in Clients : ~Held(c)
    BY DEF NoConnectionLeak
  <2>1. pc[Launcher] = "accept"
    BY WhoSteps
  <2> QED BY <2>1, NothingRefers DEF Held
<1> QED BY <1>1, ServerInvariant, PTL

-----------------------------------------------------------------------------
(***************************************************************************)
(* What holds whatever system calls fail, execle() among them: the         *)
(* processes of the accept loop are then a chain of servers, each waiting  *)
(* for the next, with one at its end.                                      *)
(***************************************************************************)

\* The processes that run the loop or were forked by it for a request.
Active(p) == pc[p] \in ServerPC \cup RequestPC

\* waitpid(pid) of p will not return before a process that is active does.
AwaitsChild(p) ==
  /\ pc[p] \in {"close", "wait"}
  /\ pid[p] \in Pids
  /\ Active(pid[p])
  /\ parent[pid[p]] = p

AtHead(p) == Active(p) /\ ~AwaitsChild(p)

\* The chain has one end, and it has no other links during start-up.
OneHead ==
  /\ \A p, q \in Pids : AtHead(p) /\ AtHead(q) => p = q
  /\ \A p, q \in Pids : pc[p] \in StartupPC /\ Active(q) => p = q

\* The program points by what a step at them does to the chain.
LEMMA ProgramPoints ==
  /\ {"main", "bind", "listen"} = StartupPC
  /\ {"main", "bind", "listen", "accept", "fork", "close", "wait"} = ServerPC
  /\ {"dup_stdin", "dup_stdout", "exec", "cat", "exit0"} = RequestPC
  /\ {"dup_stdin", "dup_stdout", "exec", "cat"} = ChildPC
  /\ {"exit0", "exit1"} = ExitPC
BY DEF StartupPC, LoopPC, ServerPC, RequestPC, ChildPC, ExitPC

-----------------------------------------------------------------------------
\* A process that is not in waitpid or about to call it moves on.
LEMMA HeadMoves ==
  ASSUME TypeOK, OneHead, NEW p \in Pids, NEW l \in ServerPC \cup RequestPC,
         Active(p), pc[p] \notin {"close", "wait"},
         l \in StartupPC => pc[p] \in StartupPC,
         pc' = [pc EXCEPT ![p] = l],
         parent' = parent,
         \A r \in Pids : r # p => pid'[r] = pid[r]
  PROVE  OneHead'
<1>1. \A r \in Pids : pc'[r] = IF r = p THEN l ELSE pc[r]
  BY DEF TypeOK
<1>2. \A r \in Pids : Active(r)' <=> Active(r)
  BY <1>1 DEF Active
<1>3. \A r \in Pids : r # p /\ AwaitsChild(r) => AwaitsChild(r)'
  BY <1>1, <1>2 DEF AwaitsChild
<1>4. AtHead(p)
  BY DEF AtHead, AwaitsChild
<1>5. \A r \in Pids : AtHead(r)' => AtHead(r)
  BY <1>2, <1>3, <1>4 DEF AtHead
<1>6. \A r \in Pids : pc'[r] \in StartupPC => pc[r] \in StartupPC
  BY <1>1
<1> QED BY <1>2, <1>5, <1>6 DEF OneHead

\* A step that leaves every process as active, and as bound to wait, as it was.
LEMMA SameChain ==
  ASSUME OneHead,
         \A r \in Pids : Active(r)' <=> Active(r),
         \A r \in Pids : AwaitsChild(r)' <=> AwaitsChild(r),
         \A r \in Pids : pc'[r] \in StartupPC => pc[r] \in StartupPC
  PROVE  OneHead'
BY DEF OneHead, AtHead

\* The parent goes on as parentAt, the child starts outside of the chain or as
\* its new end.
LEMMA ForkKeepsOneHead ==
  ASSUME TypeOK, OneHead, NEW p \in Pids, NEW q \in Pids,
         \/ pc[p] = "main" /\ ForkInto(p, q, "bind", "init_child")
         \/ pc[p] = "fork" /\ ForkInto(p, q, "close", "dup_stdin")
  PROVE  OneHead'
<1> USE ProgramPoints
<1>1. p # q /\ pc[q] = "none"
  BY DEF ForkInto
<1>2. \A r \in Pids \ {p, q} :
        /\ pc'[r] = pc[r] /\ pid'[r] = pid[r] /\ parent'[r] = parent[r]
  BY DEF ForkInto, TypeOK
<1>3. /\ pid'[p] = q /\ parent'[q] = p /\ parent'[p] = parent[p]
      /\ \/ pc[p] = "main" /\ pc'[p] = "bind" /\ pc'[q] = "init_child"
         \/ pc[p] = "fork" /\ pc'[p] = "close" /\ pc'[q] = "dup_stdin"
  BY <1>1 DEF ForkInto, TypeOK
<1>4. \A r \in Pids : r # q => (Active(r)' <=> Active(r))
  BY <1>2, <1>3 DEF Active
<1>5. ~Active(q)
  BY <1>1 DEF Active
<1>6. \A r \in Pids \ {p, q} : AwaitsChild(r) => AwaitsChild(r)'
  BY <1>2, <1>3, <1>4, <1>5 DEF AwaitsChild
<1>7. AtHead(p)
  BY <1>3 DEF AtHead, AwaitsChild, Active
<1>8. \A r \in Pids \ {p, q} : AtHead(r)' => FALSE
  BY <1>3, <1>4, <1>6, <1>7 DEF AtHead, OneHead
<1>9. CASE pc[p] = "main"
  <2>1. ~Active(q)'
    BY <1>3, <1>9 DEF Active
  <2>2. \A r \in Pids : AtHead(r)' => r = p
    BY <1>8, <2>1 DEF AtHead
  <2>3. \A r \in Pids : Active(r) => r = p
    BY <1>9 DEF OneHead
  <2>4. \A r \in Pids : Active(r)' => r = p
    BY <1>4, <2>1, <2>3
  <2>5. \A r \in Pids : pc'[r] \in StartupPC => Active(r)'
    BY DEF Active
  <2> QED BY <2>2, <2>4, <2>5 DEF OneHead
<1>10. CASE pc[p] = "fork"
  <2>1. Active(q)' /\ AwaitsChild(p)'
    BY <1>3, <1>10 DEF Active, AwaitsChild
  <2>2. \A r \in Pids : AtHead(r)' => r = q
    BY <1>8, <2>1 DEF AtHead
  <2>3. \A r \in Pids : pc'[r] \notin StartupPC
    <3>1. \A r \in Pids \ {p} : pc[r] \notin StartupPC
      BY <1>7 DEF OneHead, AtHead
    <3> QED BY <1>2, <1>3, <1>10, <3>1
  <2> QED BY <2>2, <2>3 DEF OneHead
<1> QED BY <1>3, <1>9, <1>10

\* The process that waits is at the head or its child is, which terminates.
LEMMA WaitKeepsOneHead ==
  ASSUME TypeOK, OneHead, NEW p \in Pids, Wait(p)
  PROVE  OneHead'
<1> USE ProgramPoints, Constants
<1>1. pc[p] = "wait" /\ Active(p)
  BY DEF Wait, Active
<1>2. CASE /\ \A q \in Children(p) : pid[p] \notin {q, -1}
           /\ Goto(p, "accept")
           /\ UNCHANGED <<parent, pid>>
  <2>1. \A r \in Pids : pc'[r] = IF r = p THEN "accept" ELSE pc[r]
    BY <1>2 DEF Goto, TypeOK
  <2>2. AtHead(p)
    <3>1. ASSUME AwaitsChild(p) PROVE FALSE
      <4>1. pid[p] \in Children(p)
        BY <3>1 DEF AwaitsChild, Active, Children
      <4> QED BY <1>2, <4>1
    <3> QED BY <1>1, <3>1 DEF AtHead
  <2>3. \A r \in Pids : Active(r)' <=> Active(r)
    BY <1>1, <2>1 DEF Active
  <2>4. \A r \in Pids : r # p /\ AwaitsChild(r) => AwaitsChild(r)'
    BY <1>2, <2>1, <2>3 DEF AwaitsChild
  <2>5. \A r \in Pids : AtHead(r)' => AtHead(r)
    BY <2>2, <2>3, <2>4 DEF AtHead
  <2> QED BY <2>1, <2>3, <2>5 DEF OneHead
<1>3. ASSUME NEW q \in Children(p),
             Exited(q), pid[p] \in {q, -1},
             pc' = [pc EXCEPT ![p] = "accept", ![q] = "none"],
             parent' = [parent EXCEPT ![q] = 0],
             pid' = [pid EXCEPT ![q] = 0]
      PROVE  OneHead'
  <2>1. q \in Pids /\ parent[q] = p /\ pc[q] \in {"exit0", "exit1"} /\ q # p
    BY <1>1, <1>3 DEF Children, Exited
  <2>2. \A r \in Pids : pc'[r] = IF r = p THEN "accept"
                                 ELSE IF r = q THEN "none" ELSE pc[r]
    BY <1>3, <2>1 DEF TypeOK
  <2>3. \A r \in Pids \ {q} : parent'[r] = parent[r] /\ pid'[r] = pid[r]
    BY <1>3 DEF TypeOK
  <2>4. ~Active(q)' /\ \A r \in Pids \ {q} : Active(r)' <=> Active(r)
    BY <1>1, <2>1, <2>2 DEF Active
  <2>5. \A r \in Pids \ {p, q} : AwaitsChild(r) => AwaitsChild(r)'
    <3> SUFFICES ASSUME NEW r \in Pids \ {p, q}, AwaitsChild(r)
                 PROVE  AwaitsChild(r)'
      OBVIOUS
    <3>1. pid[r] # q /\ pid[r] \in Pids
      BY <2>1 DEF AwaitsChild
    <3> QED BY <2>2, <2>3, <2>4, <3>1 DEF AwaitsChild
  <2>6. \A r \in Pids : AtHead(r)' => r = p \/ AtHead(r)
    BY <2>4, <2>5 DEF AtHead
  <2>7. AtHead(p) \/ AtHead(q)
    <3>1. CASE pid[p] = -1
      BY <1>1, <3>1 DEF AtHead, AwaitsChild
    <3>2. CASE pid[p] = q /\ pc[q] = "exit1"
      BY <1>1, <3>2 DEF AtHead, AwaitsChild, Active
    <3>3. CASE pid[p] = q /\ pc[q] = "exit0"
      BY <2>1, <3>3 DEF AtHead, AwaitsChild, Active
    <3> QED BY <1>3, <2>1, <3>1, <3>2, <3>3
  <2>8. ~AtHead(q)'
    BY <2>4 DEF AtHead
  <2>9. \A r \in Pids : AtHead(r)' => r = p
    BY <2>1, <2>6, <2>7, <2>8 DEF OneHead
  <2> QED BY <2>2, <2>4, <2>9 DEF OneHead
<1> QED BY <1>2, <1>3 DEF Wait

-----------------------------------------------------------------------------
\* Whatever fails, there is one process at the end of the chain: a child whose
\* execle failed accepts in the place of the server that waits for it.
THEOREM OneHeadInvariant == Spec => []OneHead
<1> USE Constants, ProgramPoints
<1>1. Init => OneHead
  BY DEF Init, OneHead, AtHead, Active
<1>2. TypeOK /\ OneHead /\ [Next]_vars => OneHead'
  <2> SUFFICES ASSUME TypeOK, OneHead, [Next]_vars
               PROVE  OneHead'
    OBVIOUS
  <2>1. ASSUME NEW p \in Pids, Daemonize(p)
        PROVE  OneHead'
    <3>1. ASSUME NEW q \in Pids, ForkInto(p, q, "bind", "init_child")
          PROVE  OneHead'
      BY <2>1, <3>1, ForkKeepsOneHead DEF Daemonize
    <3>2. CASE Goto(p, "bind") /\ UNCHANGED parent
               /\ pid' \in {pid, [pid EXCEPT ![p] = -1]}
      BY <2>1, <3>2, HeadMoves DEF Daemonize, Goto, Active, TypeOK
    <3> QED BY <2>1, <3>1, <3>2 DEF Daemonize, ForkFails
  <2>2. ASSUME NEW p \in Pids, InitChildExit(p)
        PROVE  OneHead'
    <3>1. /\ pc[p] = "init_child"
          /\ \A r \in Pids : pc'[r] = IF r = p THEN "exit1" ELSE pc[r]
          /\ UNCHANGED <<parent, pid>>
      BY <2>2 DEF InitChildExit, Exit, Goto, TypeOK
    <3>2. \A r \in Pids : Active(r)' <=> Active(r)
      BY <3>1 DEF Active
    <3>3. \A r \in Pids : AwaitsChild(r)' <=> AwaitsChild(r)
      BY <3>1, <3>2 DEF AwaitsChild
    <3> QED BY <3>1, <3>2, <3>3, SameChain
  <2>3. ASSUME NEW p \in Pids, SocketUnsupported(p)
        PROVE  OneHead'
    <3>1. /\ pc[p] = "bind"
          /\ \A r \in Pids : pc'[r] = IF r = p THEN "exit1" ELSE pc[r]
      BY <2>3 DEF SocketUnsupported, Exit, Goto, TypeOK
    <3>2. \A r \in Pids : ~Active(r)'
      BY <3>1 DEF OneHead, Active
    <3> QED BY <3>2 DEF OneHead, AtHead
  <2>4. ASSUME NEW p \in Pids, Bind(p) \/ Listen(p)
        PROVE  OneHead'
    BY <2>4, HeadMoves DEF Bind, Listen, Goto, Active
  <2>5. ASSUME NEW p \in Pids, AcceptConnection(p) \/ AcceptFails(p)
        PROVE  OneHead'
    BY <2>5, HeadMoves DEF AcceptConnection, AcceptFails, Goto, Active
  <2>6. ASSUME NEW p \in Pids, Fork(p)
        PROVE  OneHead'
    <3>1. ASSUME NEW q \in Pids, ForkInto(p, q, "close", "dup_stdin")
          PROVE  OneHead'
      BY <2>6, <3>1, ForkKeepsOneHead DEF Fork
    <3>2. CASE ForkFails(p, "close")
      BY <2>6, <3>2, HeadMoves DEF Fork, ForkFails, Goto, Active, TypeOK
    <3> QED BY <2>6, <3>1, <3>2 DEF Fork
  <2>7. ASSUME NEW p \in Pids, Close(p)
        PROVE  OneHead'
    <3>1. /\ pc[p] = "close"
          /\ \A r \in Pids : pc'[r] = IF r = p THEN "wait" ELSE pc[r]
          /\ UNCHANGED <<parent, pid>>
      BY <2>7 DEF Close, Goto, TypeOK
    <3>2. \A r \in Pids : Active(r)' <=> Active(r)
      BY <3>1 DEF Active
    <3>3. \A r \in Pids : AwaitsChild(r)' <=> AwaitsChild(r)
      BY <3>1, <3>2 DEF AwaitsChild
    <3> QED BY <3>1, <3>2, <3>3, SameChain
  <2>8. ASSUME NEW p \in Pids, Wait(p)
        PROVE  OneHead'
    BY <2>8, WaitKeepsOneHead
  <2>9. ASSUME NEW p \in Pids, ChildStep(p)
        PROVE  OneHead'
    BY <2>9, HeadMoves
       DEF ChildStep, DupStdin, DupStdout, Exec, ExecFails, Goto, Active
  <2>10. ASSUME NEW p \in Pids, CatConnection(p) \/ CatConsole(p)
         PROVE  OneHead'
    BY <2>10, HeadMoves DEF CatConnection, CatConsole, Exit, Goto, Active
  <2>11. CASE UNCHANGED procVars
    BY <2>11 DEF OneHead, AtHead, AwaitsChild, Active, procVars
  <2> QED
    BY <2>1, <2>2, <2>3, <2>4, <2>5, <2>6, <2>7, <2>8, <2>9, <2>10, <2>11
       DEF Next, Startup, ServerStep, Connect, Shut, Leave, vars
<1> QED BY <1>1, <1>2, TypeCorrect, PTL DEF Spec

\* Never are two processes in accept(): a child that fails to execute the CGI
\* program becomes a server, while its parent waits for it for ever.
THEOREM OneAcceptorAtATimeTheorem == Spec => []OneAcceptorAtATime
<1>1. OneHead => OneAcceptorAtATime
  BY ProgramPoints
     DEF OneHead, AtHead, Active, AwaitsChild, OneAcceptorAtATime
<1> QED BY <1>1, OneHeadInvariant, PTL

\* No request is split between two programs that read it: two never run.
THEOREM OneReaderPerConnectionTheorem == Spec => []OneReaderPerConnection
<1>1. OneHead => OneReaderPerConnection
  <2> SUFFICES ASSUME OneHead, NEW p \in Pids, NEW q \in Pids,
                      {pc[p], pc[q]} = {"cat"}
               PROVE  p = q
    BY DEF OneReaderPerConnection
  <2>1. pc[p] = "cat" /\ pc[q] = "cat"
    OBVIOUS
  <2> QED
    BY <2>1, ProgramPoints DEF OneHead, AtHead, Active, AwaitsChild
<1> QED BY <1>1, OneHeadInvariant, PTL

\* The loop never has two requests in progress, whatever fails: a process
\* forked for a request is the end of the chain, which is one process.
THEOREM OneRequestAtATimeTheorem == Spec => []OneRequestAtATime
<1>1. OneHead => OneRequestAtATime
  <2> SUFFICES ASSUME OneHead PROVE OneRequestAtATime
    OBVIOUS
  <2> DEFINE R == {p \in Pids : pc[p] \in RequestPC}
  <2>1. \A p, q \in R : p = q
    BY ProgramPoints DEF OneHead, AtHead, Active, AwaitsChild
  <2>2. R = {} \/ \E p \in R : R = {p}
    BY <2>1
  <2> HIDE DEF R
  <2>3. Cardinality(R) = 0 \/ Cardinality(R) = 1
    BY <2>2, FS_EmptySet, FS_Singleton, Zenon
  <2> QED BY <2>3 DEF OneRequestAtATime, RequestPC, R
<1> QED BY <1>1, OneHeadInvariant, PTL

-----------------------------------------------------------------------------
\* The descriptors of a process on its way from accept() to execle(): the
\* connection it has accepted, and the descriptors 0 and 1 it has made of it.
\* The kernel does not forget a connection somebody refers to.
Wired(p) ==
  connection_fd[p] \in Clients =>
    /\ pc[p] \in {"fork", "close"} \cup ChildPC =>
         connection_fd[p] \in opened[p]
    /\ pc[p] \in {"dup_stdout", "exec", "cat"} => stdin[p] = connection_fd[p]
    /\ pc[p] \in {"exec", "cat"} => stdout[p] = connection_fd[p]

Wiring ==
  /\ \A p \in Pids : Wired(p)
  /\ \A p \in Pids, c \in Clients : Refers(p, c) => client[c] = "accepted"

\* Nothing that Wiring speaks of changes for p but its program point.
LEMMA WiredMoves ==
  ASSUME TypeOK, Wiring, NEW p \in Pids, NEW l \in PC,
         l \in {"fork", "close"} \cup ChildPC => l = pc[p],
         pc' = [pc EXCEPT ![p] = l],
         UNCHANGED <<fdVars, client>>
  PROVE  Wiring'
<1>1. \A q \in Pids : pc'[q] = IF q = p THEN l ELSE pc[q]
  BY DEF TypeOK
<1>2. \A q \in Pids : Wired(q)'
  BY <1>1, ProgramPoints DEF Wiring, Wired, fdVars
<1> QED BY <1>2 DEF Wiring, Refers, fdVars

LEMMA ForkKeepsWiring ==
  ASSUME TypeOK, Wiring, NEW p \in Pids, NEW q \in Pids,
         NEW parentAt \in PC, NEW childAt \in PC,
         \/ pc[p] = "main" /\ parentAt = "bind" /\ childAt = "init_child"
         \/ pc[p] = "fork" /\ parentAt = "close" /\ childAt = "dup_stdin",
         ForkInto(p, q, parentAt, childAt), UNCHANGED client
  PROVE  Wiring'
<1>1. p # q
  BY DEF ForkInto
<1>2. \A r \in Pids :
        /\ pc'[r] = IF r = p THEN parentAt ELSE IF r = q THEN childAt ELSE pc[r]
        /\ connection_fd'[r] = IF r = q THEN connection_fd[p] ELSE connection_fd[r]
        /\ opened'[r] = IF r = q THEN opened[p] ELSE opened[r]
        /\ stdin'[r] = IF r = q THEN stdin[p] ELSE stdin[r]
        /\ stdout'[r] = IF r = q THEN stdout[p] ELSE stdout[r]
  BY <1>1 DEF ForkInto, TypeOK
<1>3. \A r \in Pids \ {p, q} : Wired(r)'
  BY <1>2 DEF Wiring, Wired
<1>4. Wired(p)' /\ Wired(q)'
  BY <1>1, <1>2, ProgramPoints DEF Wiring, Wired
<1>5. \A r \in Pids, c \in Clients :
        Refers(r, c)' => Refers(IF r = q THEN p ELSE r, c)
  BY <1>2 DEF Refers
<1>6. \A r \in Pids, c \in Clients : Refers(r, c)' => client[c] = "accepted"
  BY <1>5 DEF Wiring
<1> QED BY <1>3, <1>4, <1>6 DEF Wiring

LEMMA ExitKeepsWiring ==
  ASSUME TypeOK, Wiring, NEW p \in Pids, NEW status \in ExitPC,
         Exit(p, status), UNCHANGED client
  PROVE  Wiring'
<1>1. \A r \in Pids \ {p} :
        /\ pc'[r] = pc[r] /\ connection_fd'[r] = connection_fd[r]
        /\ opened'[r] = opened[r]
        /\ stdin'[r] = stdin[r] /\ stdout'[r] = stdout[r]
  BY DEF Exit, Goto, TypeOK
<1>2. connection_fd'[p] \notin Clients
  BY Constants DEF Exit, TypeOK
<1>3. \A r \in Pids : Wired(r)'
  BY <1>1, <1>2 DEF Wiring, Wired
<1>4. \A c \in Clients : ~Refers(p, c)'
  BY Constants DEF Exit, Refers, TypeOK
<1>5. \A r \in Pids, c \in Clients : Refers(r, c)' => Refers(r, c)
  BY <1>1, <1>4 DEF Refers
<1> QED BY <1>3, <1>5 DEF Wiring

LEMMA AcceptKeepsWiring ==
  ASSUME TypeOK, Wiring, NEW p \in Pids, AcceptConnection(p)
  PROVE  Wiring'
<1> DEFINE h == Head(queue)
<1>1. h \in Clients
  BY DEF AcceptConnection, TypeOK
<1>2. /\ client' = [client EXCEPT ![h] = "accepted"]
      /\ connection_fd' = [connection_fd EXCEPT ![p] = h]
      /\ opened' = [opened EXCEPT ![p] = @ \cup {h}]
      /\ pc' = [pc EXCEPT ![p] = "fork"]
      /\ UNCHANGED <<stdin, stdout>>
  BY DEF AcceptConnection, Goto
<1> HIDE DEF h
<1>3. \A r \in Pids : Wired(r)'
  BY <1>1, <1>2, ProgramPoints DEF Wiring, Wired, TypeOK
<1>4. \A r \in Pids, c \in Clients :
        Refers(r, c)' => Refers(r, c) \/ c = h
  BY <1>2 DEF Refers, TypeOK
<1> QED BY <1>1, <1>2, <1>3, <1>4 DEF Wiring, TypeOK

LEMMA DupKeepsWiring ==
  ASSUME TypeOK, Wiring, NEW p \in Pids, DupStdin(p) \/ DupStdout(p)
  PROVE  Wiring'
<1>1. /\ pc[p] \in ChildPC
      /\ UNCHANGED <<connection_fd, opened, client>>
      /\ \A r \in Pids \ {p} :
           pc'[r] = pc[r] /\ stdin'[r] = stdin[r] /\ stdout'[r] = stdout[r]
  BY ProgramPoints DEF DupStdin, DupStdout, Goto, netVars, TypeOK
<1>2. \A r \in Pids \ {p} : Wired(r)'
  BY <1>1 DEF Wiring, Wired
<1>3. Wired(p)'
  <2>1. CASE DupStdin(p)
    BY <2>1, Constants, ProgramPoints
       DEF DupStdin, Dup2Result, Goto, Wiring, Wired, TypeOK
  <2>2. CASE DupStdout(p)
    BY <2>2, Constants, ProgramPoints
       DEF DupStdout, Dup2Result, Goto, Wiring, Wired, TypeOK
  <2> QED BY <2>1, <2>2
<1>4. \A r \in Pids, c \in Clients : Refers(r, c)' => Refers(r, c)
  <2>1. connection_fd[p] \in Clients => connection_fd[p] \in opened[p]
    BY <1>1 DEF Wiring, Wired
  <2>2. \/ connection_fd[p] = NoConn
        \/ connection_fd[p] \in Clients
    BY DEF TypeOK
  <2>3. CASE DupStdin(p)
    BY <2>1, <2>2, <2>3 DEF DupStdin, Dup2Result, Refers, TypeOK
  <2>4. CASE DupStdout(p)
    BY <2>1, <2>2, <2>4 DEF DupStdout, Dup2Result, Refers, TypeOK
  <2> QED BY <2>3, <2>4
<1> QED BY <1>1, <1>2, <1>3, <1>4 DEF Wiring

\* Whatever fails, descriptors 0 and 1 of a program about to be executed are
\* its connection, if there is one (scgi_server.c, 112 to 129).
THEOREM WiringInvariant == Spec => []Wiring
<1> USE Constants, ProgramPoints
<1>1. Init => Wiring
  BY DEF Init, Wiring, Wired, Refers
<1>2. TypeOK /\ Wiring /\ [Next]_vars => Wiring'
  <2> SUFFICES ASSUME TypeOK, Wiring, [Next]_vars
               PROVE  Wiring'
    OBVIOUS
  <2>pc. /\ {"bind", "listen", "accept", "close", "wait", "exec", "cat",
             "init_child", "dup_stdin"} \subseteq PC
         /\ "exit0" \in ExitPC /\ "exit1" \in ExitPC
    BY DEF PC
  <2>1. ASSUME NEW p \in Pids, Daemonize(p)
        PROVE  Wiring'
    BY <2>1, <2>pc, WiredMoves, ForkKeepsWiring
       DEF Daemonize, ForkFails, Goto, netVars
  <2>2. ASSUME NEW p \in Pids, InitChildExit(p) \/ SocketUnsupported(p)
        PROVE  Wiring'
    BY <2>2, <2>pc, ExitKeepsWiring
       DEF InitChildExit, SocketUnsupported, netVars
  <2>3. ASSUME NEW p \in Pids, Bind(p) \/ Listen(p)
        PROVE  Wiring'
    BY <2>3, <2>pc, WiredMoves DEF Bind, Listen, Goto, netVars
  <2>4. ASSUME NEW p \in Pids, AcceptConnection(p)
        PROVE  Wiring'
    BY <2>4, AcceptKeepsWiring
  <2>5. ASSUME NEW p \in Pids, AcceptFails(p)
        PROVE  Wiring'
    <3>1. \A r \in Pids : connection_fd'[r] =
                            IF r = p THEN NoConn ELSE connection_fd[r]
      BY <2>5 DEF AcceptFails, TypeOK
    <3>2. /\ \A r \in Pids \ {p} : pc'[r] = pc[r]
          /\ UNCHANGED <<opened, stdin, stdout, client>>
      BY <2>5 DEF AcceptFails, Goto, TypeOK, netVars
    <3> QED BY <3>1, <3>2 DEF Wiring, Wired, Refers
  <2>6. ASSUME NEW p \in Pids, Fork(p)
        PROVE  Wiring'
    <3>1. ASSUME NEW q \in Pids, ForkInto(p, q, "close", "dup_stdin")
          PROVE  Wiring'
      BY <2>6, <2>pc, <3>1, ForkKeepsWiring DEF Fork, netVars
    <3>2. CASE ForkFails(p, "close")
      <4>1. /\ \A r \in Pids :
                 \/ pc'[r] = pc[r]
                 \/ r = p /\ pc[p] = "fork" /\ pc'[p] = "close"
            /\ UNCHANGED <<connection_fd, opened, stdin, stdout, client>>
        BY <2>6, <3>2 DEF Fork, ForkFails, Goto, TypeOK, fdVars, netVars
      <4> QED BY <4>1 DEF Wiring, Wired, Refers
    <3> QED BY <2>6, <3>1, <3>2 DEF Fork
  <2>7. ASSUME NEW p \in Pids, Close(p)
        PROVE  Wiring'
    <3>1. \A r \in Pids :
            /\ pc'[r] = IF r = p THEN "wait" ELSE pc[r]
            /\ opened'[r] = IF r = p THEN opened[p] \ {connection_fd[p]}
                            ELSE opened[r]
      BY <2>7 DEF Close, Goto, TypeOK
    <3>2. UNCHANGED <<connection_fd, stdin, stdout, client>>
      BY <2>7 DEF Close, netVars
    <3> QED BY <3>1, <3>2 DEF Wiring, Wired, Refers
  <2>8. ASSUME NEW p \in Pids, Wait(p)
        PROVE  Wiring'
    <3>1. \A r \in Pids : pc'[r] \in {pc[r], "accept", "none"}
      BY <2>8 DEF Wait, Children, Goto, TypeOK
    <3>2. UNCHANGED <<connection_fd, opened, stdin, stdout, client>>
      BY <2>8 DEF Wait, fdVars, netVars
    <3> QED BY <3>1, <3>2 DEF Wiring, Wired, Refers
  <2>9. ASSUME NEW p \in Pids, ChildStep(p)
        PROVE  Wiring'
    <3>1. CASE DupStdin(p) \/ DupStdout(p)
      BY <3>1, DupKeepsWiring
    <3>2. CASE Exec(p)
      <4>1. /\ \A r \in Pids :
                 \/ pc'[r] = pc[r]
                 \/ r = p /\ pc[p] = "exec" /\ pc'[p] = "cat"
            /\ UNCHANGED <<connection_fd, opened, stdin, stdout, client>>
        BY <3>2 DEF Exec, Goto, TypeOK, fdVars, netVars
      <4> QED BY <4>1 DEF Wiring, Wired, Refers
    <3>3. CASE ExecFails(p)
      BY <3>3, <2>pc, WiredMoves DEF ExecFails, Goto, netVars
    <3> QED BY <2>9, <3>1, <3>2, <3>3 DEF ChildStep
  <2>10. ASSUME NEW p \in Pids, CatConnection(p) \/ CatConsole(p)
         PROVE  Wiring'
    BY <2>10, <2>pc, ExitKeepsWiring DEF CatConnection, CatConsole, netVars
  <2>11. ASSUME NEW c \in Clients, Connect(c) \/ Shut(c) \/ Leave(c)
         PROVE  Wiring'
    <3>1. UNCHANGED <<pc, connection_fd, opened, stdin, stdout>>
      BY <2>11 DEF Connect, Shut, Leave, procVars, fdVars
    <3>2. \A d \in Clients :
            client[d] = "accepted" => client'[d] = "accepted" \/ ~Held(d)
      BY <2>11 DEF Connect, Shut, Leave, TypeOK
    <3> QED BY <3>1, <3>2 DEF Wiring, Wired, Refers, Held
  <2>12. CASE UNCHANGED vars
    BY <2>12 DEF vars, procVars, fdVars, netVars, Wiring, Wired, Refers
  <2> QED
    BY <2>1, <2>2, <2>3, <2>4, <2>5, <2>6, <2>7, <2>8, <2>9, <2>10, <2>11,
       <2>12 DEF Next, Startup, ServerStep
<1> QED BY <1>1, <1>2, TypeCorrect, PTL DEF Spec

-----------------------------------------------------------------------------
\* A process of the chain that is not its first: its parent waits for it, and
\* has given it its connection.
Linked(p) ==
  /\ parent[p] \in Pids
  /\ pc[parent[p]] \in {"close", "wait"}
  /\ pid[parent[p]] = p
  /\ pc[p] \in ChildPC => connection_fd[p] = connection_fd[parent[p]]
  /\ pc[p] \in ServerPC =>
       /\ "exec" \in Faults
       /\ connection_fd[parent[p]] \in Clients =>
            /\ stdin[p] = connection_fd[parent[p]]
            /\ stdout[p] = connection_fd[parent[p]]

Links == \A p \in Pids \ {Launcher} : Active(p) => Linked(p)

\* A step of p that leaves the processes, what p has of its parent and, if p
\* waits for a child, what that has of p.
LEMMA LinkedMoves ==
  ASSUME TypeOK, Links, NEW p \in Pids,
         \A r \in Pids \ {p} :
           /\ pc'[r] = pc[r] /\ connection_fd'[r] = connection_fd[r]
           /\ stdin'[r] = stdin[r] /\ stdout'[r] = stdout[r]
           /\ pid'[r] = pid[r],
         parent' = parent,
         pc[p] \in {"close", "wait"} =>
           /\ pc'[p] \in {"close", "wait"}
           /\ pid'[p] = pid[p] /\ connection_fd'[p] = connection_fd[p],
         Active(p)' => Active(p),
         pc'[p] \in ChildPC =>
           pc[p] \in ChildPC /\ connection_fd'[p] = connection_fd[p],
         pc'[p] \in ServerPC =>
           pc[p] \in ServerPC /\ stdin'[p] = stdin[p] /\ stdout'[p] = stdout[p]
  PROVE  Links'
<1> SUFFICES ASSUME NEW r \in Pids \ {Launcher}, Active(r)'
             PROVE  Linked(r)'
  BY DEF Links
<1>1. Active(r)
  BY DEF Active
<1>2. Linked(r) /\ parent'[r] = parent[r]
  BY <1>1 DEF Links
<1>4. /\ pc'[parent[r]] \in {"close", "wait"} /\ pid'[parent[r]] = r
      /\ connection_fd'[parent[r]] = connection_fd[parent[r]]
  BY <1>2 DEF Linked
<1> QED BY <1>2, <1>4 DEF Linked

\* The child starts as the end of the chain, with the connection of its parent.
LEMMA ForkKeepsLinks ==
  ASSUME TypeOK, Links, NEW p \in Pids, NEW q \in Pids,
         \/ pc[p] = "main" /\ ForkInto(p, q, "bind", "init_child")
         \/ pc[p] = "fork" /\ ForkInto(p, q, "close", "dup_stdin")
  PROVE  Links'
<1> USE ProgramPoints
<1>1. p # q /\ pc[q] = "none"
  BY DEF ForkInto
<1>2. \A r \in Pids \ {p, q} :
        /\ pc'[r] = pc[r] /\ pid'[r] = pid[r]
        /\ connection_fd'[r] = connection_fd[r]
  BY DEF ForkInto, TypeOK
<1>3. \A r \in Pids \ {q} :
        /\ parent'[r] = parent[r] /\ connection_fd'[r] = connection_fd[r]
        /\ stdin'[r] = stdin[r] /\ stdout'[r] = stdout[r]
  BY DEF ForkInto, TypeOK
<1>4. /\ pid'[p] = q /\ parent'[q] = p
      /\ connection_fd'[q] = connection_fd[p]
      /\ \/ pc[p] = "main" /\ pc'[p] = "bind" /\ pc'[q] = "init_child"
         \/ pc[p] = "fork" /\ pc'[p] = "close" /\ pc'[q] = "dup_stdin"
  BY <1>1 DEF ForkInto, TypeOK
<1>5. ASSUME NEW r \in Pids \ {Launcher, q}, Active(r)'
      PROVE  Linked(r)'
  <2>1. Active(r)
    BY <1>2, <1>4, <1>5 DEF Active
  <2>2. Linked(r)
    BY <2>1 DEF Links
  <2>3. parent[r] \notin {p, q}
    BY <1>1, <1>4, <2>2 DEF Linked
  <2>4. /\ pc'[parent[r]] \in {"close", "wait"} /\ pid'[parent[r]] = r
        /\ connection_fd'[parent[r]] = connection_fd[parent[r]]
    BY <1>2, <2>2, <2>3 DEF Linked
  <2>5. (pc'[r] \in ChildPC => pc[r] \in ChildPC)
        /\ (pc'[r] \in ServerPC => pc[r] \in ServerPC)
    BY <1>2, <1>4
  <2> QED BY <1>3, <2>2, <2>4, <2>5 DEF Linked
<1>6. Active(q)' => Linked(q)'
  BY <1>1, <1>3, <1>4 DEF Active, Linked
<1> QED BY <1>5, <1>6 DEF Links

\* A child that terminates keeps its link until it is reaped.
LEMMA ExitKeepsLinks ==
  ASSUME TypeOK, Links, NEW p \in Pids, NEW status \in ExitPC,
         Exit(p, status), pc[p] \notin {"close", "wait"},
         status = "exit0" => Active(p)
  PROVE  Links'
<1>1. /\ \A r \in Pids \ {p} :
           /\ pc'[r] = pc[r] /\ connection_fd'[r] = connection_fd[r]
           /\ stdin'[r] = stdin[r] /\ stdout'[r] = stdout[r]
           /\ pid'[r] = pid[r]
      /\ pc'[p] = status /\ parent' = parent
  BY DEF Exit, Goto, TypeOK
<1>2. Active(p)' => Active(p)
  BY <1>1, ProgramPoints DEF Active
<1> QED BY <1>1, <1>2, LinkedMoves, ProgramPoints

\* waitpid returns for a child that is no part of the chain any more.
LEMMA WaitKeepsLinks ==
  ASSUME TypeOK, Links, NEW p \in Pids, Wait(p)
  PROVE  Links'
<1> USE ProgramPoints
<1>1. pc[p] = "wait" /\ UNCHANGED <<connection_fd, stdin, stdout>>
  BY DEF Wait, fdVars
<1>2. ASSUME NEW r \in Pids \ {Launcher}, Active(r)'
      PROVE  Linked(r)'
  <2>1. CASE \E q \in Children(p) :
               /\ Exited(q) /\ pid[p] \in {q, -1}
               /\ pc' = [pc EXCEPT ![p] = "accept", ![q] = "none"]
               /\ parent' = [parent EXCEPT ![q] = 0]
               /\ pid' = [pid EXCEPT ![q] = 0]
    <3>1. PICK q \in Children(p) :
                 /\ Exited(q) /\ pid[p] \in {q, -1}
                 /\ pc' = [pc EXCEPT ![p] = "accept", ![q] = "none"]
                 /\ parent' = [parent EXCEPT ![q] = 0]
                 /\ pid' = [pid EXCEPT ![q] = 0]
      BY <2>1
    <3>2. q \in Pids /\ p # q
      BY <1>1, <3>1 DEF Children, Exited
    <3>3. \A s \in Pids \ {p, q} : pc'[s] = pc[s]
      BY <3>1, <3>2 DEF TypeOK
    <3>4. pc'[p] = "accept" /\ pc'[q] = "none"
      BY <3>1, <3>2 DEF TypeOK
    <3>5. \A s \in Pids \ {q} : parent'[s] = parent[s] /\ pid'[s] = pid[s]
      BY <3>1, <3>2 DEF TypeOK
    <3>6. r # q
      BY <1>2, <3>4 DEF Active
    <3>7. Active(r)
      BY <1>1, <1>2, <3>3, <3>6 DEF Active
    <3>8. Linked(r)
      BY <3>7 DEF Links
    <3>9. parent[r] # p
      BY <3>1, <3>6, <3>8, Constants DEF Linked
    <3>10. parent[r] # q
      BY <3>1, <3>8 DEF Linked, Exited
    <3>11. /\ pc'[parent[r]] = pc[parent[r]] /\ pid'[parent[r]] = pid[parent[r]]
           /\ parent'[r] = parent[r]
      BY <3>3, <3>5, <3>6, <3>8, <3>9, <3>10 DEF Linked
    <3>12. (pc'[r] \in ChildPC => pc[r] \in ChildPC)
           /\ (pc'[r] \in ServerPC => pc[r] \in ServerPC)
      BY <1>1, <3>3, <3>4, <3>6
    <3> QED BY <1>1, <3>8, <3>11, <3>12 DEF Linked
  <2>2. CASE /\ \A q \in Children(p) : pid[p] \notin {q, -1}
             /\ Goto(p, "accept") /\ UNCHANGED <<parent, pid>>
    <3>1. \A s \in Pids \ {p} : pc'[s] = pc[s]
      BY <2>2 DEF Goto, TypeOK
    <3>2. pc'[p] = "accept"
      BY <2>2 DEF Goto, TypeOK
    <3>3. Active(r)
      BY <1>1, <1>2, <3>1 DEF Active
    <3>4. Linked(r)
      BY <3>3 DEF Links
    <3>5. parent[r] # p
      BY <2>2, <3>3, <3>4 DEF Linked, Children, Active
    <3>6. pc'[parent[r]] = pc[parent[r]]
      BY <3>1, <3>4, <3>5 DEF Linked
    <3>7. (pc'[r] \in ChildPC => pc[r] \in ChildPC)
          /\ (pc'[r] \in ServerPC => pc[r] \in ServerPC)
      BY <1>1, <3>1, <3>2
    <3> QED BY <1>1, <2>2, <3>4, <3>6, <3>7 DEF Linked
  <2> QED BY <2>1, <2>2 DEF Wait
<1> QED BY <1>2 DEF Links

\* A process in the loop that is not the launcher is one whose execle failed
\* (scgi_server.c:129-139): its parent waits for it and it still has the
\* connection of the request it was forked for.
THEOREM SecondServersTheorem == Spec => []SecondServers
<1> USE ProgramPoints
<1>1. Init => Links
  BY DEF Init, Links, Active
<1>2. TypeOK /\ Wiring /\ Links /\ [Next]_vars => Links'
  <2> SUFFICES ASSUME TypeOK, Wiring, Links, [Next]_vars
               PROVE  Links'
    OBVIOUS
  <2>1. ASSUME NEW p \in Pids, Daemonize(p)
        PROVE  Links'
    <3>1. ASSUME NEW q \in Pids, ForkInto(p, q, "bind", "init_child")
          PROVE  Links'
      BY <2>1, <3>1, ForkKeepsLinks DEF Daemonize
    <3>2. CASE UNCHANGED <<parent, fdVars>> /\ Goto(p, "bind")
               /\ \A r \in Pids \ {p} : pid'[r] = pid[r]
      <4>1. /\ \A r \in Pids \ {p} : pc'[r] = pc[r]
            /\ pc'[p] = "bind" /\ pc[p] = "main"
            /\ UNCHANGED <<parent, connection_fd, stdin, stdout>>
        BY <2>1, <3>2 DEF Daemonize, Goto, TypeOK, fdVars
      <4> QED BY <3>2, <4>1, LinkedMoves DEF Active
    <3>3. ForkFails(p, "bind") => \A r \in Pids \ {p} : pid'[r] = pid[r]
      BY DEF ForkFails, TypeOK
    <3> QED BY <2>1, <3>1, <3>2, <3>3 DEF Daemonize, ForkFails, TypeOK
  <2>2. ASSUME NEW p \in Pids, InitChildExit(p) \/ SocketUnsupported(p)
        PROVE  Links'
    BY <2>2, ExitKeepsLinks DEF InitChildExit, SocketUnsupported
  <2>3. ASSUME NEW p \in Pids, NEW l \in ServerPC, pc' = [pc EXCEPT ![p] = l],
               pc[p] \in ServerPC \ {"wait"}, pc[p] = "close" => l = "wait",
               UNCHANGED <<parent, pid, stdin, stdout>>,
               \A r \in Pids : pc[p] = "close" \/ r # p =>
                                 connection_fd'[r] = connection_fd[r]
        PROVE  Links'
    <3>1. /\ \A r \in Pids \ {p} : pc'[r] = pc[r]
          /\ pc'[p] = l
      BY <2>3 DEF TypeOK
    <3>2. Active(p) /\ pc'[p] \notin ChildPC
      BY <2>3, <3>1 DEF Active
    <3> QED BY <2>3, <3>1, <3>2, LinkedMoves
  <2>4. ASSUME NEW p \in Pids, Bind(p) \/ Listen(p)
        PROVE  Links'
    BY <2>4, <2>3 DEF Bind, Listen, Goto, fdVars
  <2>5. ASSUME NEW p \in Pids, AcceptConnection(p) \/ AcceptFails(p)
        PROVE  Links'
    <3>1. \A r \in Pids \ {p} : connection_fd'[r] = connection_fd[r]
      BY <2>5 DEF AcceptConnection, AcceptFails, TypeOK
    <3>2. /\ pc[p] = "accept" /\ pc' = [pc EXCEPT ![p] = "fork"]
          /\ UNCHANGED <<parent, pid, stdin, stdout>>
      BY <2>5 DEF AcceptConnection, AcceptFails, Goto
    <3> QED BY <3>1, <3>2, <2>3
  <2>6. ASSUME NEW p \in Pids, Fork(p)
        PROVE  Links'
    <3>1. ASSUME NEW q \in Pids, ForkInto(p, q, "close", "dup_stdin")
          PROVE  Links'
      BY <2>6, <3>1, ForkKeepsLinks DEF Fork
    <3>2. CASE ForkFails(p, "close")
      <4>1. /\ \A r \in Pids \ {p} : pc'[r] = pc[r] /\ pid'[r] = pid[r]
            /\ pc'[p] = "close" /\ pc[p] = "fork"
            /\ UNCHANGED <<parent, connection_fd, stdin, stdout>>
        BY <2>6, <3>2 DEF Fork, ForkFails, Goto, TypeOK, fdVars
      <4> QED BY <4>1, LinkedMoves DEF Active
    <3> QED BY <2>6, <3>1, <3>2 DEF Fork
  <2>7. ASSUME NEW p \in Pids, Close(p)
        PROVE  Links'
    BY <2>7, <2>3 DEF Close, Goto
  <2>8. ASSUME NEW p \in Pids, Wait(p)
        PROVE  Links'
    BY <2>8, WaitKeepsLinks
  <2>9. ASSUME NEW p \in Pids, DupStdin(p) \/ DupStdout(p) \/ Exec(p)
        PROVE  Links'
    <3>1. /\ pc[p] \in ChildPC /\ pc'[p] \in ChildPC
          /\ \A r \in Pids \ {p} : pc'[r] = pc[r]
          /\ \A r \in Pids \ {p} : stdin'[r] = stdin[r] /\ stdout'[r] = stdout[r]
          /\ UNCHANGED <<parent, pid, connection_fd>>
      BY <2>9 DEF DupStdin, DupStdout, Exec, Goto, TypeOK, fdVars
    <3>2. Active(p) /\ pc[p] \notin {"close", "wait"} /\ pc'[p] \notin ServerPC
      BY <3>1 DEF Active
    <3> QED BY <3>1, <3>2, LinkedMoves
  <2>10. ASSUME NEW p \in Pids, ExecFails(p)
         PROVE  Links'
    <3>1. /\ pc[p] = "exec" /\ pc'[p] = "accept" /\ "exec" \in Faults
          /\ \A r \in Pids \ {p} : pc'[r] = pc[r]
          /\ UNCHANGED <<parent, pid, connection_fd, stdin, stdout>>
      BY <2>10 DEF ExecFails, Goto, TypeOK, fdVars
    <3>2. ASSUME NEW r \in Pids \ {Launcher}, Active(r)'
          PROVE  Linked(r)'
      <4>1. Linked(r)
        BY <3>1, <3>2 DEF Links, Active
      <4>2. /\ pc'[parent[r]] = pc[parent[r]]
            /\ parent[r] # p
        BY <3>1, <4>1 DEF Linked
      <4>3. CASE r # p
        BY <3>1, <4>1, <4>2, <4>3 DEF Linked
      <4>4. CASE r = p
        <5>1. connection_fd[p] \in Clients =>
                stdin[p] = connection_fd[p] /\ stdout[p] = connection_fd[p]
          BY <3>1 DEF Wiring, Wired
        <5> QED BY <3>1, <4>1, <4>2, <4>4, <5>1 DEF Linked
      <4> QED BY <4>3, <4>4
    <3> QED BY <3>2 DEF Links
  <2>11. ASSUME NEW p \in Pids, CatConnection(p) \/ CatConsole(p)
         PROVE  Links'
    BY <2>11, ExitKeepsLinks DEF CatConnection, CatConsole, Active
  <2>12. CASE UNCHANGED <<procVars, fdVars>>
    BY <2>12 DEF Links, Linked, Active, procVars, fdVars
  <2> QED
    BY <2>1, <2>2, <2>4, <2>5, <2>6, <2>7, <2>8, <2>9, <2>10, <2>11, <2>12
       DEF Next, Startup, ServerStep, ChildStep, Connect, Shut, Leave, vars
<1>3. Wiring /\ Links => SecondServers
  <2> SUFFICES ASSUME Wiring, Links, NEW p \in Pids \ {Launcher},
                      pc[p] \in ServerPC
               PROVE  /\ "exec" \in Faults
                      /\ pc[parent[p]] \in {"close", "wait"}
                      /\ pid[parent[p]] = p
                      /\ \A c \in Clients : connection_fd[parent[p]] = c =>
                           stdin[p] = c /\ stdout[p] = c /\ client[c] = "accepted"
    BY DEF SecondServers
  <2>1. Linked(p)
    BY DEF Links, Active
  <2> QED BY <2>1 DEF Linked, Wiring, Refers
<1> QED BY <1>1, <1>2, <1>3, TypeCorrect, WiringInvariant, PTL DEF Spec

-----------------------------------------------------------------------------
\* A server whose accept() does not fail has a connection between accept() and
\* the next; it does not fail if the server listens, at whatever port.
Accepting ==
  /\ \A p \in Pids : pc[p] \in {"fork", "close"} \cup ChildPC =>
       connection_fd[p] \in Clients
  /\ \A p \in Pids : pc[p] \in LoopPC \cup ChildPC =>
       listener \in {"listening", "elsewhere"}

\* With accept() and listen() that do not fail the connection is there; it is
\* OneHead that keeps a second bind() from taking it away.
LEMMA AcceptingStep ==
  ASSUME "accept" \notin Faults, "listen" \notin Faults,
         TypeOK, OneHead, Accepting, [Next]_vars
  PROVE  Accepting'
<1> USE ProgramPoints DEF LoopPC
<1>1. ASSUME UNCHANGED <<connection_fd, listener>>,
             \A p \in Pids : \/ pc'[p] = pc[p]
                             \/ pc'[p] \notin LoopPC \cup ChildPC
                             \/ /\ pc'[p] \in {"accept", "wait"}
                                /\ pc[p] \in LoopPC \cup ChildPC
                             \/ /\ pc'[p] \in {"close"} \cup ChildPC
                                /\ pc[p] \in {"fork"} \cup ChildPC
      PROVE  Accepting'
  BY <1>1 DEF Accepting
<1>2. ASSUME NEW p \in Pids, NEW q \in Pids,
             \/ pc[p] = "main" /\ ForkInto(p, q, "bind", "init_child")
             \/ pc[p] = "fork" /\ ForkInto(p, q, "close", "dup_stdin"),
             UNCHANGED listener
      PROVE  Accepting'
  <2>1. p # q
    BY <1>2 DEF ForkInto
  <2>2. \A r \in Pids :
          /\ r \notin {p, q} => pc'[r] = pc[r]
          /\ connection_fd'[r] = IF r = q THEN connection_fd[p]
                                 ELSE connection_fd[r]
    BY <1>2, <2>1 DEF ForkInto, TypeOK
  <2>3. \/ pc[p] = "main" /\ pc'[p] = "bind" /\ pc'[q] = "init_child"
        \/ pc[p] = "fork" /\ pc'[p] = "close" /\ pc'[q] = "dup_stdin"
    BY <1>2, <2>1 DEF ForkInto, TypeOK
  <2> QED BY <1>2, <2>2, <2>3 DEF Accepting
<1>3. ASSUME NEW p \in Pids, NEW status \in ExitPC, Exit(p, status),
             UNCHANGED listener
      PROVE  Accepting'
  <2>1. /\ pc'[p] = status
        /\ \A r \in Pids \ {p} : /\ pc'[r] = pc[r]
                                 /\ connection_fd'[r] = connection_fd[r]
    BY <1>3 DEF Exit, Goto, TypeOK
  <2> QED BY <1>3, <2>1 DEF Accepting
<1>4. ASSUME NEW p \in Pids, Daemonize(p)
      PROVE  Accepting'
  BY <1>1, <1>2, <1>4 DEF Daemonize, ForkFails, Goto, TypeOK, fdVars
<1>5. ASSUME NEW p \in Pids, InitChildExit(p) \/ SocketUnsupported(p)
      PROVE  Accepting'
  BY <1>3, <1>5 DEF InitChildExit, SocketUnsupported
<1>6. ASSUME NEW p \in Pids, Bind(p) \/ Listen(p)
      PROVE  Accepting'
  <2>1. \A r \in Pids : pc[r] \notin LoopPC \cup ChildPC
    BY <1>6 DEF Bind, Listen, OneHead, Active
  <2>2. \A r \in Pids : pc'[r] \in LoopPC \cup ChildPC => Listen(p) /\ pc'[r] = "accept"
    BY <1>6, <2>1 DEF Bind, Listen, Goto, TypeOK
  <2>3. Listen(p) => listener' \in {"listening", "elsewhere"}
    BY DEF Listen
  <2> QED BY <2>2, <2>3 DEF Accepting
<1>7. ASSUME NEW p \in Pids, AcceptConnection(p)
      PROVE  Accepting'
  <2>1. Head(queue) \in Clients
    BY <1>7 DEF AcceptConnection, TypeOK
  <2> DEFINE h == Head(queue)
  <2>2. /\ connection_fd' = [connection_fd EXCEPT ![p] = h]
        /\ pc' = [pc EXCEPT ![p] = "fork"]
        /\ pc[p] = "accept" /\ UNCHANGED listener
    BY <1>7 DEF AcceptConnection, Goto
  <2> HIDE DEF h
  <2> QED BY <2>1, <2>2 DEF Accepting, TypeOK, h
<1>8. ASSUME NEW p \in Pids, AcceptFails(p)
      PROVE  Accepting'
  BY <1>8 DEF AcceptFails, Accepting
<1>9. ASSUME NEW p \in Pids, Fork(p)
      PROVE  Accepting'
  BY <1>1, <1>2, <1>9 DEF Fork, ForkFails, Goto, TypeOK, fdVars
<1>10. ASSUME NEW p \in Pids, Close(p)
       PROVE  Accepting'
  BY <1>1, <1>10 DEF Close, Goto, TypeOK
<1>11. ASSUME NEW p \in Pids, Wait(p)
       PROVE  Accepting'
  BY <1>1, <1>11 DEF Wait, Goto, Children, TypeOK, fdVars
<1>12. ASSUME NEW p \in Pids, ChildStep(p)
       PROVE  Accepting'
  BY <1>1, <1>12
     DEF ChildStep, DupStdin, DupStdout, Exec, ExecFails, Goto, TypeOK, fdVars
<1>13. ASSUME NEW p \in Pids, CatConnection(p) \/ CatConsole(p)
       PROVE  Accepting'
  BY <1>3, <1>13 DEF CatConnection, CatConsole
<1>14. CASE UNCHANGED <<pc, connection_fd, listener>>
  BY <1>14 DEF Accepting
<1> QED
  BY <1>4, <1>5, <1>6, <1>7, <1>8, <1>9, <1>10, <1>11, <1>12, <1>13, <1>14
     DEF Next, Startup, ServerStep, Connect, Shut, Leave, vars, procVars,
         fdVars

\* A CGI program that is executed reads and answers the one connection that
\* accept() returned, if accept() and listen() do not fail; that bind(), fork()
\* or an execle() before fails does not matter.
THEOREM WiredToConnectionTheorem ==
  ASSUME "accept" \notin Faults, "listen" \notin Faults
  PROVE  Spec => []WiredToConnection
<1>1. Init => Accepting
  BY DEF Init, Accepting, LoopPC, ChildPC
<1>2. TypeOK /\ OneHead /\ Accepting /\ [Next]_vars => Accepting'
  BY AcceptingStep
<1>3. Wiring /\ Accepting => WiredToConnection
  BY ProgramPoints DEF Wiring, Wired, Accepting, WiredToConnection, Refers
<1> QED
  BY <1>1, <1>2, <1>3, TypeCorrect, OneHeadInvariant, WiringInvariant, PTL
     DEF Spec

-----------------------------------------------------------------------------
(***************************************************************************)
(* The server whose execle() does not fail implements RequestService.      *)
(***************************************************************************)

\* The kernel's queue holds each client that waits, and holds it once.
LineInv ==
  /\ \A i \in 1 .. Len(queue) : client[queue[i]] = "queued"
  /\ \A i, j \in 1 .. Len(queue) : queue[i] = queue[j] => i = j

InitChild(p) == p # Launcher /\ pc[p] \in {"init_child", "exit1"}

\* Besides the launcher and its request child there is at most the child of
\* the start-up fork.
InitChildInv ==
  /\ \A p, q \in Pids : InitChild(p) /\ InitChild(q) => p = q
  /\ pc[Launcher] = "main" => \A p \in Pids \ {Launcher} : pc[p] = "none"

\* Between fork() and close() the launcher knows its request child, which has
\* answered the connection if it has terminated.
RequestInv ==
  pc[Launcher] = "close" =>
    IF pid[Launcher] = -1
    THEN "fork" \in Faults
    ELSE /\ pid[Launcher] \in Pids
         /\ pc[pid[Launcher]] \in RequestPC
         /\ /\ pc[pid[Launcher]] = "exit0"
            /\ connection_fd[Launcher] \in Clients
            => answered[connection_fd[Launcher]]

RefinementInv ==
  TypeOK /\ ServerInv /\ Wiring /\ LineInv /\ InitChildInv /\ RequestInv

-----------------------------------------------------------------------------
LEMMA LineStep ==
  ASSUME TypeOK, LineInv, [Next]_vars
  PROVE  LineInv'
<1>1. ASSUME NEW p \in Pids, AcceptConnection(p)
      PROVE  LineInv'
  <2>1. /\ queue \in Seq(Clients) /\ queue # <<>> /\ queue' = Tail(queue)
        /\ client' = [client EXCEPT ![queue[1]] = "accepted"]
    BY <1>1 DEF AcceptConnection, TypeOK
  <2>2. /\ Len(queue') = Len(queue) - 1 /\ Len(queue) \in Nat \ {0}
        /\ \A i \in 1 .. Len(queue') : queue'[i] = queue[i + 1]
    BY <2>1
  <2>3. \A i \in 1 .. Len(queue') :
          queue[i + 1] # queue[1] /\ client[queue[i + 1]] = "queued"
    BY <2>2 DEF LineInv
  <2>4. \A i \in 1 .. Len(queue') : client'[queue'[i]] = "queued"
    BY <2>1, <2>2, <2>3 DEF TypeOK
  <2>5. \A i, j \in 1 .. Len(queue') : queue'[i] = queue'[j] => i = j
    BY <2>2 DEF LineInv
  <2> QED BY <2>4, <2>5 DEF LineInv
<1>2. ASSUME NEW c \in Clients, Connect(c)
      PROVE  LineInv'
  <2>1. /\ queue \in Seq(Clients) /\ queue' = Append(queue, c)
        /\ client[c] = "idle"
        /\ client' = [client EXCEPT ![c] = "queued"]
    BY <1>2 DEF Connect, TypeOK
  <2>2. /\ Len(queue') = Len(queue) + 1 /\ Len(queue) \in Nat
        /\ queue'[Len(queue) + 1] = c
        /\ \A i \in 1 .. Len(queue) : queue'[i] = queue[i]
    BY <2>1
  <2>3. \A i \in 1 .. Len(queue) :
          queue[i] # c /\ client[queue[i]] = "queued"
    BY <2>1 DEF LineInv
  <2>4. \A i \in 1 .. Len(queue') : client'[queue'[i]] = "queued"
    BY <2>1, <2>2, <2>3 DEF TypeOK
  <2>5. \A i, j \in 1 .. Len(queue') : queue'[i] = queue'[j] => i = j
    BY <2>2, <2>3 DEF LineInv
  <2> QED BY <2>4, <2>5 DEF LineInv
<1>3. ASSUME NEW c \in Clients, Leave(c)
      PROVE  LineInv'
  BY <1>3 DEF Leave, LineInv, TypeOK
<1>4. CASE UNCHANGED <<queue, client>>
  BY <1>4 DEF LineInv
<1>5. ASSUME NEW p \in Pids,
             Startup(p) \/ ServerStep(p) \/ ChildStep(p)
      PROVE  AcceptConnection(p) \/ UNCHANGED <<queue, client>>
  BY <1>5
     DEF Startup, ServerStep, ChildStep, Daemonize, InitChildExit,
         SocketUnsupported, Bind, Listen, AcceptFails, Fork, Close, Wait,
         DupStdin, DupStdout, Exec, ExecFails, netVars
<1> QED
  BY <1>1, <1>2, <1>3, <1>4, <1>5
     DEF Next, CatConnection, CatConsole, Shut, vars, netVars

\* Only the start-up fork makes a process that is no request child.
LEMMA InitChildStep ==
  ASSUME TypeOK, ServerInv, InitChildInv, "exec" \notin Faults, [Next]_vars
  PROVE  InitChildInv'
<1> USE Constants
<1>1. ASSUME NEW p \in Pids, Daemonize(p)
      PROVE  InitChildInv'
  <2>1. p = Launcher /\ pc[Launcher] = "main"
    BY <1>1, WhoSteps DEF Daemonize
  <2>2. \A q \in Pids \ {Launcher} : pc[q] = "none"
    BY <2>1 DEF InitChildInv
  <2>3. ASSUME NEW q \in Pids, ForkInto(p, q, "bind", "init_child")
        PROVE  InitChildInv'
    <3>1. q # p
      BY <2>3, <2>1 DEF ForkInto
    <3>2. \A r \in Pids : pc'[r] = IF r = p THEN "bind"
                                   ELSE IF r = q THEN "init_child" ELSE pc[r]
      BY <2>3, <3>1 DEF ForkInto, TypeOK
    <3> QED BY <2>1, <2>2, <3>2 DEF InitChildInv, InitChild
  <2>4. CASE Goto(p, "bind")
    <3>1. \A r \in Pids : pc'[r] = IF r = p THEN "bind" ELSE pc[r]
      BY <2>4 DEF Goto, TypeOK
    <3> QED BY <2>1, <2>2, <3>1 DEF InitChildInv, InitChild
  <2> QED BY <1>1, <2>3, <2>4 DEF Daemonize, ForkFails
<1>2. ASSUME \A r \in Pids : InitChild(r)' => InitChild(r),
             pc'[Launcher] # "main"
      PROVE  InitChildInv'
  BY <1>2 DEF InitChildInv
<1>3. ASSUME NEW p \in Pids, InitChildExit(p)
      PROVE  InitChildInv'
  <2>1. \A r \in Pids : pc'[r] = IF r = p THEN "exit1" ELSE pc[r]
    BY <1>3 DEF InitChildExit, Exit, Goto, TypeOK
  <2>2. pc[p] = "init_child"
    BY <1>3 DEF InitChildExit
  <2> QED BY <2>1, <2>2 DEF InitChildInv, InitChild
<1>4. ASSUME NEW p \in Pids,
             SocketUnsupported(p) \/ Bind(p) \/ Listen(p) \/ ServerStep(p)
      PROVE  InitChildInv'
  <2>1. p = Launcher /\ pc[p] # "main"
    BY <1>4, WhoSteps
       DEF SocketUnsupported, Bind, Listen, ServerStep, AcceptConnection,
           AcceptFails, Fork, Close, Wait
  <2>2. CASE \E q \in Pids : ForkInto(p, q, "close", "dup_stdin")
    <3> PICK q \in Pids : ForkInto(p, q, "close", "dup_stdin")
      BY <2>2
    <3>1. \A r \in Pids :
            \/ pc'[r] = pc[r]
            \/ r = p /\ pc'[r] \in {"close", "dup_stdin"}
            \/ r = q /\ pc'[r] = "dup_stdin"
      BY DEF ForkInto, TypeOK
    <3> QED BY <1>2, <2>1, <3>1 DEF InitChild
  <2>3. CASE \A r \in Pids :
               \/ pc'[r] = pc[r]
               \/ r = p /\ pc'[r] # "main"
               \/ r # p /\ pc'[r] = "none"
    BY <1>2, <2>1, <2>3 DEF InitChild
  <2> QED
    BY <1>4, <2>2, <2>3
       DEF SocketUnsupported, Bind, Listen, ServerStep, AcceptConnection,
           AcceptFails, Fork, Close, Wait, Goto, Exit, ForkFails, Children,
           TypeOK
<1>5. ASSUME NEW p \in Pids,
             ChildStep(p) \/ CatConnection(p) \/ CatConsole(p)
      PROVE  InitChildInv'
  <2>1. p # Launcher
    BY <1>5, WhoSteps
       DEF ChildStep, DupStdin, DupStdout, Exec, ExecFails, CatConnection,
           CatConsole
  <2>2. pc[Launcher] # "main"
    BY <1>5, WhoSteps
       DEF ChildStep, DupStdin, DupStdout, Exec, ExecFails, CatConnection,
           CatConsole, RequestChild
  <2>3. \A r \in Pids : \/ pc'[r] = pc[r]
                        \/ r = p /\ pc'[r] \in RequestPC
    BY <1>5, ProgramPoints
       DEF ChildStep, DupStdin, DupStdout, Exec, ExecFails, CatConnection,
           CatConsole, Exit, Goto, TypeOK
  <2> QED BY <1>2, <2>1, <2>2, <2>3, ProgramPoints DEF InitChild
<1>6. CASE UNCHANGED pc
  BY <1>6 DEF InitChildInv, InitChild
<1> QED
  BY <1>1, <1>3, <1>4, <1>5, <1>6
     DEF Next, Startup, Connect, Shut, Leave, vars, procVars

\* A fork() that does not fail by a fault finds a process id: of two besides
\* the launcher's, the child of the start-up fork has at most one.
LEMMA ForkFindsPid ==
  ASSUME TypeOK, ServerInv, InitChildInv, pc[Launcher] = "fork",
         \E p, q \in Pids \ {Launcher} : p # q
  PROVE  \E p \in Pids : pc[p] = "none"
<1> PICK p \in Pids \ {Launcher}, q \in Pids \ {Launcher} : p # q
  OBVIOUS
<1>1. ~InitChild(p) \/ ~InitChild(q)
  BY DEF InitChildInv
<1>2. \A r \in Pids \ {Launcher} : pc[r] # "none" => InitChild(r)
  BY NoRequestChild
     DEF TypeOK, PC, ServerInv, SoleAcceptor, RequestPC, ExitPC, InitChild
<1> QED BY <1>1, <1>2

\* The request child that terminates has answered its connection, and the
\* connection cannot end before the launcher's close().
LEMMA RequestStep ==
  ASSUME RefinementInv, "exec" \notin Faults,
         \E p, q \in Pids \ {Launcher} : p # q,
         [Next]_vars
  PROVE  RequestInv'
<1> USE Constants
<1>t. TypeOK /\ ServerInv
  BY DEF RefinementInv
<1>1. CASE pc'[Launcher] # "close"
  BY <1>1 DEF RequestInv
<1>2. ASSUME NEW p \in Pids, Fork(p)
      PROVE  RequestInv'
  <2>1. p = Launcher /\ pc[Launcher] = "fork"
    BY <1>2, <1>t, WhoSteps DEF Fork
  <2>2. ASSUME NEW q \in Pids, ForkInto(p, q, "close", "dup_stdin")
        PROVE  RequestInv'
    <3>1. q # Launcher
      BY <2>1, <2>2 DEF ForkInto
    <3>2. pid'[Launcher] = q /\ pc'[q] = "dup_stdin"
      BY <1>t, <2>1, <2>2, <3>1 DEF ForkInto, TypeOK
    <3> QED BY <3>2, ProgramPoints DEF RequestInv
  <2>3. CASE ForkFails(p, "close")
    <3>1. "fork" \in Faults
      BY <2>1, <2>3, ForkFindsPid DEF ForkFails, RefinementInv
    <3>2. pid'[Launcher] = -1
      BY <1>t, <2>1, <2>3 DEF ForkFails, TypeOK
    <3> QED BY <3>1, <3>2 DEF RequestInv
  <2> QED BY <1>2, <2>2, <2>3 DEF Fork
<1>3. ASSUME NEW p \in Pids, ChildStep(p), pc[Launcher] = "close"
      PROVE  RequestInv'
  <2>1. p # Launcher /\ pid[Launcher] = p
    BY <1>t, <1>3, WhoSteps
       DEF ChildStep, DupStdin, DupStdout, Exec, ExecFails, RequestChild
  <2>2. pid'[Launcher] = p /\ pc'[p] \in ChildPC
    BY <1>t, <1>3, <2>1, ProgramPoints
       DEF ChildStep, DupStdin, DupStdout, Exec, ExecFails, Goto, TypeOK
  <2> QED BY <2>2, ProgramPoints DEF RequestInv
<1>4. ASSUME NEW p \in Pids, CatConnection(p) \/ CatConsole(p),
             pc[Launcher] = "close"
      PROVE  RequestInv'
  <2>1. pc[p] = "cat" /\ p # Launcher /\ pid[Launcher] = p
    BY <1>t, <1>4, WhoSteps DEF CatConnection, CatConsole, RequestChild
  <2>2. /\ pid'[Launcher] = p /\ pc'[p] = "exit0"
        /\ connection_fd'[Launcher] = connection_fd[Launcher]
    BY <1>t, <1>4, <2>1 DEF CatConnection, CatConsole, Exit, Goto, TypeOK
  <2>3. connection_fd[p] = connection_fd[Launcher]
    BY <1>t, <2>1, ProgramPoints DEF ServerInv
  <2>4. ASSUME connection_fd[p] \in Clients
        PROVE  answered'[connection_fd[p]]
    <3>1. stdin[p] = connection_fd[p] /\ stdout[p] = connection_fd[p]
      BY <2>1, <2>4 DEF RefinementInv, Wiring, Wired
    <3> QED
      BY <1>t, <1>4, <2>4, <3>1 DEF CatConnection, CatConsole, TypeOK
  <2> QED BY <2>1, <2>2, <2>3, <2>4, ProgramPoints DEF RequestInv
<1>5. ASSUME NEW p \in Pids, InitChildExit(p), pc[Launcher] = "close"
      PROVE  RequestInv'
  <2>1. /\ \A r \in Pids : pc'[r] = IF r = p THEN "exit1" ELSE pc[r]
        /\ p # Launcher
        /\ connection_fd'[Launcher] = connection_fd[Launcher]
        /\ UNCHANGED <<pid, answered>>
        /\ pc[p] = "init_child"
    BY <1>t, <1>5 DEF InitChildExit, Exit, Goto, TypeOK, netVars
  <2> QED BY <1>5, <2>1, ProgramPoints DEF RefinementInv, RequestInv
<1>6. ASSUME NEW c \in Clients, Leave(c), pc[Launcher] = "close"
      PROVE  RequestInv'
  <2>1. connection_fd[Launcher] # c
    BY <1>6 DEF RefinementInv, Wiring, Wired, Leave, Held, Refers
  <2> QED
    BY <1>6, <2>1, <1>t
       DEF RefinementInv, RequestInv, Leave, procVars, fdVars, TypeOK
<1>7. CASE UNCHANGED <<pc, pid, connection_fd, answered>>
  BY <1>7 DEF RefinementInv, RequestInv
<1>8. ASSUME NEW p \in Pids,
             \/ Daemonize(p) \/ SocketUnsupported(p) \/ Bind(p) \/ Listen(p)
             \/ AcceptConnection(p) \/ AcceptFails(p) \/ Close(p) \/ Wait(p)
      PROVE  pc'[Launcher] # "close"
  <2>1. p = Launcher
    BY <1>t, <1>8, WhoSteps
       DEF Daemonize, SocketUnsupported, Bind, Listen, AcceptConnection,
           AcceptFails, Close, Wait
  <2>2. \A q \in Pids : ForkInto(p, q, "bind", "init_child") => q # p
    BY <1>8, <2>1 DEF ForkInto, Daemonize, SocketUnsupported, Bind, Listen,
           AcceptConnection, AcceptFails, Close, Wait
  <2> QED
    BY <1>t, <1>8, <2>1, <2>2
       DEF Daemonize, SocketUnsupported, Bind, Listen, AcceptConnection,
           AcceptFails, Close, Wait, ForkInto, ForkFails, Exit, Goto,
           Children, TypeOK
<1>9. ASSUME NEW p \in Pids, \/ InitChildExit(p) \/ ChildStep(p)
                             \/ CatConnection(p) \/ CatConsole(p)
      PROVE  pc'[Launcher] = "close" => pc[Launcher] = "close"
  BY <1>t, <1>9
     DEF InitChildExit, ChildStep, DupStdin, DupStdout, Exec, ExecFails,
         CatConnection, CatConsole, Exit, Goto, TypeOK
<1>10. ASSUME NEW c \in Clients, Leave(c)
       PROVE  pc'[Launcher] = pc[Launcher]
  BY <1>10 DEF Leave, procVars
<1> QED
  BY <1>1, <1>2, <1>3, <1>4, <1>5, <1>6, <1>7, <1>8, <1>9, <1>10
     DEF Next, Startup, ServerStep, Connect, Shut, vars, procVars, fdVars,
         netVars

\* The inductive invariant of the refinement (scgi_server.c, 62 to 139).
THEOREM RefinementInvariant ==
  ASSUME "exec" \notin Faults,
         \E p, q \in Pids \ {Launcher} : p # q
  PROVE  Spec => []RefinementInv
<1>1. Init => LineInv /\ InitChildInv /\ RequestInv
  BY Constants DEF Init, LineInv, InitChildInv, InitChild, RequestInv
<1>2. RefinementInv /\ [Next]_vars => LineInv' /\ InitChildInv' /\ RequestInv'
  BY LineStep, InitChildStep, RequestStep DEF RefinementInv
<1> QED
  BY <1>1, <1>2, TypeCorrect, ServerInvariant, WiringInvariant, PTL
     DEF Spec, RefinementInv

-----------------------------------------------------------------------------
\* What the mapping makes of the server's state.

\* Only the connection of the launcher's connection_fd is in service.
LEMMA ServesOne ==
  ASSUME ServerInv
  PROVE  /\ InService \subseteq {connection_fd[Launcher]}
         /\ \A c \in InService : ServedClient = c
<1>1. \A c \in InService : c = connection_fd[Launcher]
  BY DEF ServerInv, InService, Held, MayRefer
<1> QED BY <1>1 DEF ServedClient

\* Descriptors that come and go while somebody holds the connection, and the
\* answer until nobody does, are not seen.
LEMMA NotSeen ==
  ASSUME UNCHANGED <<queue, client>>,
         \A c \in Clients : Held(c)' <=> Held(c),
         \A c \in Clients : answered'[c] = answered[c] \/ c \in InService
  PROVE  UNCHANGED Service!serviceVars
<1>1. InService' = InService
  BY DEF InService
<1>2. ServedClient' = ServedClient
  BY <1>1 DEF ServedClient
<1>3. ClientOutcome' = ClientOutcome
  <2>1. \A c \in Clients : ClientOutcome'[c] = ClientOutcome[c]
    BY <1>1 DEF ClientOutcome
  <2> QED BY <2>1 DEF ClientOutcome
<1> QED BY <1>2, <1>3 DEF Service!serviceVars

\* The last descriptor of the connection is closed.
LEMMA LastClosed ==
  ASSUME RefinementInv, ServerInv', NEW c \in InService,
         UNCHANGED <<queue, client>>,
         \A d \in Clients : Held(d)' <=> Held(d) /\ d # c,
         \A d \in Clients \ {c} : answered'[d] = answered[d],
         answered'[c] \/ "fork" \in Faults
  PROVE  Service!Finish
<1>1. c \in Clients /\ client[c] = "accepted"
  BY DEF InService
<1>2. InService' = {} /\ \A d \in Clients \ {c} : d \notin InService
  BY ServesOne DEF InService, RefinementInv
<1>3. ServedClient = c /\ ServedClient' = NoConn
  BY <1>2, ServesOne DEF ServedClient, RefinementInv
<1> DEFINE r == IF answered'[c] THEN "done" ELSE "dropped"
<1>4. ClientOutcome' = [ClientOutcome EXCEPT ![c] = r]
  <2>1. \A d \in Clients \ {c} : ClientOutcome'[d] = ClientOutcome[d]
    BY <1>2 DEF ClientOutcome
  <2>2. ClientOutcome'[c] = r
    <3>1. c \notin InService' /\ client'[c] = "accepted"
      BY <1>1, <1>2, Zenon
    <3> HIDE DEF r
    <3>2. client'[c] # "idle" /\ client'[c] # "queued"
      BY <3>1
    <3> QED BY <1>1, <3>1, <3>2 DEF ClientOutcome, r
  <2>3. /\ ClientOutcome = [d \in Clients |-> ClientOutcome[d]]
        /\ ClientOutcome' = [d \in Clients |-> ClientOutcome'[d]]
    BY DEF ClientOutcome
  <2> HIDE DEF r
  <2> QED BY <1>1, <2>1, <2>2, <2>3
<1>5. r \in {"done"} \cup (IF "fork" \in Faults THEN {"dropped"} ELSE {})
  OBVIOUS
<1> HIDE DEF r
<1> QED BY <1>1, <1>3, <1>4, <1>5, Constants DEF Service!Finish

-----------------------------------------------------------------------------
\* The steps that are not stuttering steps of the service.

LEMMA ConnectArrives ==
  ASSUME RefinementInv, NEW c \in Clients, Connect(c)
  PROVE  Service!Arrive(c)
<1>1. /\ client[c] = "idle" /\ c \notin InService
      /\ \A d \in Clients : client'[d] = IF d = c THEN "queued" ELSE client[d]
      /\ UNCHANGED <<fdVars, answered>>
  BY DEF Connect, InService, RefinementInv, TypeOK
<1>2. \A d \in Clients : Held(d)' <=> Held(d)
  BY <1>1 DEF Held, Refers, fdVars
<1>3. InService' = InService
  BY <1>1, <1>2 DEF InService
<1>4. ServedClient' = ServedClient
  BY <1>3 DEF ServedClient
<1>5. ClientOutcome' = [ClientOutcome EXCEPT ![c] = "pending"]
  <2>1. \A d \in Clients \ {c} : ClientOutcome'[d] = ClientOutcome[d]
    BY <1>1, <1>3 DEF ClientOutcome
  <2>2. ClientOutcome'[c] = "pending"
    BY <1>1 DEF ClientOutcome
  <2> QED BY <2>1, <2>2 DEF ClientOutcome
<1>6. ClientOutcome[c] = "none"
  BY <1>1 DEF ClientOutcome
<1> QED BY <1>4, <1>5, <1>6 DEF Connect, Service!Arrive

LEMMA LeaveDeparts ==
  ASSUME RefinementInv, NEW c \in Clients, Leave(c)
  PROVE  Service!Depart(c)
<1>1. /\ client[c] = "accepted" /\ c \notin InService /\ ~Held(c)
      /\ \A d \in Clients \ {c} : /\ client'[d] = client[d]
                                  /\ answered'[d] = answered[d]
      /\ client'[c] = "idle"
      /\ UNCHANGED <<fdVars, queue>>
  BY DEF Leave, InService, RefinementInv, TypeOK
<1>2. \A d \in Clients : Held(d)' <=> Held(d)
  BY <1>1 DEF Held, Refers, fdVars
<1>3. InService' = InService
  BY <1>1, <1>2 DEF InService
<1>4. ServedClient' = ServedClient
  BY <1>3 DEF ServedClient
<1>5. ClientOutcome' = [ClientOutcome EXCEPT ![c] = "none"]
  <2>1. \A d \in Clients \ {c} : ClientOutcome'[d] = ClientOutcome[d]
    BY <1>1, <1>3 DEF ClientOutcome
  <2>2. ClientOutcome'[c] = "none"
    BY <1>1, <1>3 DEF ClientOutcome
  <2>3. /\ ClientOutcome = [d \in Clients |-> ClientOutcome[d]]
        /\ ClientOutcome' = [d \in Clients |-> ClientOutcome'[d]]
    BY DEF ClientOutcome
  <2> QED BY <2>1, <2>2, <2>3
<1>6. ClientOutcome[c] \in {"done", "dropped"}
  BY <1>1 DEF ClientOutcome
<1> QED BY <1>1, <1>4, <1>5, <1>6 DEF Service!Depart

LEMMA AcceptBegins ==
  ASSUME RefinementInv, ServerInv', NEW p \in Pids, AcceptConnection(p)
  PROVE  Service!Begin
<1> DEFINE h == Head(queue)
<1>1. p = Launcher /\ pc[Launcher] = "accept"
  BY WhoSteps DEF AcceptConnection, RefinementInv
<1>2. /\ h \in Clients /\ client[h] = "queued"
      /\ queue # <<>> /\ queue' = Tail(queue)
  BY DEF AcceptConnection, RefinementInv, TypeOK, LineInv
<1>3. /\ client' = [client EXCEPT ![h] = "accepted"]
      /\ opened' = [opened EXCEPT ![p] = @ \cup {h}]
      /\ UNCHANGED <<stdin, stdout, answered>>
  BY DEF AcceptConnection
<1> HIDE DEF h
<1>4. InService = {}
  BY <1>1, NothingRefers DEF InService, Held, RefinementInv
<1>5. h \in opened'[p] /\ client'[h] = "accepted"
  BY <1>2, <1>3 DEF RefinementInv, TypeOK
<1>6. InService' = {h}
  <2>1. h \in InService'
    BY <1>2, <1>5 DEF InService, Held, Refers
  <2> QED BY <2>1 DEF InService, Held, ServerInv, MayRefer
<1>7. ServedClient = NoConn /\ ServedClient' = h
  BY <1>4, <1>6 DEF ServedClient
<1>8. ClientOutcome' = ClientOutcome
  <2>1. \A d \in Clients \ {h} : ClientOutcome'[d] = ClientOutcome[d]
    BY <1>3, <1>4, <1>6 DEF ClientOutcome, RefinementInv, TypeOK
  <2>2. ClientOutcome'[h] = ClientOutcome[h]
    BY <1>2, <1>5, <1>6 DEF ClientOutcome
  <2> QED BY <1>2, <2>1, <2>2 DEF ClientOutcome
<1> QED BY <1>2, <1>7, <1>8 DEF Service!Begin, h

\* close() ends the request if its child has terminated or was never forked.
LEMMA CloseMayFinish ==
  ASSUME RefinementInv, ServerInv', NEW p \in Pids, Close(p)
  PROVE  Service!Finish \/ UNCHANGED Service!serviceVars
<1> USE Constants
<1>t. TypeOK /\ ServerInv /\ Wiring
  BY DEF RefinementInv
<1> PICK conn \in Clients \cup {NoConn} : conn = connection_fd[Launcher]
  BY <1>t DEF TypeOK
<1>1. p = Launcher /\ pc[Launcher] = "close"
  BY <1>t, WhoSteps DEF Close
<1>2. /\ UNCHANGED <<queue, client, answered, stdin, stdout>>
      /\ \A q \in Pids : opened'[q] = IF q = Launcher THEN opened[q] \ {conn}
                                      ELSE opened[q]
  BY <1>t, <1>1 DEF Close, netVars, TypeOK
<1>3. \A q \in Pids, c \in Clients :
        Refers(q, c)' <=> Refers(q, c) /\ ~(q = Launcher /\ c = conn)
  <2>1. \A c \in Clients : stdin[Launcher] # c /\ stdout[Launcher] # c
    BY <1>t DEF ServerInv
  <2> QED BY <1>2, <2>1 DEF Refers
<1>4. \A c \in Clients : c # conn => (Held(c)' <=> Held(c))
  BY <1>3 DEF Held
<1>5. CASE conn \notin Clients
  BY <1>2, <1>4, <1>5, NotSeen
<1>6. ASSUME conn \in Clients, NEW q \in Pids, pc[q] \in ChildPC
      PROVE  UNCHANGED Service!serviceVars
  <2>1. q # Launcher /\ conn \in opened[q]
    BY <1>t, <1>1, <1>6, ProgramPoints DEF ServerInv, Wiring, Wired
  <2>2. Held(conn)' /\ Held(conn)
    BY <1>3, <1>6, <2>1 DEF Held, Refers
  <2> QED BY <1>2, <1>4, <2>2, NotSeen
<1>7. ASSUME conn \in Clients, \A q \in Pids : pc[q] \notin ChildPC
      PROVE  Service!Finish
  <2>1. conn \in opened[Launcher]
    BY <1>t, <1>1, <1>7 DEF Wiring, Wired
  <2>2. conn \in InService
    BY <1>t, <1>7, <2>1 DEF InService, Held, Refers, Wiring
  <2>3. ~Held(conn)'
    BY <1>t, <1>3, <1>7 DEF Held, ServerInv, MayRefer
  <2>4. answered'[conn] \/ "fork" \in Faults
    BY <1>1, <1>2, <1>7 DEF RefinementInv, RequestInv, RequestPC
  <2> QED BY <1>2, <1>4, <2>2, <2>3, <2>4, LastClosed
<1> QED BY <1>5, <1>6, <1>7

\* The CGI program ends the request by its exit unless the launcher has still
\* to close the connection.
LEMMA CatMayFinish ==
  ASSUME RefinementInv, ServerInv', NEW p \in Pids,
         CatConnection(p) \/ CatConsole(p)
  PROVE  Service!Finish \/ UNCHANGED Service!serviceVars
<1> USE Constants
<1>t. TypeOK /\ ServerInv /\ Wiring
  BY DEF RefinementInv
<1> PICK conn \in Clients \cup {NoConn} : conn = connection_fd[Launcher]
  BY <1>t DEF TypeOK
<1>1. pc[p] = "cat" /\ Exit(p, "exit0")
  BY DEF CatConnection, CatConsole
<1>2. p # Launcher /\ RequestChild(p) /\ connection_fd[p] = conn
  BY <1>t, <1>1, WhoSteps, ProgramPoints DEF ServerInv
<1>3. UNCHANGED <<queue, client>>
  BY DEF CatConnection, CatConsole, netVars
<1>4. \A q \in Pids, c \in Clients : Refers(q, c)' <=> Refers(q, c) /\ q # p
  BY <1>t, <1>1 DEF Exit, Refers, TypeOK
<1>5. \A c \in Clients : Held(c) => c = conn
  BY <1>t DEF Held, ServerInv, MayRefer
<1>6. conn \in Clients <=> CatConnection(p)
  BY <1>t, <1>1, <1>2
     DEF Wiring, Wired, CatConnection, CatConsole, ServerInv, MayRefer, Refers
<1>7. CASE conn \notin Clients
  <2>1. \A c \in Clients : ~Held(c) /\ ~Held(c)'
    BY <1>4, <1>5, <1>7 DEF Held
  <2>2. UNCHANGED answered
    BY <1>6, <1>7 DEF CatConsole, netVars
  <2> QED BY <1>3, <2>1, <2>2, NotSeen
<1>8. CASE conn \in Clients
  <2>1. stdin[p] = conn /\ stdout[p] = conn
    BY <1>t, <1>1, <1>2, <1>8 DEF Wiring, Wired
  <2>2. answered'[conn] /\ \A c \in Clients \ {conn} : answered'[c] = answered[c]
    BY <1>t, <1>6, <1>8, <2>1 DEF CatConnection, TypeOK
  <2>3. conn \in InService
    BY <1>t, <1>8, <2>1 DEF Wiring, InService, Held, Refers
  <2>4. CASE pc[Launcher] = "close"
    <3>1. conn \in opened[Launcher]
      BY <1>t, <1>8, <2>4 DEF Wiring, Wired
    <3>2. Held(conn)' /\ Held(conn)
      BY <1>2, <1>4, <1>8, <3>1 DEF Held, Refers
    <3>3. \A c \in Clients : Held(c)' <=> Held(c)
      BY <1>4, <1>5, <3>2 DEF Held
    <3> QED BY <1>3, <2>2, <2>3, <3>3, NotSeen
  <2>5. CASE pc[Launcher] = "wait"
    <3>1. \A q \in Pids : pc[q] \in ChildPC => q = p
      BY <1>t, <1>2 DEF ServerInv, RequestPC, RequestChild
    <3>2. \A c \in Clients : ~Held(c)'
      BY <1>t, <1>4, <2>5, <3>1 DEF Held, ServerInv, MayRefer
    <3> QED BY <1>3, <1>5, <2>2, <2>3, <3>2, LastClosed
  <2> QED BY <1>2, <2>4, <2>5 DEF RequestChild
<1> QED BY <1>7, <1>8

\* Every other step leaves what is held as it is.
LEMMA StepNotSeen ==
  ASSUME RefinementInv, NEW p \in Pids,
         \/ Startup(p) \/ AcceptFails(p) \/ Fork(p) \/ Wait(p) \/ ChildStep(p)
  PROVE  UNCHANGED Service!serviceVars
<1> USE Constants
<1>t. TypeOK /\ ServerInv /\ Wiring
  BY DEF RefinementInv
<1>1. UNCHANGED <<queue, client, answered>>
  BY DEF Startup, Daemonize, InitChildExit, SocketUnsupported, Bind, Listen,
         AcceptFails, Fork, Wait, ChildStep, DupStdin, DupStdout, Exec,
         ExecFails, netVars
<1>2. ASSUME NEW q \in Pids, NEW l \in PC, NEW m \in PC, ForkInto(p, q, l, m)
      PROVE  \A c \in Clients : Held(c)' <=> Held(c)
  <2>1. pc[q] = "none" /\ pc[p] # "none"
    BY <1>2 DEF ForkInto, Startup, Daemonize, InitChildExit,
         SocketUnsupported, Bind, Listen, AcceptFails, Fork, Wait, ChildStep,
         DupStdin, DupStdout, Exec, ExecFails
  <2>2. \A c \in Clients : ~Refers(q, c)
    BY <1>t, <2>1, ProgramPoints DEF ServerInv, MayRefer
  <2>3. \A c \in Clients :
          /\ Refers(q, c)' <=> Refers(p, c)
          /\ \A r \in Pids \ {q} : Refers(r, c)' <=> Refers(r, c)
    BY <1>t, <1>2, <2>1 DEF ForkInto, Refers, TypeOK
  <2> QED BY <2>1, <2>2, <2>3 DEF Held
<1>3. ASSUME UNCHANGED <<opened, stdin, stdout>>
      PROVE  \A c \in Clients : Held(c)' <=> Held(c)
  BY <1>3 DEF Held, Refers
<1>4. ASSUME NEW status \in ExitPC, Exit(p, status),
             pc[p] \in {"init_child", "bind"}
      PROVE  \A c \in Clients : Held(c)' <=> Held(c)
  <2>1. \A c \in Clients : ~Refers(p, c)
    BY <1>t, <1>4, ProgramPoints DEF ServerInv, MayRefer
  <2>2. \A c \in Clients :
          /\ ~Refers(p, c)'
          /\ \A r \in Pids \ {p} : Refers(r, c)' <=> Refers(r, c)
    BY <1>t, <1>4 DEF Exit, Refers, TypeOK
  <2> QED BY <2>1, <2>2 DEF Held
<1>5. ASSUME DupStdin(p) \/ DupStdout(p)
      PROVE  \A c \in Clients : Held(c)' <=> Held(c)
  <2>1. pc[p] \in ChildPC /\ opened' = opened
    BY <1>5, ProgramPoints DEF DupStdin, DupStdout
  <2>2. /\ connection_fd[p] = connection_fd[Launcher]
        /\ connection_fd[p] \in Clients => connection_fd[p] \in opened[p]
        /\ connection_fd[p] \in Clients \cup {NoConn}
    BY <1>t, <2>1 DEF ServerInv, Wiring, Wired, TypeOK
  <2>3. \A c \in Clients : Refers(p, c) => c = connection_fd[p]
    BY <1>t, <2>2 DEF ServerInv, MayRefer
  <2>4. \A c \in Clients :
          /\ Refers(p, c)' <=> Refers(p, c)
          /\ \A r \in Pids \ {p} : Refers(r, c)' <=> Refers(r, c)
    <3>1. CASE DupStdin(p)
      BY <1>t, <2>2, <2>3, <3>1 DEF DupStdin, Dup2Result, Refers, TypeOK
    <3>2. CASE DupStdout(p)
      BY <1>t, <2>2, <2>3, <3>2 DEF DupStdout, Dup2Result, Refers, TypeOK
    <3> QED BY <1>5, <3>1, <3>2
  <2> QED BY <2>4 DEF Held
<1>6. {"bind", "init_child", "close", "dup_stdin"} \subseteq PC
      /\ "exit1" \in ExitPC
  BY ProgramPoints DEF PC
<1>7. \A c \in Clients : Held(c)' <=> Held(c)
  BY <1>2, <1>3, <1>4, <1>5, <1>6
     DEF Startup, Daemonize, InitChildExit, SocketUnsupported, Bind, Listen,
         AcceptFails, Fork, ForkFails, Wait, ChildStep, Exec, ExecFails, fdVars
<1> QED BY <1>1, <1>7, NotSeen

-----------------------------------------------------------------------------
\* The server takes connections in the order they arrived and one at a time,
\* and ends none unanswered unless a fork() fails; whatever else fails, but
\* execle().  Two process ids besides the launcher's are what it needs for
\* the child of the start-up fork and the request child.
THEOREM ImplementsSafeServiceTheorem ==
  ASSUME "exec" \notin Faults,
         \E p, q \in Pids \ {Launcher} : p # q
  PROVE  Spec => ImplementsSafeService
<1>1. Init => Service!ServiceInit
  <2> SUFFICES ASSUME Init PROVE Service!ServiceInit
    OBVIOUS
  <2>1. InService = {}
    BY DEF Init, InService
  <2>2. \A c \in Clients : ClientOutcome[c] = "none"
    BY <2>1 DEF Init, ClientOutcome
  <2>3. ClientOutcome = [c \in Clients |-> "none"]
    BY <2>2 DEF ClientOutcome
  <2> QED BY <2>1, <2>3 DEF Service!ServiceInit, ServedClient, Init
<1>2. RefinementInv /\ RefinementInv' /\ [Next]_vars
        => [Service!ServiceNext]_Service!serviceVars
  <2> SUFFICES ASSUME RefinementInv, ServerInv', [Next]_vars
               PROVE  Service!ServiceNext \/ UNCHANGED Service!serviceVars
    BY DEF RefinementInv
  <2> USE DEF Service!ServiceNext
  <2>1. ASSUME NEW p \in Pids, Startup(p) \/ ServerStep(p) \/ ChildStep(p)
        PROVE  Service!ServiceNext \/ UNCHANGED Service!serviceVars
    BY <2>1, StepNotSeen, AcceptBegins, CloseMayFinish DEF ServerStep
  <2>2. ASSUME NEW p \in Pids, CatConnection(p) \/ CatConsole(p)
        PROVE  Service!ServiceNext \/ UNCHANGED Service!serviceVars
    BY <2>2, CatMayFinish
  <2>3. ASSUME NEW c \in Clients, Connect(c) \/ Leave(c)
        PROVE  Service!ServiceNext
    BY <2>3, ConnectArrives, LeaveDeparts
  <2>4. CASE UNCHANGED <<fdVars, queue, client, answered>>
    <3>1. \A c \in Clients : Held(c)' <=> Held(c)
      BY <2>4 DEF Held, Refers, fdVars
    <3> QED BY <2>4, <3>1, NotSeen
  <2>5. ASSUME NEW c \in Clients, Shut(c)
        PROVE  UNCHANGED <<fdVars, queue, client, answered>>
    BY <2>5 DEF Shut
  <2> QED BY <2>1, <2>2, <2>3, <2>4, <2>5 DEF Next, vars, netVars
<1> QED
  BY <1>1, <1>2, RefinementInvariant, PTL
     DEF Spec, ImplementsSafeService, Service!SafeServiceSpec
=============================================================================
