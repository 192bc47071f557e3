--------------------------- MODULE RequestService ---------------------------
(***************************************************************************)
(* What the accept-fork server promises its clients, without processes or  *)
(* descriptors: connections are taken in the order they arrived, one at a  *)
(* time, and a connection that was taken ends answered.  A service that is *)
(* allowed to drop may also end it unanswered.                             *)
(***************************************************************************)
EXTENDS Naturals, Sequences

CONSTANTS Customers,  \* who asks for service
          Nobody,     \* no customer: not one of Customers
          MayDrop     \* whether a request may end without an answer

VARIABLES waiting,    \* customers in line, the oldest first
          serving,    \* the customer being served, or Nobody
          outcome     \* outcome[c]: what became of c's last request

serviceVars == <<waiting, serving, outcome>>

ServiceInit ==
  /\ waiting = <<>>
  /\ serving = Nobody
  /\ outcome = [c \in Customers |-> "none"]

Arrive(c) ==
  /\ outcome[c] = "none"
  /\ waiting' = Append(waiting, c)
  /\ outcome' = [outcome EXCEPT ![c] = "pending"]
  /\ UNCHANGED serving

Begin ==
  /\ serving = Nobody
  /\ waiting # <<>>
  /\ serving' = Head(waiting)
  /\ waiting' = Tail(waiting)
  /\ UNCHANGED outcome

Finish ==
  /\ serving # Nobody
  /\ serving' = Nobody
  /\ \E r \in {"done"} \cup (IF MayDrop THEN {"dropped"} ELSE {}) :
       outcome' = [outcome EXCEPT ![serving] = r]
  /\ UNCHANGED waiting

Depart(c) ==
  /\ outcome[c] \in {"done", "dropped"}
  /\ outcome' = [outcome EXCEPT ![c] = "none"]
  /\ UNCHANGED <<waiting, serving>>

ServiceNext ==
  Begin \/ Finish \/ \E c \in Customers : Arrive(c) \/ Depart(c)

\* Requests are taken and finished; nobody is made to arrive.
ServiceSpec ==
  /\ ServiceInit /\ [][ServiceNext]_serviceVars
  /\ WF_serviceVars(Begin) /\ WF_serviceVars(Finish)

SafeServiceSpec == ServiceInit /\ [][ServiceNext]_serviceVars
=============================================================================
