---------------------------- MODULE SingleFlight ----------------------------
(***************************************************************************)
(* What the leases of the system promise: a job is worked on by one agent  *)
(* at a time, an agent gives it up with an outcome or without one, and an   *)
(* outcome stays until a request reopens the job, or, if it is a failure,   *)
(* until an agent tries again.  A job whose work is disturbed while it is   *)
(* held is promised nothing from then on.                                  *)
(***************************************************************************)
EXTENDS Naturals

CONSTANTS Jobs, Agents, Outcomes, Failures, Nobody

VARIABLES holder, outcome, asked

NoOutcome == "open"
Disturbed == "disturbed"

Init ==
  /\ holder = [j \in Jobs |-> Nobody]
  /\ outcome = [j \in Jobs |-> NoOutcome]
  /\ asked = 0

\* A job that nobody holds and that is open, or has failed, is taken.
Acquire(a, j) ==
  /\ holder[j] = Nobody /\ outcome[j] \in Failures \cup {NoOutcome}
  /\ holder' = [holder EXCEPT ![j] = a]
  /\ outcome' = [outcome EXCEPT ![j] = NoOutcome]
  /\ UNCHANGED asked

\* Its holder lets go of it: finished, or left open for another agent.
LetGo(a, j) ==
  /\ holder[j] = a
  /\ holder' = [holder EXCEPT ![j] = Nobody]
  /\ \E o \in Outcomes \cup {NoOutcome} : outcome' = [outcome EXCEPT ![j] = o]
  /\ UNCHANGED asked

\* Jobs that are open and that nobody holds are given up.
GiveUp(S) ==
  /\ \A j \in S : holder[j] = Nobody /\ outcome[j] = NoOutcome
  /\ \E o \in Failures : outcome' = [j \in Jobs |-> IF j \in S THEN o ELSE outcome[j]]
  /\ UNCHANGED <<holder, asked>>

\* A request, which may reopen a job that nobody holds.
Ask ==
  /\ asked' = asked + 1
  /\ \/ UNCHANGED outcome
     \/ \E j \in Jobs : /\ holder[j] = Nobody /\ outcome[j] # Disturbed
                         /\ outcome' = [outcome EXCEPT ![j] = NoOutcome]
  /\ UNCHANGED holder

\* A job is reset, or taken, while an agent holds it.
Disturb(j) ==
  /\ holder[j] # Nobody
  /\ holder' = [holder EXCEPT ![j] = Nobody]
  /\ outcome' = [outcome EXCEPT ![j] = Disturbed]
  /\ asked' \in {asked, asked + 1}

Next ==
  \/ \E a \in Agents : \E j \in Jobs : Acquire(a, j) \/ LetGo(a, j)
  \/ \E S \in SUBSET Jobs : GiveUp(S)
  \/ Ask \/ \E j \in Jobs : Disturb(j)

Spec == Init /\ [][Next]_<<holder, outcome, asked>>
=============================================================================
