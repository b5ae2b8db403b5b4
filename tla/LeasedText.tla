------------------------------ MODULE LeasedText ------------------------------
(***************************************************************************)
(* What the components that have a model write a text promise: the text of a *)
(* job is made from one version of its source by the agent that holds the    *)
(* job's lease.  Only its holder stores a text, once, and the text of the      *)
(* version the lease was taken for; nobody takes the lease while it runs, or   *)
(* only for another version.                                                 *)
(***************************************************************************)
CONSTANTS
  Jobs, Agents, Versions,
  Nothing,     \* the text of a job before the first
  TakesOver    \* whether a running lease may be taken for another version

VARIABLES
  leases,  \* the lease of each job: none, or whose it is and for which version
  text     \* the version each job's text was made from

Init ==
  /\ leases = [j \in Jobs |-> {}]
  /\ text = [j \in Jobs |-> Nothing]

Take(a, j, v) ==
  /\ \A lease \in leases[j] : TakesOver /\ lease.of # v
  /\ leases' = [leases EXCEPT ![j] = {[by |-> a, of |-> v]}]
  /\ UNCHANGED text

\* The lease ends with the text it was taken for.
Store(j) ==
  /\ \E lease \in leases[j] : text' = [text EXCEPT ![j] = lease.of]
  /\ leases' = [leases EXCEPT ![j] = {}]

\* It ends without one: the model fails, or its holder is gone.
Drop(j) ==
  /\ leases[j] # {}
  /\ leases' = [leases EXCEPT ![j] = {}]
  /\ UNCHANGED text

Next ==
  \E j \in Jobs :
    \/ \E a \in Agents : \E v \in Versions : Take(a, j, v)
    \/ Store(j) \/ Drop(j)

Spec == Init /\ [][Next]_<<leases, text>>
=============================================================================
