---------------------------- MODULE GateContract ----------------------------
(***************************************************************************)
(* What the department promises the operator about each gate, without      *)
(* ticks, workers, queues or ledgers: a verdict may be given, changed and  *)
(* taken back while the gate is open; it is settled once, by the verdict   *)
(* that stands at that moment, and nothing changes after that.             *)
(***************************************************************************)
CONSTANTS
  Gates,
  NoVerdict

VARIABLES
  verdict,     \* the operator's verdict on each gate
  outcome      \* what became of the gate

contractVars == <<verdict, outcome>>

Verdicts == {"approve", "reject"}
Outcomes == {"open", "published", "abandoned"}

ContractInit ==
  /\ verdict = [g \in Gates |-> NoVerdict]
  /\ outcome = [g \in Gates |-> "open"]

\* The verdict on an open gate is given, changed or taken back.
Rule(g, v) ==
  /\ outcome[g] = "open"
  /\ verdict' = [verdict EXCEPT ![g] = v]
  /\ UNCHANGED outcome

\* The verdict is carried out.
Settle(g) ==
  /\ outcome[g] = "open"
  /\ \/ verdict[g] = "approve" /\ outcome' = [outcome EXCEPT ![g] = "published"]
     \/ verdict[g] = "reject"  /\ outcome' = [outcome EXCEPT ![g] = "abandoned"]
  /\ UNCHANGED verdict

ContractNext ==
  \E g \in Gates :
    \/ \E v \in Verdicts \cup {NoVerdict} : Rule(g, v)
    \/ Settle(g)

ContractSpec == ContractInit /\ [][ContractNext]_contractVars

-----------------------------------------------------------------------------
\* A gate is settled as the verdict says, ...
SettledByVerdict ==
  \A g \in Gates :
    /\ outcome[g] = "published" => verdict[g] = "approve"
    /\ outcome[g] = "abandoned" => verdict[g] = "reject"

\* ... and for good.
SettledForGood ==
  [][\A g \in Gates : outcome[g] # "open" =>
       outcome'[g] = outcome[g] /\ verdict'[g] = verdict[g]]_contractVars
=============================================================================
