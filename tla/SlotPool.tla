------------------------------ MODULE SlotPool ------------------------------
(***************************************************************************)
(* What the export slots promise: an export is running or it is not, an    *)
(* account never runs two, and the server never runs more than Global.     *)
(***************************************************************************)
EXTENDS Naturals, FiniteSets

CONSTANTS
  Req,     \* requests
  Of,      \* the account of each
  Global   \* capacity of exportGlobalSem

VARIABLE running   \* the requests whose export is in progress

Init == running = {}

Start(r) ==
  /\ \A q \in running : Of[q] # Of[r]
  /\ Cardinality(running) < Global
  /\ running' = running \cup {r}

Finish(r) ==
  /\ r \in running
  /\ running' = running \ {r}

Next == \E r \in Req : Start(r) \/ Finish(r)

Spec == Init /\ [][Next]_running
=============================================================================
