------------------------------- MODULE MCGates ------------------------------
(***************************************************************************)
(* Instances of RateLimiter, Registration and DomainLocks for TLC: what a  *)
(* request has to pass.  They share no variable, so a behaviour moves one  *)
(* of them and leaves the others in their initial states: nothing could    *)
(* come of interleaving their steps.                                       *)
(***************************************************************************)
EXTENDS RateLimiter, Registration, DomainLocks, TLC

\* Two bulk requests of one account; another account shares its table, which has
\* room for one, and an administrator is not limited.
BothOfU1 == "r1" :> "u1" @@ "r2" :> "u1"

\* Two instances, each with an administrator's address of its own.
OneEach == "c1" :> "e1" @@ "c2" :> "e2"

\* Two pages of one account on two domains with their own locks.
HostEach == [n \in Node |-> n]
OneUser == [n \in Node |-> "u"]
KeyEach == [h \in Host |-> h]

VARIABLE part  \* the module whose steps are taken

gateVars == <<part, vars, registerVars, lockingVars>>

Limits(A) == part = "limits" /\ A /\ UNCHANGED <<part, registerVars, lockingVars>>
Register(A) == part = "register" /\ A /\ UNCHANGED <<part, vars, lockingVars>>
Locks(A) == part = "locks" /\ A /\ UNCHANGED <<part, vars, registerVars>>

GatesInit ==
  /\ part \in {"limits", "register", "locks"}
  /\ Init /\ RegisterInit /\ LocksInit
  \* The choice that Registration leaves open is made once for the others.
  /\ part # "register" => kind = "login_fail"

GatesNext == Limits(Next) \/ Register(RegisterNext) \/ Locks(LocksNext)

\* The fairness of Spec, FairRegisterSpec and FairSpec.
FairGatesSpec ==
  /\ GatesInit /\ [][GatesNext]_gateVars
  /\ WF_gateVars(Limits(Tick))
  /\ WF_gateVars(Register(RegisterTick))
  /\ \A t \in Tx : SF_gateVars(Locks(TxStep(t)))
=============================================================================
