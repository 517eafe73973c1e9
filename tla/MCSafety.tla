------------------------------- MODULE MCSafety -----------------------------
(***************************************************************************)
(* Instances of Account, TwoFactor and Politeness for TLC, the modules     *)
(* that are checked for safety alone.  They share no variable, so a        *)
(* behaviour moves one of them and leaves the others in their initial      *)
(* states: nothing could come of interleaving their steps.                 *)
(***************************************************************************)
EXTENDS Account, TwoFactor, Politeness, TLC

VARIABLE part  \* the module whose steps are taken

SafetyInit ==
  /\ part \in {"account", "totp", "polite"}
  /\ Init /\ TwoFactorInit /\ PoliteInit
  \* The choices left open by the other modules are made once.
  /\ part # "account" => sid = [r \in Handler |-> CHOOSE s \in Sid : TRUE]
  /\ part # "polite" => host = [w \in Worker |-> CHOOSE h \in Host : TRUE]

SafetyNext ==
  /\ UNCHANGED part
  /\ \/ part = "account" /\ Next /\ UNCHANGED <<twoFactorVars, politeVars>>
     \/ part = "totp" /\ TwoFactorNext /\ UNCHANGED <<vars, politeVars>>
     \/ part = "polite" /\ PoliteNext /\ UNCHANGED <<vars, twoFactorVars>>

SafetySpec == SafetyInit /\ [][SafetyNext]_<<part, vars, twoFactorVars, politeVars>>

\* The same names serve for the requests of both kinds and for the workers.
Alike == Permutations(Sid) \cup Permutations(Handler)
=============================================================================
