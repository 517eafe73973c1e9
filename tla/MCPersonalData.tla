--------------------------- MODULE MCPersonalData ---------------------------
(* Instances of PersonalData for TLC: two requests of the account that is   *)
(* followed, with or without one of another account.                        *)
EXTENDS PersonalData, TLC

BothOwn == "r1" :> "u1" @@ "r2" :> "u1"
TwoAndOne == "r1" :> "u1" @@ "r2" :> "u1" @@ "r3" :> "u2"
=============================================================================
