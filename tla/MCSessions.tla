------------------------------ MODULE MCSessions -------------------------------
(* Refresh tokens and one-time codes.  They share no state, so a behaviour    *)
(* runs one of them.  The platform console is left out of the run: it shares  *)
(* its refresh and says nothing on logout, as the POS does.                   *)
EXTENDS Sessions, Otp, TLC

VARIABLE half

BothVars == <<vars, otpVars, half>>

BothInit ==
    /\ Init
    /\ OtpInit
    /\ \/ half = "sessions" /\ app # "platform"
       \/ half = "codes" /\ app = "pwa"

BothNext ==
    \/ half = "sessions" /\ Next /\ UNCHANGED <<otpVars, half>>
    \/ half = "codes" /\ OtpNext /\ UNCHANGED <<vars, half>>

BothSpec == BothInit /\ [][BothNext]_BothVars

Symm == Permutations(Tabs) \cup Permutations(Calls) \cup Permutations(Users)
            \cup Permutations(Handlers)
================================================================================
