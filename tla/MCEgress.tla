------------------------------ MODULE MCEgress -------------------------------
(***************************************************************************)
(* tor-proxy and simple-ipv6-proxy have nothing in common and are checked  *)
(* in one run, as EgressProofs proves both: a behaviour is one of TorPool  *)
(* or one of Ipv6Attempts, chosen at the start, and the other does not     *)
(* move.  So their states add up instead of multiplying.                   *)
(***************************************************************************)
EXTENDS MCTorPool, MCIpv6Attempts

VARIABLE program

TorStep(A) == program = "tor" /\ A /\ UNCHANGED <<program, attemptsVars>>

EgressInit ==
    /\ program \in {"tor", "ipv6"}
    /\ Init /\ AttemptsInit
    /\ program = "tor" => subnet = None

EgressNext ==
    \/ TorStep(Next)
    \/ program = "ipv6" /\ AttemptsNext /\ UNCHANGED <<program, vars>>

\* FairSpec of TorPool and AttemptsSpec of Ipv6Attempts.
EgressSpec ==
    /\ EgressInit /\ [][EgressNext]_<<program, vars, attemptsVars>>
    /\ WF_<<program, vars, attemptsVars>>(TorStep(Prompt))
=============================================================================
