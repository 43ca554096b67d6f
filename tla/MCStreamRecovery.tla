-------------------------- MODULE MCStreamRecovery --------------------------
(* Instances of StreamRecovery for TLC.                                    *)
EXTENDS StreamRecovery

\* A reload drops one proxy and moves another to the front, or undoes that.
MCPools == {<<"a", "b", "c">>, <<"c", "a">>}
=============================================================================
