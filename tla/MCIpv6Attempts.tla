--------------------------- MODULE MCIpv6Attempts ---------------------------
(* Instance of Ipv6Attempts for TLC.                                       *)
EXTENDS Ipv6Attempts

CONSTANTS a1, a2, a3
=============================================================================
