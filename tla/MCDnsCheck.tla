----------------------------- MODULE MCDnsCheck -----------------------------
(* Instance of DnsCheck for TLC.                                           *)
EXTENDS DnsCheck, TLC

CONSTANTS t1, t2, h1, h2, h3, ip

Sym == Permutations(Task) \cup Permutations(Host)
=============================================================================
