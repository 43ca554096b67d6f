------------------------------- MODULE Socks5 -------------------------------
(***************************************************************************)
(* How much the SOCKS5 handshake of tor-proxy (socks5.rs) reads of a       *)
(* node's answer to CONNECT.  The answer is four bytes, the bound address  *)
(* and two bytes of port, and what follows belongs to the tunnel.          *)
(***************************************************************************)
EXTENDS Integers

\* An answer, by the type of its address and the length of its domain.
IsReply(r) ==
    /\ r.atyp \in {"ipv4", "ipv6", "domain"}
    /\ r.domain \in (IF r.atyp = "domain" THEN 1..255 ELSE {0})

ReplyLength(r) ==
    4 + (CASE r.atyp = "ipv4" -> 4 [] r.atyp = "ipv6" -> 16 [] OTHER -> 1 + r.domain) + 2

\* What is read at first, whatever the answer is.
AtFirst == 10

\* Mutant of Extra: as a comment beside the code computes it.
ExtraOfComment(r) ==
    CASE r.atyp = "domain" -> r.domain + 2 - 6 [] r.atyp = "ipv6" -> 12 [] OTHER -> 0

\* What is read then.
Extra(r) ==
    CASE r.atyp = "domain" -> r.domain + 2 - 5 [] r.atyp = "ipv6" -> 12 [] OTHER -> 0

\* A shorter answer leaves the handshake waiting, as the destination of a
\* request waits for the request: Extra never sees one, and no usize wraps.
Complete(r) == ReplyLength(r) >= AtFirst

\* Bytes of the tunnel that the handshake has read, if positive.
Overread(r) == AtFirst + Extra(r) - ReplyLength(r)
=============================================================================
