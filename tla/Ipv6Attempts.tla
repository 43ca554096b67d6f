---------------------------- MODULE Ipv6Attempts ----------------------------
(***************************************************************************)
(* One request of the IPv6 proxy: attempts over the addresses of the       *)
(* target, each from a random source address of the subnet                 *)
(* (simple-ipv6-proxy/src/handler.rs).                                     *)
(*                                                                         *)
(* The specification is AttemptsSpec: no name of it is one of TorPool, so  *)
(* that EgressProofs can extend both.                                      *)
(***************************************************************************)
EXTENDS Subnet, Sequences, SequencesExt

CONSTANTS
    Addr,           \* addresses a target can have that may be asked
    MaxAttempts,    \* MAX_ATTEMPTS, at least 1 by proxy_handler
    None

ASSUME Ipv6Assumption ==
    /\ IsFiniteSet(Addr)
    /\ MaxAttempts \in Nat \ {0}
    /\ None \notin Addr \cup Address
    /\ None \notin {"retry", "other", "error", "502", "400"}

\* What an attempt ends with: a status in RETRY_STATUS_CODES or another one, or
\* no answer (no bind, no connection, a timeout).
Outcome == {"retry", "other", "error"}

VARIABLES
    subnet,         \* IPV6_SUBNET, or None
    addrs,          \* v6_addrs: the addresses of the target, filtered
    pc,             \* front, resolve, body, attempt, sent; answered, or gone: the
                    \*   client is
    attempt,        \* attempts ended so far
    source,         \* the source address of the attempt, or None
    answer,         \* what the client got: retry, other, 502, 400 or None
    timesAsked,     \* history: the attempts at each address
    lastOutcome     \* history: what the last attempt ended with

attemptsVars == <<subnet, addrs, pc, attempt, source, answer, timesAsked, lastOutcome>>

Subnets == {Parse(a, len) : a \in Address, len \in 0..(Bytes * Bits)}

AttemptsInit ==
    /\ subnet \in {None} \cup Subnets
    /\ addrs = <<>>
    /\ pc = "front"
    /\ attempt = 0
    /\ source = None /\ answer = None
    /\ timesAsked = [a \in Addr |-> 0]
    /\ lastOutcome = None

-----------------------------------------------------------------------------
Respond(a) == pc' = "answered" /\ answer' = a

\* The target is checked before it is looked up: there must be one, an internal
\* address or name is refused, and an IPv4 address cannot be reached.
CheckTarget(kind) ==
    /\ pc = "front"
    /\ CASE kind \in {"no_target", "internal"} -> Respond("400")
         [] kind = "ipv4" -> Respond("502")
         [] kind = "other" -> pc' = "resolve" /\ UNCHANGED answer
    /\ UNCHANGED <<subnet, addrs, attempt, source, timesAsked, lastOutcome>>

\* The lookup returns the addresses in some order, and those that may not be
\* asked are dropped; with none left, or none found, the answer is 502.
Resolve(order) ==
    /\ pc = "resolve"
    /\ addrs' = order
    /\ IF order = <<>> THEN Respond("502") ELSE pc' = "body" /\ UNCHANGED answer
    /\ UNCHANGED <<subnet, attempt, source, timesAsked, lastOutcome>>

\* The body of the request is read once and kept for all attempts; one that is
\* too long, or breaks, is refused.
ReadBody(ok) ==
    /\ pc = "body"
    /\ IF ok THEN pc' = "attempt" /\ UNCHANGED answer ELSE Respond("400")
    /\ UNCHANGED <<subnet, addrs, attempt, source, timesAsked, lastOutcome>>

\* Mutant of AddressInTurn: behind the last address it stays there.
AddressAtMostLast == addrs[IF attempt < Len(addrs) THEN attempt + 1 ELSE Len(addrs)]

\* The addresses are taken in turn.
AddressInTurn == addrs[(attempt % Len(addrs)) + 1]

\* dispatch: a source address is drawn and the request is sent.
Send ==
    /\ pc = "attempt"
    /\ IF subnet = None THEN source' = None
       ELSE source' \in Sources(subnet)
    /\ timesAsked' = [timesAsked EXCEPT ![AddressInTurn] = @ + 1]
    /\ pc' = "sent"
    /\ UNCHANGED <<subnet, addrs, attempt, answer, lastOutcome>>

IsLast == attempt + 1 >= MaxAttempts

\* The attempt ends.  A status to retry counts as an answer in the last attempt
\* only; behind the last attempt the answer is 502.
Ends(o) ==
    /\ pc = "sent"
    /\ lastOutcome' = o
    /\ attempt' = attempt + 1
    /\ IF o = "other" \/ (o = "retry" /\ IsLast)
       THEN Respond(o)
       ELSE IF attempt + 1 = MaxAttempts
       THEN Respond("502")
       ELSE pc' = "attempt" /\ UNCHANGED answer
    /\ UNCHANGED <<subnet, addrs, source, timesAsked>>

\* The client disconnects, and the request is dropped where it is.
ClientLeaves ==
    /\ pc \notin {"answered", "gone"}
    /\ pc' = "gone"
    /\ UNCHANGED <<subnet, addrs, attempt, source, answer, timesAsked, lastOutcome>>

Works ==
    \/ \E kind \in {"no_target", "internal", "ipv4", "other"} : CheckTarget(kind)
    \/ \E A \in SUBSET Addr : \E order \in SetToSeqs(A) : Resolve(order)
    \/ \E ok \in BOOLEAN : ReadBody(ok)
    \/ Send
    \/ \E o \in Outcome : Ends(o)

AttemptsNext == Works \/ ClientLeaves

AttemptsSpec == AttemptsInit /\ [][AttemptsNext]_attemptsVars

-----------------------------------------------------------------------------
AttemptsTypeOK ==
    /\ subnet \in {None} \cup [prefix : Address, len : 0..(Bytes * Bits)]
    /\ addrs \in Seq(Addr)
    /\ pc \in {"front", "resolve", "body", "attempt", "sent", "answered", "gone"}
    /\ attempt \in 0..MaxAttempts
    /\ source \in {None} \cup Address
    /\ answer \in {None, "retry", "other", "502", "400"}
    /\ timesAsked \in [Addr -> 0..MaxAttempts]
    /\ lastOutcome \in {None} \cup Outcome

\* README: each attempt binds an address of the subnet.  Every address of the
\* subnet can be drawn, and no other, whatever the length of the prefix: the bytes
\* of subnet.rs come to what the addresses are as numbers.
SourcesAreTheSubnet ==
    subnet # None =>
        Sources(subnet) =
            {a \in Address : Prefix(a, subnet.len) = Prefix(subnet.prefix, subnet.len)}

\* README: attempts rotate through the AAAA records.  A client whose target has
\* addresses gets 502, or a status to retry, only when the attempts are used up and
\* all addresses have had their share of them; no good answer is thrown away.
\* (Which of the two it gets at the end is the question of FailedAttemptsGive502.)
GivesUpOnlyAtTheEnd ==
    /\ answer \in {"502", "retry"} /\ addrs # <<>> =>
           /\ attempt = MaxAttempts
           /\ \A i \in DOMAIN addrs : timesAsked[addrs[i]] >= MaxAttempts \div Len(addrs)
    /\ lastOutcome = "other" => answer = "other"

\* README: an attempt fails by a status in RETRY_STATUS_CODES or by its connection,
\* and "if all attempts fail, returns `502` so the caller can fail over".
FailedAttemptsGive502 ==
    pc = "answered" /\ attempt = MaxAttempts /\ lastOutcome # "other" => answer = "502"
=============================================================================
