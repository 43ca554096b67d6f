------------------------------- MODULE TorPool -------------------------------
(***************************************************************************)
(* The pool of Tor nodes (tor-proxy/src/pool.rs) and the requests that use *)
(* it (handler.rs): each request tries the nodes in round-robin order, over *)
(* a tunnel through the node (tunnel.rs, socks5.rs); errors in a row make  *)
(* it rotate the circuit of a node with NEWNYM (control.rs), and a task    *)
(* per node rotates it on schedule.  Every action is one stretch under the *)
(* lock of the nodes, or one answer from outside.                          *)
(***************************************************************************)
EXTENDS Integers, Sequences, FiniteSets, Functions, Socks5

CONSTANTS
    N,              \* nodes
    Task,           \* request tasks
    Threshold,      \* ERROR_THRESHOLD
    Cooldown,       \* NEWNYM_COOLDOWN_MS
    Interval,       \* ROTATION_INTERVAL_MS
    Replies,        \* answers of a node to a SOCKS5 CONNECT
    MaxTime,        \* end of the clock
    MaxRequests     \* requests in a behaviour

Node == 0..(N - 1)

ASSUME TorAssumption ==
    /\ N \in Nat \ {0}
    /\ Task \cap Node = {}
    /\ Threshold \in Nat /\ Cooldown \in Nat
    /\ Interval \in Nat \ {0}
    /\ \A r \in Replies : IsReply(r)
    /\ MaxTime \in Nat /\ MaxRequests \in Nat

VARIABLES
    now,            \* the clock
    errors,         \* errors[n]: consecutive_errors, no further than Threshold
    lastNewnym,     \* last_newnym[n]
    cooldownUntil,  \* cooldown_until[n]
    rr,             \* rr_idx
    step,           \* step[a]: what a request task, or the scheduler of a node, awaits
    eaten,          \* eaten[t]: bytes of the tunnel that its handshake has read
    list,           \* list[t]: nodes the request has left, the one in use first
    due,            \* due[n]: next tick of the rotation interval
    refused,        \* refused[t]: the last request of t got 503
    requests,       \* history: requests arrived
    available,      \* history: available[t]: nodes not cooling when t ordered them
    asked,          \* history: asked[t]: nodes its request has tried
    signal,         \* history: signal[n]: when the node last took a NEWNYM
    open,           \* history: open[n]: that NEWNYM has not been confirmed
    alone           \* history: alone[a]: none was open when a found the node cooled
                    \* down, and the node has taken none since

nodes == <<errors, lastNewnym, cooldownUntil>>
tunnel == <<list, eaten>>
signals == <<signal, open, alone>>
history == <<requests, available, asked>>
vars == <<now, nodes, rr, step, tunnel, due, refused, history, signals>>

Actor == Task \cup Node
LongAgo == -(Cooldown + 1)

\* The node an actor works on.
Target(a) == IF a \in Node THEN a ELSE Head(list[a])

-----------------------------------------------------------------------------
\* NodePool::new: every node was last rotated long ago; the first ticks of the
\* schedulers are staggered behind the first interval.
Init ==
    /\ now = 0
    /\ errors = [n \in Node |-> 0]
    /\ lastNewnym = [n \in Node |-> LongAgo]
    /\ cooldownUntil = [n \in Node |-> -1]
    /\ rr = 0
    /\ step = [a \in Actor |-> "idle"]
    /\ list = [t \in Task |-> <<>>] /\ eaten = [t \in Task |-> 0]
    /\ due = [n \in Node |-> (Interval \div N) * n + Interval]
    /\ refused = [t \in Task |-> FALSE]
    /\ requests = 0
    /\ available = [t \in Task |-> {}]
    /\ asked = [t \in Task |-> {}]
    /\ signal = [n \in Node |-> LongAgo]
    /\ open = [n \in Node |-> FALSE] /\ alone = [a \in Actor |-> FALSE]

\* The nodes that are not cooling, or all of them.
Usable ==
    LET free == {n \in Node : cooldownUntil[n] <= now}
    IN  IF free = {} THEN Node ELSE free

\* The nodes of S by index; there is one such order.
ByIndex(S) ==
    {s \in [1..Cardinality(S) -> S] :
        Range(s) = S /\ \A i, j \in DOMAIN s : i < j => s[i] < s[j]}

\* Beginning behind the first k: cycle, skip, take.
OrderFrom(s, k) == SubSeq(s, k + 1, Len(s)) \o SubSeq(s, 1, k)

NextIndex(size) == (rr + 1) % size

\* A request arrives and gets its nodes (get_ordered_nodes).
Arrive(t) ==
    /\ step[t] = "idle"
    /\ requests < MaxRequests
    /\ requests' = requests + 1
    /\ rr' = NextIndex(Cardinality(Usable))
    /\ \E s \in ByIndex(Usable) : list' = [list EXCEPT ![t] = OrderFrom(s, rr')]
    /\ step' = [step EXCEPT ![t] = "connect"]
    /\ refused' = [refused EXCEPT ![t] = FALSE]
    /\ available' = [available EXCEPT ![t] = {n \in Node : cooldownUntil[n] <= now}]
    /\ asked' = [asked EXCEPT ![t] = {}]
    /\ UNCHANGED <<now, nodes, eaten, due, signals>>

-----------------------------------------------------------------------------
(* A request over its node.  The connection to the node and the wait for   *)
(* the head of the response have timeouts; the SOCKS5 and TLS handshakes   *)
(* and the body have none.                                                 *)

Tunnelling == {"connect", "handshake", "head", "body"}

GoesOn(t, from, to) ==
    /\ step[t] = from
    /\ step' = [step EXCEPT ![t] = to]
    /\ UNCHANGED <<now, nodes, rr, list, due, refused, history, signals>>

Connected(t) == GoesOn(t, "connect", "handshake") /\ UNCHANGED eaten

\* The node has accepted the CONNECT, and TLS is up.
TunnelReady(t) ==
    /\ GoesOn(t, "handshake", "head")
    /\ \E r \in Replies :
         /\ Complete(r)
         /\ eaten' = [eaten EXCEPT ![t] = Overread(r)]

HeadArrives(t) == GoesOn(t, "head", "body") /\ UNCHANGED eaten

\* The request leaves the pool.
Leave(t) ==
    /\ step' = [step EXCEPT ![t] = "idle"]
    /\ list' = [list EXCEPT ![t] = <<>>]
    /\ eaten' = [eaten EXCEPT ![t] = 0]
    /\ asked' = [asked EXCEPT ![t] = {}]
    /\ available' = [available EXCEPT ![t] = {}]
    /\ UNCHANGED <<now, lastNewnym, cooldownUntil, rr, due, refused, requests, signals>>

\* The body is complete and the request answered (on_success).
Answered(t) ==
    /\ step[t] = "body"
    /\ errors' = [errors EXCEPT ![Target(t)] = 0]
    /\ Leave(t)

\* The client leaves and the request is dropped where it waits.
Dropped(t) ==
    /\ step[t] # "idle"
    /\ UNCHANGED errors
    /\ Leave(t)

\* Mutant of Proceed: a request ends with the first node that failed.
ProceedGivesUp(a) ==
    /\ step' = [step EXCEPT ![a] = "idle"]
    /\ IF a \in Node THEN UNCHANGED <<tunnel, refused>>
       ELSE /\ list' = [list EXCEPT ![a] = <<>>]
            /\ eaten' = [eaten EXCEPT ![a] = 0]
            /\ refused' = [refused EXCEPT ![a] = TRUE]

\* Mutant of Proceed: the same node is asked again.
ProceedAgain(a) ==
    /\ step' = [step EXCEPT ![a] = IF a \in Node THEN "idle" ELSE "connect"]
    /\ UNCHANGED <<tunnel, refused>>

\* A request is through with a node that failed; a scheduler with its tick.
Proceed(a) ==
    IF a \in Node
    THEN /\ step' = [step EXCEPT ![a] = "idle"]
         /\ UNCHANGED <<tunnel, refused>>
    ELSE /\ list' = [list EXCEPT ![a] = Tail(@)]
         /\ eaten' = [eaten EXCEPT ![a] = 0]
         /\ IF Tail(list[a]) = <<>>
            THEN /\ step' = [step EXCEPT ![a] = "idle"]
                 /\ refused' = [refused EXCEPT ![a] = TRUE]
            ELSE /\ step' = [step EXCEPT ![a] = "connect"]
                 /\ UNCHANGED refused

\* The request failed on its node, where it was, or the response had a status
\* of a rate limit (on_error): at the threshold the node is to be rotated.
Failed(t) ==
    /\ step[t] \in Tunnelling
    /\ errors' = [errors EXCEPT ![Target(t)] = IF @ < Threshold THEN @ + 1 ELSE @]
    /\ asked' = [asked EXCEPT ![t] = @ \cup {Target(t)}]
    /\ IF errors'[Target(t)] >= Threshold
       THEN /\ step' = [step EXCEPT ![t] = "check"]
            /\ eaten' = [eaten EXCEPT ![t] = 0]
            /\ UNCHANGED <<list, refused>>
       ELSE Proceed(t)
    /\ UNCHANGED <<now, lastNewnym, cooldownUntil, rr, due, requests, available, signals>>

-----------------------------------------------------------------------------
(* Rotation, by a request or a scheduler.                                  *)

\* Mutant of CheckCooldown: the last unit of the cooldown does not count.
CheckCooldownEarly(a) ==
    /\ step[a] = "check"
    /\ IF now - lastNewnym[Target(a)] >= Cooldown - 1
       THEN /\ step' = [step EXCEPT ![a] = "dial"]
            /\ alone' = [alone EXCEPT ![a] = ~open[Target(a)]]
            /\ UNCHANGED <<tunnel, refused>>
       ELSE Proceed(a) /\ UNCHANGED alone
    /\ UNCHANGED <<now, nodes, rr, due, history, signal, open>>

\* rotate_node: not again before the cooldown has passed.
CheckCooldown(a) ==
    /\ step[a] = "check"
    /\ IF now - lastNewnym[Target(a)] >= Cooldown
       THEN /\ step' = [step EXCEPT ![a] = "dial"]
            /\ alone' = [alone EXCEPT ![a] = ~open[Target(a)]]
            /\ UNCHANGED <<tunnel, refused>>
       ELSE Proceed(a) /\ UNCHANGED alone
    /\ UNCHANGED <<now, nodes, rr, due, history, signal, open>>

\* send_newnym: the control port takes the connection, within five seconds,
Dialled(a) ==
    /\ step[a] = "dial"
    /\ step' = [step EXCEPT ![a] = "auth"]
    /\ UNCHANGED <<now, nodes, rr, tunnel, due, refused, history, signals>>

\* and the password, and is sent the signal;
Signal(a) ==
    /\ step[a] = "auth"
    /\ step' = [step EXCEPT ![a] = "signalled"]
    /\ signal' = [signal EXCEPT ![Target(a)] = now]
    /\ open' = [open EXCEPT ![Target(a)] = TRUE]
    /\ alone' = [b \in Actor |-> IF step[b] \in {"dial", "auth"} /\ Target(b) = Target(a)
                                 THEN FALSE ELSE alone[b]]
    /\ UNCHANGED <<now, nodes, rr, tunnel, due, refused, history>>

\* Mutant of Rotated: the cooldown begins at the last rotation.
RotatedCoolsFromLast(a) ==
    /\ step[a] = "signalled"
    /\ cooldownUntil' = [cooldownUntil EXCEPT ![Target(a)] = lastNewnym[Target(a)] + Cooldown]
    /\ lastNewnym' = [lastNewnym EXCEPT ![Target(a)] = now]
    /\ errors' = [errors EXCEPT ![Target(a)] = 0]
    /\ open' = [open EXCEPT ![Target(a)] = FALSE]
    /\ Proceed(a)
    /\ UNCHANGED <<now, rr, due, history, signal, alone>>

\* its confirmation arrives;
Rotated(a) ==
    /\ step[a] = "signalled"
    /\ lastNewnym' = [lastNewnym EXCEPT ![Target(a)] = now]
    /\ cooldownUntil' = [cooldownUntil EXCEPT ![Target(a)] = now + Cooldown]
    /\ errors' = [errors EXCEPT ![Target(a)] = 0]
    /\ open' = [open EXCEPT ![Target(a)] = FALSE]
    /\ Proceed(a)
    /\ UNCHANGED <<now, rr, due, history, signal, alone>>

\* or the connection, the authentication or the answer fails.
NotRotated(a) ==
    /\ step[a] \in {"dial", "auth", "signalled"}
    /\ Proceed(a)
    /\ alone' = [alone EXCEPT ![a] = FALSE]
    /\ UNCHANGED <<now, nodes, rr, due, history, signal, open>>

\* A tick of the rotation interval; a late one is followed by the next at once.
Scheduled(n) ==
    /\ step[n] = "idle"
    /\ due[n] <= now
    /\ due' = [due EXCEPT ![n] = @ + Interval]
    /\ step' = [step EXCEPT ![n] = "check"]
    /\ UNCHANGED <<now, nodes, rr, tunnel, refused, history, signals>>

ClockTick ==
    /\ now < MaxTime
    /\ now' = now + 1
    /\ UNCHANGED <<nodes, rr, step, tunnel, due, refused, history, signals>>

Control(a) == Dialled(a) \/ Signal(a) \/ Rotated(a) \/ NotRotated(a)

Tunnel(t) == Connected(t) \/ TunnelReady(t) \/ HeadArrives(t) \/ Answered(t) \/ Failed(t)

\* The waits that end by themselves: those with a timeout, and that for a lock.
Timed(a) == step[a] \in {"connect", "head", "check", "dial"}

\* What the runtime and the timeouts bring about.
Prompt ==
    \/ \E n \in Node : Scheduled(n)
    \/ \E t \in Task : Timed(t) /\ Failed(t)
    \/ \E a \in Actor : CheckCooldown(a) \/ (Timed(a) /\ NotRotated(a))

Next ==
    \/ Prompt
    \/ ClockTick
    \/ \E t \in Task : Arrive(t) \/ Tunnel(t) \/ Dropped(t)
    \/ \E a \in Actor : Control(a)

Spec == Init /\ [][Next]_vars

FairSpec == Spec /\ WF_vars(Prompt)

-----------------------------------------------------------------------------
TypeOK ==
    /\ now \in 0..MaxTime
    /\ errors \in [Node -> 0..Threshold]
    /\ lastNewnym \in [Node -> LongAgo..now]
    /\ cooldownUntil \in [Node -> Int]
    /\ rr \in Node
    /\ step \in [Actor -> {"idle", "check", "dial", "auth", "signalled"} \cup Tunnelling]
    /\ list \in [Task -> Seq(Node)] /\ eaten \in [Task -> Int]
    /\ due \in [Node -> Nat]
    /\ requests \in 0..MaxRequests
    /\ available \in [Task -> SUBSET Node] /\ asked \in [Task -> SUBSET Node]
    /\ signal \in [Node -> LongAgo..now]
    /\ refused \in [Task -> BOOLEAN]
    /\ open \in [Node -> BOOLEAN] /\ alone \in [Actor -> BOOLEAN]
    /\ \A t \in Task : step[t] # "idle" => list[t] # <<>>

\* A client is told that all nodes failed only if every node that was not
\* cooling when it asked has failed for it.
AllFailedMeansAllAsked ==
    \A t \in Task : refused[t] => available[t] \subseteq asked[t] /\ asked[t] # {}

\* A node that is kept from requests has had its circuit changed less than the
\* cooldown ago: errors and refused rotations alone take none out.
CoolingMeansRotated ==
    \A n \in Node : cooldownUntil[n] > now =>
        signal[n] >= 0 /\ lastNewnym[n] + Cooldown = cooldownUntil[n]

\* README: NEWNYM_COOLDOWN_MS is the "Min time between NEWNYMs per node".  It is,
\* but for rotations that overlap, or follow one whose confirmation got lost:
\* the cooldown is checked before a signal and stamped behind it.
NewnymsAreSpaced ==
    [][\A a \in Actor : step[a] = "auth" /\ step'[a] = "signalled" /\ alone[a] =>
            now - signal[Target(a)] >= Cooldown]_vars

\* The answer of the node is read to its last byte and no further: TLS and HTTP
\* begin where the tunnel does.
TunnelBeginsBehindTheReply == \A t \in Task : step[t] \in {"head", "body"} => eaten[t] = 0

\* Requests and rotations hang only where the code has no timeout: in a handshake
\* or a body of the tunnel, or at a control port that takes the connection and
\* says nothing.
OnlySilenceHoldsARequest ==
    <>[](\A a \in Actor : step[a] \in {"idle", "handshake", "body", "auth", "signalled"})
=============================================================================
