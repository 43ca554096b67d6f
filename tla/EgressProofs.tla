---------------------------- MODULE EgressProofs ----------------------------
(***************************************************************************)
(* Proofs about the two proxies that have an egress of their own.          *)
(*                                                                         *)
(* TorPool, for any nodes, tasks, threshold, cooldown and interval: types; *)
(* a request that is told that all nodes failed has asked all of them; a   *)
(* node is kept from requests only behind a rotation of it; the rotations  *)
(* of a node keep the cooldown between them; and the tunnel begins where   *)
(* the answer of the node ends.                                            *)
(*                                                                         *)
(* Subnet and Ipv6Attempts, for addresses of any number of bytes and bits, *)
(* any target and any number of attempts: the bytes that random_addr       *)
(* computes make up the subnet, and the attempts go round the addresses.   *)
(***************************************************************************)
EXTENDS TorPool, Ipv6Attempts, SequenceTheorems, FiniteSetTheorems, NaturalsInduction,
        WellFoundedInduction, TLAPS

Rotating == {"check", "dial", "auth", "signalled"}

\* A request has left, or asked, whatever it could use when it arrived; the node
\* it is rotating has failed for it; and its handshake has read no further than
\* the answer.
RequestOK(t) ==
    /\ step[t] # "idle" =>
          ~refused[t] /\ available[t] \subseteq asked[t] \cup Range(list[t])
    /\ step[t] \in Rotating => Head(list[t]) \in asked[t]
    /\ refused[t] => available[t] \subseteq asked[t] /\ asked[t] # {}
    /\ step[t] \in {"head", "body"} => eaten[t] = 0

\* A cooldown begins with a rotation, and there was a signal before it.
Cooled ==
    /\ \A n \in Node :
          \/ cooldownUntil[n] = -1
          \/ signal[n] >= 0 /\ lastNewnym[n] + Cooldown = cooldownUntil[n]
    /\ \A a \in Actor : step[a] = "signalled" => signal[Target(a)] >= 0

Apart(later, earlier) == later - earlier >= Cooldown

\* The last signal is confirmed unless it is open; who was alone when it found
\* the node cooled down is so until it sends its signal.
Spaced ==
    /\ \A n \in Node : ~open[n] => signal[n] <= lastNewnym[n]
    /\ \A a \in Actor :
          alone[a] /\ step[a] \in {"dial", "auth"} => Apart(now, signal[Target(a)])

IInv == TypeOK /\ (\A t \in Task : RequestOK(t)) /\ Cooled /\ Spaced

-----------------------------------------------------------------------------
(* Orders of nodes.                                                        *)

\* Nodes and tasks are two things; nodes are finitely many.
LEMMA NodesAreFinite ==
    /\ IsFiniteSet(Node) /\ Node \subseteq Nat
    /\ \A S \in SUBSET Node : IsFiniteSet(S) /\ Cardinality(S) \in Nat
    /\ \A S \in SUBSET Node : Cardinality(S) <= N /\ (S # {} => Cardinality(S) # 0)
<1>1. Node = 0..(N - 1) /\ N \in Nat \ {0}
    BY TorAssumption DEF Node
<1>2. IsFiniteSet(Node) /\ Cardinality(Node) = N
    BY <1>1, FS_Interval
<1>3. \A S \in SUBSET Node : IsFiniteSet(S) /\ Cardinality(S) \in Nat
    BY <1>2, FS_Subset, FS_CardinalityType
<1>4. \A S \in SUBSET Node : Cardinality(S) <= N
    BY <1>2, FS_Subset
<1>5. \A S \in SUBSET Node : S # {} => Cardinality(S) # 0
    BY <1>3, FS_EmptySet
<1> QED
    BY <1>1, <1>2, <1>3, <1>4, <1>5

\* An order begun behind the first k is a list of the same nodes.
LEMMA OrderedFrom ==
    ASSUME NEW S \in SUBSET Node, S # {}, NEW s \in ByIndex(S),
           NEW k \in Nat, k < Cardinality(S)
    PROVE  /\ OrderFrom(s, k) \in Seq(Node) /\ OrderFrom(s, k) # <<>>
           /\ Range(OrderFrom(s, k)) = S
<1> DEFINE L == Cardinality(S)
<1>1. L \in Nat
    BY NodesAreFinite
<1>2. s \in [1..L -> S] /\ Range(s) = S
    BY DEF ByIndex
<1> HIDE DEF L
<1>3. s \in Seq(S) /\ Len(s) = L /\ k < L
    BY <1>1, <1>2 DEF L
<1> DEFINE tail == SubSeq(s, k + 1, Len(s))
           head == SubSeq(s, 1, k)
           o == tail \o head
<1>4. /\ tail \in Seq(S) /\ Len(tail) = L - k
      /\ \A i \in 1..(L - k) : tail[i] = s[k + i]
    BY <1>1, <1>3, SubSeqProperties
<1>5. /\ head \in Seq(S) /\ Len(head) = k
      /\ \A i \in 1..k : head[i] = s[i]
    BY <1>1, <1>3, SubSeqProperties
<1> HIDE DEF tail, head
<1>6. /\ o \in Seq(S) /\ Len(o) = L
      /\ \A i \in 1..(L - k) : o[i] = tail[i]
      /\ \A i \in (L - k + 1)..L : o[i] = head[i - (L - k)]
    BY <1>1, <1>3, <1>4, <1>5
<1>7. o = OrderFrom(s, k)
    BY DEF OrderFrom, tail, head
<1> HIDE DEF o
<1>8. Range(o) \subseteq S
    BY <1>6 DEF Range
<1>9. ASSUME NEW x \in S PROVE x \in Range(o)
    <2>1. PICK j \in 1..L : x = s[j]
        BY <1>2 DEF Range
    <2>2. CASE j > k
        <3>1. j - k \in 1..(L - k) /\ k + (j - k) = j /\ j - k \in 1..L
            BY <1>1, <2>1, <2>2
        <3>2. o[j - k] = x
            BY <1>4, <1>6, <2>1, <3>1
        <3> QED
            BY <1>1, <1>6, <3>1, <3>2 DEF Range
    <2>3. CASE j <= k
        <3>1. /\ L - k + j \in (L - k + 1)..L /\ (L - k + j) - (L - k) = j
              /\ L - k + j \in 1..L /\ j \in 1..k
            BY <1>1, <1>3, <2>1, <2>3
        <3>2. o[L - k + j] = x
            BY <1>5, <1>6, <2>1, <3>1
        <3> QED
            BY <1>1, <1>6, <3>1, <3>2 DEF Range
    <2> QED
        BY <1>1, <2>1, <2>2, <2>3
<1>10. o # <<>> /\ o \in Seq(Node)
    BY <1>1, <1>3, <1>6
<1> QED
    BY <1>7, <1>8, <1>9, <1>10

\* The handshake reads no byte of the tunnel, whatever the answer of the node.
LEMMA ReadsNoFurther ==
    ASSUME NEW r \in Replies
    PROVE  Overread(r) = 0
<1>1. r.atyp \in {"ipv4", "ipv6", "domain"} /\ r.domain \in Nat
    BY TorAssumption DEF IsReply
<1> QED
    BY <1>1 DEF Overread, AtFirst, Extra, ReplyLength

-----------------------------------------------------------------------------
\* Initially nobody has asked, and every node was rotated long ago.
LEMMA InitIInv == Init => IInv
<1> SUFFICES ASSUME Init PROVE IInv
    OBVIOUS
<1> USE TorAssumption
<1>1. /\ LongAgo \in Int /\ LongAgo <= 0 /\ LongAgo \in LongAgo..0
      /\ now = 0 /\ 0 \in Node
    BY DEF Init, LongAgo, Node
<1>2. due \in [Node -> Nat]
    <2>1. Interval \div N \in Nat /\ \A n \in Node : n \in Nat
        BY DEF Node
    <2>2. \A n \in Node : (Interval \div N) * n + Interval \in Nat
        BY <2>1
    <2> QED
        BY <2>2 DEF Init
<1>3. TypeOK
    <2>1. /\ now \in 0..MaxTime /\ requests \in 0..MaxRequests /\ rr \in Node
          /\ errors \in [Node -> 0..Threshold] /\ cooldownUntil \in [Node -> Int]
          /\ lastNewnym \in [Node -> LongAgo..now] /\ signal \in [Node -> LongAgo..now]
        BY <1>1 DEF Init
    <2>2. /\ list \in [Task -> Seq(Node)] /\ eaten \in [Task -> Int]
          /\ available \in [Task -> SUBSET Node] /\ asked \in [Task -> SUBSET Node]
        BY DEF Init
    <2>3. /\ refused \in [Task -> BOOLEAN] /\ open \in [Node -> BOOLEAN]
          /\ alone \in [Actor -> BOOLEAN]
        BY Zenon DEF Init
    <2>4. /\ step \in [Actor -> {"idle", "check", "dial", "auth", "signalled"}
                                   \cup Tunnelling]
          /\ \A t \in Task : step[t] = "idle"
        BY DEF Init, Actor
    <2> QED
        BY <1>2, <2>1, <2>2, <2>3, <2>4 DEF TypeOK
<1>4. /\ \A t \in Task : t \in Actor /\ step[t] = "idle" /\ refused[t] = FALSE
      /\ \A a \in Actor : step[a] = "idle"
      /\ \A n \in Node : cooldownUntil[n] = -1 /\ signal[n] = lastNewnym[n]
    BY DEF Init, Actor
<1>5. \A t \in Task : RequestOK(t)
    BY <1>4 DEF RequestOK, Rotating
<1>6. Cooled
    BY <1>4 DEF Cooled
<1>7. Spaced
    BY <1>1, <1>3, <1>4 DEF Spaced, TypeOK
<1> QED
    BY <1>3, <1>5, <1>6, <1>7 DEF IInv

-----------------------------------------------------------------------------
(* Types.                                                                  *)

\* The types in parts: the nodes,
NodeTypes ==
    /\ now \in 0..MaxTime /\ rr \in Node
    /\ errors \in [Node -> 0..Threshold]
    /\ lastNewnym \in [Node -> LongAgo..now] /\ signal \in [Node -> LongAgo..now]
    /\ cooldownUntil \in [Node -> Int] /\ due \in [Node -> Nat]
    /\ open \in [Node -> BOOLEAN] /\ alone \in [Actor -> BOOLEAN]

Steps == {"idle", "check", "dial", "auth", "signalled"} \cup Tunnelling

\* what Proceed and its likes assign,
WalkTypes ==
    /\ step \in [Actor -> Steps]
    /\ list \in [Task -> Seq(Node)] /\ eaten \in [Task -> Int]
    /\ refused \in [Task -> BOOLEAN]
    /\ \A t \in Task : step[t] # "idle" => list[t] # <<>>

\* and the history of requests.
HistoryTypes ==
    /\ requests \in 0..MaxRequests
    /\ available \in [Task -> SUBSET Node] /\ asked \in [Task -> SUBSET Node]

LEMMA TypesInParts ==
    /\ TypeOK <=> NodeTypes /\ WalkTypes /\ HistoryTypes
    /\ TypeOK' <=> NodeTypes' /\ WalkTypes' /\ HistoryTypes'
BY DEF TypeOK, NodeTypes, WalkTypes, HistoryTypes, Steps

\* What an actor works on is a node; a request has one as long as it runs.
LEMMA TargetIsNode ==
    ASSUME TypeOK, NEW a \in Actor, step[a] # "idle"
    PROVE  /\ Target(a) \in Node
           /\ a \in Task => a \notin Node /\ Target(a) = Head(list[a])
<1>1. CASE a \in Node
    BY <1>1, TorAssumption DEF Target
<1>2. CASE a \in Task
    <2>1. a \notin Node /\ list[a] \in Seq(Node) /\ list[a] # <<>>
        BY <1>2, TorAssumption DEF TypeOK
    <2> QED
        BY <2>1 DEF Target
<1> QED
    BY <1>1, <1>2 DEF Actor

\* Tasks and nodes are told apart.
LEMMA ActorKinds == \A t \in Task : t \in Actor /\ t \notin Node
BY TorAssumption DEF Actor

\* Whoever is through with a node keeps the types.
LEMMA ProceedType ==
    ASSUME TypeOK, NEW a \in Actor, step[a] # "idle", Proceed(a)
    PROVE  WalkTypes'
<1> USE DEF TypeOK, Steps, Tunnelling
<1>1. CASE a \in Node
    <2>1. step' = [step EXCEPT ![a] = "idle"] /\ UNCHANGED <<list, eaten, refused>>
        BY <1>1 DEF Proceed, tunnel
    <2> QED
        BY <2>1, ActorKinds DEF WalkTypes
<1>2. CASE a \in Task
    <2>1. list[a] \in Seq(Node) /\ list[a] # <<>> /\ Tail(list[a]) \in Seq(Node)
        BY <1>2
    <2>2. /\ list' = [list EXCEPT ![a] = Tail(list[a])]
          /\ eaten' = [eaten EXCEPT ![a] = 0]
          /\ \/ Tail(list[a]) = <<>> /\ step' = [step EXCEPT ![a] = "idle"]
             \/ Tail(list[a]) # <<>> /\ step' = [step EXCEPT ![a] = "connect"]
          /\ refused' = [refused EXCEPT ![a] = TRUE] \/ refused' = refused
        BY <1>2, ActorKinds DEF Proceed
    <2>3. refused' \in [Task -> BOOLEAN]
        BY <2>2
    <2>4. step' \in [Actor -> Steps]
        BY <2>2
    <2>5. list' \in [Task -> Seq(Node)]
        BY <2>1, <2>2
    <2>6. eaten' \in [Task -> Int]
        <3>1. 0 \in Int /\ eaten \in [Task -> Int]
            OBVIOUS
        <3> QED
            BY <2>2, <3>1, Zenon
    <2>7. \A t \in Task : step'[t] # "idle" => list'[t] # <<>>
        BY <1>2, <2>2, ActorKinds
    <2> QED
        BY <2>3, <2>4, <2>5, <2>6, <2>7 DEF WalkTypes
<1> QED
    BY <1>1, <1>2 DEF Actor

\* A step that leaves the nodes alone, but for the index and what it says of
\* signals, keeps their types.
LEMMA NodesStay ==
    ASSUME NodeTypes,
           UNCHANGED <<now, nodes, due, signals>>, rr' \in Node
    PROVE  NodeTypes'
BY DEF NodeTypes, nodes, signals

\* A request that arrives gets a list.
LEMMA ArriveType == \A t \in Task : TypeOK /\ Arrive(t) => TypeOK'
<1> SUFFICES ASSUME NEW t \in Task, TypeOK, Arrive(t) PROVE TypeOK'
    OBVIOUS
<1> USE TorAssumption
<1>0. NodeTypes /\ WalkTypes /\ HistoryTypes
    BY TypesInParts
<1>1. Usable \in SUBSET Node /\ Usable # {}
    BY DEF Usable, Node
<1>2. Cardinality(Usable) \in Nat \ {0} /\ Cardinality(Usable) <= N
    BY <1>1, NodesAreFinite
<1>3. rr \in Nat
    BY NodesAreFinite DEF TypeOK
<1>4. rr' \in Nat /\ rr' < Cardinality(Usable)
    BY <1>2, <1>3 DEF Arrive, NextIndex
<1>5. rr' \in Node
    BY <1>2, <1>4 DEF Node
<1>6. PICK s \in ByIndex(Usable) : list' = [list EXCEPT ![t] = OrderFrom(s, rr')]
    BY DEF Arrive
<1>7. OrderFrom(s, rr') \in Seq(Node) /\ OrderFrom(s, rr') # <<>>
    BY <1>1, <1>4, OrderedFrom
<1>8. list' \in [Task -> Seq(Node)] /\ list'[t] # <<>>
    BY <1>6, <1>7 DEF TypeOK
<1>9. \A u \in Task : step'[u] # "idle" => list'[u] # <<>>
    <2> SUFFICES ASSUME NEW u \in Task, step'[u] # "idle", u # t PROVE list'[u] # <<>>
        BY <1>8
    <2> QED
        BY <1>6, ActorKinds DEF Arrive, TypeOK
<1>10. WalkTypes'
    <2>1. step' \in [Actor -> Steps] /\ refused' \in [Task -> BOOLEAN]
        BY DEF Arrive, TypeOK, Tunnelling, Steps
    <2> QED
        BY <1>8, <1>9, <2>1 DEF WalkTypes, Arrive, TypeOK
<1>11. HistoryTypes'
    <2>1. {n \in Node : cooldownUntil[n] <= now} \in SUBSET Node /\ {} \in SUBSET Node
        OBVIOUS
    <2>2. available' \in [Task -> SUBSET Node] /\ asked' \in [Task -> SUBSET Node]
        BY <2>1, Zenon DEF Arrive, TypeOK
    <2> QED
        BY <2>2 DEF HistoryTypes, Arrive, TypeOK
<1>12. NodeTypes'
    BY <1>0, <1>5, NodesStay DEF Arrive
<1> QED
    BY <1>10, <1>11, <1>12, TypesInParts

\* A request or its handshake goes on, or a scheduler: only the step changes.
LEMMA GoesOnType ==
    ASSUME TypeOK, NEW a \in Actor, NEW to \in Steps, step[a] # "idle" \/ a \in Node,
           step' = [step EXCEPT ![a] = to],
           UNCHANGED <<list, refused>>, eaten' \in [Task -> Int]
    PROVE  WalkTypes'
<1>1. \A t \in Task : step'[t] # "idle" => list[t] # <<>>
    BY ActorKinds DEF TypeOK
<1>2. step' \in [Actor -> Steps]
    BY DEF TypeOK, Steps
<1> QED
    BY <1>1, <1>2 DEF WalkTypes, TypeOK

\* The tunnel of a request and the request itself.
LEMMA TunnelType ==
    \A t \in Task : TypeOK /\ (Connected(t) \/ TunnelReady(t) \/ HeadArrives(t)) => TypeOK'
<1> SUFFICES ASSUME NEW t \in Task, TypeOK,
                    Connected(t) \/ TunnelReady(t) \/ HeadArrives(t)
             PROVE  TypeOK'
    OBVIOUS
<1>0. NodeTypes /\ HistoryTypes /\ t \in Actor
    BY TypesInParts, ActorKinds
<1>1. eaten' \in [Task -> Int]
    <2>1. \A r \in Replies : Overread(r) \in Int
        BY ReadsNoFurther
    <2>2. \A k \in Int : [eaten EXCEPT ![t] = k] \in [Task -> Int]
        BY DEF TypeOK
    <2> QED
        BY <2>1, <2>2 DEF Connected, TunnelReady, HeadArrives, TypeOK
<1>2. PICK from \in Steps \ {"idle"}, to \in Steps : GoesOn(t, from, to)
    BY DEF Connected, TunnelReady, HeadArrives, Steps, Tunnelling
<1>3. WalkTypes'
    BY <1>0, <1>1, <1>2, GoesOnType DEF GoesOn
<1>4. NodeTypes'
    <2>1. UNCHANGED <<now, nodes, due, signals>> /\ rr' \in Node
        BY <1>2 DEF GoesOn, TypeOK
    <2> QED
        BY <1>0, <2>1, NodesStay
<1>5. HistoryTypes'
    BY <1>0, <1>2 DEF GoesOn, history, HistoryTypes
<1> QED
    BY <1>3, <1>4, <1>5, TypesInParts

\* A request leaves the pool, with or without an answer.
LEMMA LeaveType ==
    \A t \in Task : TypeOK /\ (Answered(t) \/ Dropped(t)) => TypeOK'
<1> SUFFICES ASSUME NEW t \in Task, TypeOK, Answered(t) \/ Dropped(t) PROVE TypeOK'
    OBVIOUS
<1> USE TorAssumption
<1>0. NodeTypes /\ HistoryTypes /\ t \in Actor /\ Leave(t)
    BY TypesInParts, ActorKinds DEF Answered, Dropped
<1>1. WalkTypes'
    <2>1. /\ step' = [step EXCEPT ![t] = "idle"] /\ UNCHANGED refused
          /\ list' = [list EXCEPT ![t] = <<>>] /\ eaten' = [eaten EXCEPT ![t] = 0]
        BY <1>0 DEF Leave
    <2>2. step' \in [Actor -> Steps]
        BY <2>1 DEF TypeOK, Steps
    <2>3. list' \in [Task -> Seq(Node)]
        BY <2>1 DEF TypeOK
    <2>4. eaten' \in [Task -> Int]
        <3>1. 0 \in Int /\ eaten \in [Task -> Int]
            BY DEF TypeOK
        <3> QED
            BY <2>1, <3>1, Zenon
    <2>5. \A u \in Task : step'[u] # "idle" => list'[u] # <<>>
        BY <2>1, ActorKinds DEF TypeOK
    <2> QED
        BY <2>1, <2>2, <2>3, <2>4, <2>5 DEF WalkTypes, TypeOK
<1>2. NodeTypes'
    <2>1. errors' \in [Node -> 0..Threshold]
        <3>1. 0 \in 0..Threshold /\ errors \in [Node -> 0..Threshold]
            BY DEF TypeOK
        <3> QED
            BY <3>1, Zenon DEF Answered, Dropped
    <2> QED
        BY <1>0, <2>1 DEF Leave, NodeTypes, signals
<1>3. HistoryTypes'
    <2>1. {} \in SUBSET Node
        OBVIOUS
    <2>2. available' \in [Task -> SUBSET Node] /\ asked' \in [Task -> SUBSET Node]
        BY <1>0, <2>1, Zenon DEF Leave, TypeOK
    <2> QED
        BY <1>0, <2>2 DEF HistoryTypes, Leave
<1> QED
    BY <1>1, <1>2, <1>3, TypesInParts

\* A node fails for a request.
LEMMA FailedType == \A t \in Task : TypeOK /\ Failed(t) => TypeOK'
<1> SUFFICES ASSUME NEW t \in Task, TypeOK, Failed(t) PROVE TypeOK'
    OBVIOUS
<1> USE TorAssumption
<1>0. NodeTypes /\ WalkTypes /\ HistoryTypes /\ t \in Actor /\ step[t] # "idle"
    BY TypesInParts, ActorKinds DEF Failed, Tunnelling
<1>1. Target(t) \in Node
    BY <1>0, TargetIsNode
<1>2. NodeTypes'
    <2>1. errors' \in [Node -> 0..Threshold]
        <3>1. errors[Target(t)] \in 0..Threshold
            BY <1>1 DEF TypeOK
        <3>2. (IF errors[Target(t)] < Threshold THEN errors[Target(t)] + 1
               ELSE errors[Target(t)]) \in 0..Threshold
            BY <3>1
        <3> QED
            BY <3>2 DEF Failed, TypeOK
    <2> QED
        BY <1>0, <2>1 DEF Failed, NodeTypes, signals
<1>3. HistoryTypes'
    <2>1. asked[t] \cup {Target(t)} \in SUBSET Node
        BY <1>1 DEF TypeOK
    <2> QED
        BY <1>0, <2>1 DEF HistoryTypes, Failed
<1>4. WalkTypes'
    <2>1. CASE Proceed(t)
        BY <1>0, <2>1, ProceedType
    <2>2. CASE /\ step' = [step EXCEPT ![t] = "check"]
               /\ eaten' = [eaten EXCEPT ![t] = 0]
               /\ UNCHANGED <<list, refused>>
        <3>1. 0 \in Int /\ eaten \in [Task -> Int] /\ "check" \in Steps
            BY DEF TypeOK, Steps
        <3>2. eaten' \in [Task -> Int]
            BY <2>2, <3>1, Zenon
        <3> QED
            BY <1>0, <2>2, <3>1, <3>2, GoesOnType
    <2> QED
        BY <2>1, <2>2 DEF Failed
<1> QED
    BY <1>2, <1>3, <1>4, TypesInParts

\* A rotation, from the check of the cooldown on.
LEMMA RotationType ==
    \A a \in Actor : TypeOK /\ (CheckCooldown(a) \/ Control(a)) => TypeOK'
<1> SUFFICES ASSUME NEW a \in Actor, TypeOK, CheckCooldown(a) \/ Control(a) PROVE TypeOK'
    OBVIOUS
<1> USE TorAssumption
<1>0. NodeTypes /\ WalkTypes /\ HistoryTypes /\ step[a] # "idle"
    BY TypesInParts
       DEF CheckCooldown, Control, Dialled, Signal, Rotated, NotRotated
<1>1. Target(a) \in Node
    BY <1>0, TargetIsNode
<1>2. WalkTypes'
    <2>1. CASE Proceed(a)
        BY <1>0, <2>1, ProceedType
    <2>2. CASE /\ \E to \in {"dial", "auth", "signalled"} : step' = [step EXCEPT ![a] = to]
               /\ UNCHANGED <<tunnel, refused>>
        <3>1. UNCHANGED <<list, eaten, refused>> /\ eaten' \in [Task -> Int]
            BY <2>2 DEF tunnel, TypeOK
        <3> QED
            BY <1>0, <2>2, <3>1, GoesOnType DEF Steps
    <2> QED
        BY <2>1, <2>2
           DEF CheckCooldown, Control, Dialled, Signal, Rotated, NotRotated
<1>3. HistoryTypes'
    BY <1>0 DEF CheckCooldown, Control, Dialled, Signal, Rotated, NotRotated, history,
                HistoryTypes
<1>4. /\ now' \in 0..MaxTime /\ now' = now /\ rr' \in Node /\ now \in LongAgo..now
      /\ due' \in [Node -> Nat]
    <2>1. UNCHANGED <<now, rr, due>>
        BY DEF CheckCooldown, Control, Dialled, Signal, Rotated, NotRotated
    <2>2. now \in 0..MaxTime /\ rr \in Node /\ due \in [Node -> Nat]
        BY DEF TypeOK
    <2>3. now \in LongAgo..now
        BY <2>2 DEF LongAgo
    <2> QED
        BY <2>1, <2>2, <2>3
<1>5. errors' \in [Node -> 0..Threshold]
    <2>1. 0 \in 0..Threshold /\ errors \in [Node -> 0..Threshold]
        BY DEF TypeOK
    <2> QED
        BY <2>1, Zenon
           DEF CheckCooldown, Control, Dialled, Signal, Rotated, NotRotated, nodes
<1>6. /\ lastNewnym' \in [Node -> LongAgo..now] /\ signal' \in [Node -> LongAgo..now]
    <2>1. /\ lastNewnym \in [Node -> LongAgo..now] /\ signal \in [Node -> LongAgo..now]
        BY DEF TypeOK
    <2> QED
        BY <1>4, <2>1, Zenon
           DEF CheckCooldown, Control, Dialled, Signal, Rotated, NotRotated, nodes, signals
<1>7. cooldownUntil' \in [Node -> Int]
    <2>1. now + Cooldown \in Int /\ cooldownUntil \in [Node -> Int]
        BY DEF TypeOK
    <2> QED
        BY <2>1, Zenon
           DEF CheckCooldown, Control, Dialled, Signal, Rotated, NotRotated, nodes
<1>8. open' \in [Node -> BOOLEAN] /\ alone' \in [Actor -> BOOLEAN]
    <2>1. open \in [Node -> BOOLEAN] /\ alone \in [Actor -> BOOLEAN]
        BY DEF TypeOK
    <2>2. CASE Signal(a)
        <3>1. \A b \in Actor : (IF step[b] \in {"dial", "auth"} /\ Target(b) = Target(a)
                                THEN FALSE ELSE alone[b]) \in BOOLEAN
            BY <2>1
        <3>2. alone' \in [Actor -> BOOLEAN]
            BY <2>2, <3>1, Zenon DEF Signal
        <3>3. open' \in [Node -> BOOLEAN]
            BY <2>1, <2>2, Zenon DEF Signal
        <3> QED
            BY <3>2, <3>3
    <2>3. CASE ~Signal(a)
        BY <2>1, <2>3, Zenon
           DEF CheckCooldown, Control, Dialled, Rotated, NotRotated, signals
    <2> QED
        BY <2>2, <2>3
<1>9. NodeTypes'
    BY <1>4, <1>5, <1>6, <1>7, <1>8 DEF NodeTypes
<1> QED
    BY <1>2, <1>3, <1>9, TypesInParts

\* A scheduler takes up its tick.
LEMMA ScheduledType == \A n \in Node : TypeOK /\ Scheduled(n) => TypeOK'
<1> SUFFICES ASSUME NEW n \in Node, TypeOK, Scheduled(n) PROVE TypeOK'
    OBVIOUS
<1> USE TorAssumption
<1>0. NodeTypes /\ HistoryTypes /\ n \in Actor
    BY TypesInParts DEF Actor
<1>1. due' \in [Node -> Nat]
    BY DEF Scheduled, TypeOK
<1>2. NodeTypes'
    BY <1>0, <1>1 DEF NodeTypes, Scheduled, nodes, signals
<1>3. HistoryTypes'
    BY <1>0 DEF HistoryTypes, Scheduled, history
<1>4. WalkTypes'
    <2>1. UNCHANGED <<list, eaten, refused>> /\ eaten' \in [Task -> Int]
        BY DEF Scheduled, tunnel, TypeOK
    <2> QED
        BY <1>0, <2>1, GoesOnType DEF Scheduled, Steps
<1> QED
    BY <1>2, <1>3, <1>4, TypesInParts

\* Time goes by.
LEMMA ClockType == TypeOK /\ ClockTick => TypeOK'
<1> SUFFICES ASSUME TypeOK, ClockTick PROVE TypeOK'
    OBVIOUS
<1> USE TorAssumption
<1>0. NodeTypes /\ WalkTypes /\ HistoryTypes
    BY TypesInParts
<1>1. now' \in 0..MaxTime /\ \A x \in LongAgo..now : x \in LongAgo..now'
    BY DEF ClockTick, TypeOK, LongAgo
<1>2. lastNewnym' \in [Node -> LongAgo..now'] /\ signal' \in [Node -> LongAgo..now']
    <2>1. lastNewnym' = lastNewnym /\ signal' = signal
        BY DEF ClockTick, nodes, signals
    <2>2. lastNewnym \in [Node -> LongAgo..now] /\ signal \in [Node -> LongAgo..now]
        BY DEF TypeOK
    <2> QED
        BY <1>1, <2>1, <2>2
<1>3. NodeTypes' /\ HistoryTypes' /\ WalkTypes'
    BY <1>0, <1>1, <1>2
       DEF ClockTick, nodes, signals, history, tunnel, NodeTypes, HistoryTypes, WalkTypes
<1> QED
    BY <1>3, TypesInParts

\* A step keeps the types.
LEMMA StepType == TypeOK /\ [Next]_vars => TypeOK'
<1>1. TypeOK /\ UNCHANGED vars => TypeOK'
    BY DEF TypeOK, vars, nodes, tunnel, signals, history
<1>2. ASSUME TypeOK, Prompt PROVE TypeOK'
    <2>1. CASE \E n \in Node : Scheduled(n)
        BY <1>2, <2>1, ScheduledType
    <2>2. CASE \E t \in Task : Failed(t)
        BY <1>2, <2>2, FailedType
    <2>3. CASE \E a \in Actor : CheckCooldown(a) \/ Control(a)
        BY <1>2, <2>3, RotationType
    <2> QED
        BY <1>2, <2>1, <2>2, <2>3 DEF Prompt, Control
<1> QED
    BY <1>1, <1>2, ArriveType, TunnelType, LeaveType, FailedType, RotationType, ClockType
       DEF Next, Tunnel

-----------------------------------------------------------------------------
(* Steps of one actor.                                                     *)

Acts(a) ==
    \/ a \in Task /\ (Arrive(a) \/ Tunnel(a) \/ Dropped(a))
    \/ a \in Node /\ Scheduled(a)
    \/ CheckCooldown(a) \/ Control(a)

\* The others stay where they are.
Only(a) ==
    \A b \in Actor \ {a} :
        /\ step'[b] = step[b]
        /\ b \in Task =>
              /\ list'[b] = list[b] /\ eaten'[b] = eaten[b] /\ refused'[b] = refused[b]
              /\ asked'[b] = asked[b] /\ available'[b] = available[b]

\* A step is one of the clock or of an actor.
LEMMA NextActs == Next => ClockTick \/ \E a \in Actor : Acts(a)
<1>1. Prompt => \E a \in Actor : Acts(a)
    BY DEF Prompt, Acts, Actor, Tunnel, Control
<1> QED
    BY <1>1 DEF Next, Acts, Actor

\* Who proceeds is alone in it.
LEMMA ProceedOnly ==
    ASSUME TypeOK, NEW a \in Actor, Proceed(a), NEW b \in Actor \ {a}
    PROVE  /\ step'[b] = step[b]
           /\ b \in Task => list'[b] = list[b] /\ eaten'[b] = eaten[b]
                            /\ refused'[b] = refused[b]
<1>1. step'[b] = step[b]
    BY DEF Proceed, TypeOK
<1>2. CASE a \in Node
    BY <1>1, <1>2 DEF Proceed, tunnel
<1>3. CASE a \notin Node
    <2>1. list' = [list EXCEPT ![a] = Tail(@)] /\ eaten' = [eaten EXCEPT ![a] = 0]
        BY <1>3 DEF Proceed
    <2>2. refused' = [refused EXCEPT ![a] = TRUE] \/ refused' = refused
        BY <1>3 DEF Proceed
    <2>3. \A t \in Task : t # a => /\ list'[t] = list[t] /\ eaten'[t] = eaten[t]
                                  /\ refused'[t] = refused[t]
        BY <2>1, <2>2 DEF TypeOK
    <2> QED
        BY <1>1, <2>3
<1> QED
    BY <1>2, <1>3

\* A step of an actor leaves the others where they are.
LEMMA ActsOnly ==
    ASSUME TypeOK, NEW a \in Actor, Acts(a)
    PROVE  Only(a)
<1> SUFFICES ASSUME NEW b \in Actor \ {a}
             PROVE  /\ step'[b] = step[b]
                    /\ b \in Task =>
                          /\ list'[b] = list[b] /\ eaten'[b] = eaten[b]
                          /\ refused'[b] = refused[b]
                          /\ asked'[b] = asked[b] /\ available'[b] = available[b]
    BY DEF Only
<1>1. CASE a \in Task /\ Arrive(a)
    BY <1>1 DEF Arrive, TypeOK
<1>2. CASE a \in Task /\ (Connected(a) \/ TunnelReady(a) \/ HeadArrives(a))
    BY <1>2 DEF Connected, TunnelReady, HeadArrives, GoesOn, history, TypeOK
<1>3. CASE a \in Task /\ (Answered(a) \/ Dropped(a))
    BY <1>3 DEF Answered, Dropped, Leave, TypeOK
<1>4. CASE a \in Task /\ Failed(a)
    <2>1. (asked'[b] = asked[b] /\ available'[b] = available[b]) \/ b \notin Task
        BY <1>4 DEF Failed, TypeOK
    <2>2. CASE Proceed(a)
        BY <2>1, <2>2, ProceedOnly
    <2>3. CASE ~Proceed(a)
        BY <1>4, <2>1, <2>3 DEF Failed, TypeOK
    <2> QED
        BY <2>2, <2>3
<1>5. CASE a \in Node /\ Scheduled(a)
    BY <1>5 DEF Scheduled, tunnel, history, TypeOK
<1>6. CASE CheckCooldown(a) \/ Control(a)
    <2>1. UNCHANGED <<asked, available>>
        BY <1>6 DEF CheckCooldown, Control, Dialled, Signal, Rotated, NotRotated, history
    <2>2. CASE Proceed(a)
        BY <2>1, <2>2, ProceedOnly
    <2>3. CASE ~Proceed(a)
        BY <1>6, <2>1, <2>3
           DEF CheckCooldown, Control, Dialled, Signal, Rotated, NotRotated, tunnel, TypeOK
    <2> QED
        BY <2>2, <2>3
<1> QED
    BY <1>1, <1>2, <1>3, <1>4, <1>5, <1>6 DEF Acts, Tunnel

-----------------------------------------------------------------------------
(* Requests.                                                               *)

\* A list is its first node and the rest.
LEMMA HeadAndRest ==
    ASSUME NEW s \in Seq(Node), s # <<>>
    PROVE  Range(s) \subseteq {Head(s)} \cup Range(Tail(s))
<1> SUFFICES ASSUME NEW i \in 1..Len(s) PROVE s[i] \in {Head(s)} \cup Range(Tail(s))
    BY DEF Range
<1>1. CASE i = 1
    BY <1>1
<1>2. CASE i # 1
    <2>1. Tail(s) \in Seq(Node) /\ DOMAIN Tail(s) = 1..(Len(s) - 1)
        OBVIOUS
    <2>2. i - 1 \in 1..(Len(s) - 1) /\ Tail(s)[i - 1] = s[i]
        BY <1>2
    <2> QED
        BY <2>1, <2>2 DEF Range
<1> QED
    BY <1>1, <1>2

\* A request that is through with a node that failed for it has left the others.
LEMMA ProceedRequest ==
    ASSUME TypeOK, NEW t \in Task, RequestOK(t), Proceed(t), step[t] # "idle",
           available'[t] = available[t], asked[t] \subseteq asked'[t],
           Head(list[t]) \in asked'[t]
    PROVE  RequestOK(t)'
<1>1. list[t] \in Seq(Node) /\ list[t] # <<>> /\ t \in Actor /\ t \notin Node
    BY ActorKinds DEF TypeOK
<1>2. /\ list'[t] = Tail(list[t]) /\ eaten'[t] = 0
      /\ \/ Tail(list[t]) = <<>> /\ step'[t] = "idle"
         \/ Tail(list[t]) # <<>> /\ step'[t] = "connect" /\ refused'[t] = refused[t]
    BY <1>1 DEF Proceed, TypeOK
<1>3. ~refused[t] /\ available[t] \subseteq asked[t] \cup Range(list[t])
    BY DEF RequestOK
<1>4. available[t] \subseteq asked'[t] \cup Range(Tail(list[t]))
    BY <1>1, <1>3, HeadAndRest
<1>5. CASE Tail(list[t]) = <<>>
    <2>1. Range(Tail(list[t])) = {}
        BY <1>5 DEF Range
    <2> QED
        BY <1>2, <1>4, <1>5, <2>1 DEF RequestOK, Rotating
<1>6. CASE Tail(list[t]) # <<>>
    BY <1>2, <1>3, <1>4, <1>6 DEF RequestOK, Rotating
<1> QED
    BY <1>5, <1>6

\* A request that goes on.
LEMMA ActorRequest ==
    ASSUME TypeOK, NEW t \in Task, RequestOK(t), Acts(t)
    PROVE  RequestOK(t)'
<1>0. t \in Actor /\ t \notin Node
    BY ActorKinds
<1>1. CASE Arrive(t)
    <2>1. Usable \in SUBSET Node /\ Usable # {} /\ 0 \in Node
        BY TorAssumption DEF Usable, Node
    <2>2. Cardinality(Usable) \in Nat \ {0}
        BY <2>1, NodesAreFinite
    <2>3. rr \in Nat
        BY NodesAreFinite DEF TypeOK
    <2>4. rr' \in Nat /\ rr' < Cardinality(Usable)
        BY <1>1, <2>2, <2>3 DEF Arrive, NextIndex
    <2>5. PICK s \in ByIndex(Usable) : list' = [list EXCEPT ![t] = OrderFrom(s, rr')]
        BY <1>1 DEF Arrive
    <2>6. Range(OrderFrom(s, rr')) = Usable
        BY <2>1, <2>4, OrderedFrom
    <2>7. Range(list'[t]) = Usable
        BY <2>5, <2>6 DEF TypeOK
    <2>8. step'[t] = "connect" /\ ~refused'[t]
        BY <1>0, <1>1 DEF Arrive, TypeOK
    <2>9. available'[t] = {n \in Node : cooldownUntil[n] <= now}
        BY <1>1 DEF Arrive, TypeOK
    <2>10. available'[t] \subseteq Usable
        BY <2>9 DEF Usable
    <2> QED
        BY <2>7, <2>8, <2>10 DEF RequestOK, Rotating
<1>2. CASE Connected(t) \/ TunnelReady(t) \/ HeadArrives(t)
    <2>1. /\ step[t] \in {"connect", "handshake", "head"}
          /\ step'[t] \in {"handshake", "head", "body"}
          /\ step'[t] = "body" => step[t] = "head"
          /\ UNCHANGED <<list, refused, available, asked>>
        BY <1>0, <1>2 DEF Connected, TunnelReady, HeadArrives, GoesOn, history, TypeOK
    <2>2. step'[t] \in {"head", "body"} => eaten'[t] = 0
        <3>1. CASE TunnelReady(t)
            BY <3>1, ReadsNoFurther DEF TunnelReady, TypeOK
        <3>2. CASE Connected(t) \/ HeadArrives(t)
            BY <1>0, <3>2 DEF Connected, HeadArrives, GoesOn, TypeOK, RequestOK
        <3> QED
            BY <1>2, <3>1, <3>2
    <2> QED
        BY <2>1, <2>2 DEF RequestOK, Rotating
<1>3. CASE Answered(t) \/ Dropped(t)
    <2>1. step[t] # "idle" /\ step'[t] = "idle" /\ refused'[t] = refused[t]
        BY <1>0, <1>3 DEF Answered, Dropped, Leave, TypeOK
    <2> QED
        BY <2>1 DEF RequestOK, Rotating
<1>4. CASE Failed(t)
    <2>1. /\ step[t] \in Tunnelling /\ step[t] # "idle" /\ available' = available
          /\ asked' = [asked EXCEPT ![t] = @ \cup {Target(t)}]
        BY <1>4 DEF Failed, Tunnelling
    <2>2. Target(t) = Head(list[t]) /\ asked'[t] = asked[t] \cup {Head(list[t])}
        <3>1. Target(t) = Head(list[t])
            BY <1>0, <2>1, TargetIsNode
        <3>2. asked'[t] = asked[t] \cup {Target(t)}
            BY <2>1 DEF TypeOK
        <3> QED
            BY <3>1, <3>2
    <2>3. CASE Proceed(t)
        BY <2>1, <2>2, <2>3, ProceedRequest
    <2>4. CASE ~Proceed(t)
        <3>1. step'[t] = "check" /\ UNCHANGED <<list, refused>>
            BY <1>0, <1>4, <2>4 DEF Failed, TypeOK
        <3> QED
            BY <2>1, <2>2, <3>1 DEF RequestOK, Rotating
    <2> QED
        BY <2>3, <2>4
<1>5. CASE CheckCooldown(t) \/ Control(t)
    <2>1. step[t] \in Rotating /\ step[t] # "idle" /\ UNCHANGED <<available, asked>>
        BY <1>5
           DEF CheckCooldown, Control, Dialled, Signal, Rotated, NotRotated, history, Rotating
    <2>2. CASE Proceed(t)
        BY <2>1, <2>2, ProceedRequest DEF RequestOK
    <2>3. CASE ~Proceed(t)
        <3>1. step'[t] \in Rotating /\ UNCHANGED <<list, refused>>
            BY <1>0, <1>5, <2>3
               DEF CheckCooldown, Control, Dialled, Signal, Rotated, NotRotated, tunnel,
                   Rotating, TypeOK
        <3> QED
            BY <2>1, <3>1 DEF RequestOK, Rotating
    <2> QED
        BY <2>2, <2>3
<1> QED
    BY <1>0, <1>1, <1>2, <1>3, <1>4, <1>5 DEF Acts, Tunnel

\* A step keeps what requests know.
LEMMA StepRequests == IInv /\ [Next]_vars => \A t \in Task : RequestOK(t)'
<1> SUFFICES ASSUME IInv, [Next]_vars, NEW t \in Task PROVE RequestOK(t)'
    OBVIOUS
<1>0. TypeOK /\ RequestOK(t) /\ t \in Actor
    BY ActorKinds DEF IInv
<1>1. CASE UNCHANGED <<step, tunnel, refused, history>>
    BY <1>0, <1>1 DEF RequestOK, tunnel, history
<1>2. ASSUME NEW a \in Actor, Acts(a) PROVE RequestOK(t)'
    <2>1. CASE a = t
        BY <1>0, <1>2, <2>1, ActorRequest
    <2>2. CASE a # t
        BY <1>0, <1>2, <2>2, ActsOnly DEF Only, RequestOK
    <2> QED
        BY <2>1, <2>2
<1> QED
    BY <1>1, <1>2, NextActs DEF ClockTick, vars

-----------------------------------------------------------------------------
(* Signals and cooldowns.                                                  *)

\* Only a confirmation changes a cooldown, and only a signal a signal.
LEMMA NodesKept ==
    ASSUME TypeOK, NEW a \in Actor, Acts(a)
    PROVE  /\ now' = now
           /\ Signal(a) \/ UNCHANGED signal
           /\ Rotated(a) \/ UNCHANGED <<lastNewnym, cooldownUntil>>
           /\ Signal(a) \/ Rotated(a) \/ UNCHANGED open
           /\ Signal(a) \/ \A b \in Actor \ {a} : alone'[b] = alone[b]
<1>1. CASE a \in Task /\ (Arrive(a) \/ Tunnel(a) \/ Dropped(a))
    BY <1>1
       DEF Arrive, Tunnel, Connected, TunnelReady, HeadArrives, GoesOn, Answered, Failed,
           Dropped, Leave, nodes, signals
<1>2. CASE a \in Node /\ Scheduled(a)
    BY <1>2 DEF Scheduled, nodes, signals
<1>3. CASE CheckCooldown(a) \/ Control(a)
    BY <1>3
       DEF CheckCooldown, Control, Dialled, Signal, Rotated, NotRotated, nodes, signals, TypeOK
<1> QED
    BY <1>1, <1>2, <1>3 DEF Acts

\* What the others work on stays the same.
LEMMA OthersTarget ==
    ASSUME NEW a \in Actor, Only(a), NEW b \in Actor \ {a}
    PROVE  step'[b] = step[b] /\ Target(b)' = Target(b)
BY DEF Only, Target, Actor

\* Whoever rotates a node stays with it until it is through.
LEMMA OwnTarget ==
    ASSUME TypeOK, NEW a \in Actor, Acts(a),
           step'[a] \in {"dial", "auth", "signalled"}
    PROVE  /\ CheckCooldown(a) \/ Dialled(a) \/ Signal(a)
           /\ Target(a)' = Target(a) /\ Target(a) \in Node
<1>1. ~(Proceed(a) /\ step[a] # "idle")
    BY DEF Proceed, TypeOK
<1>2. ~(a \in Task /\ (Arrive(a) \/ Tunnel(a) \/ Dropped(a)))
    BY <1>1
       DEF Arrive, Tunnel, Connected, TunnelReady, HeadArrives, GoesOn, Answered, Failed,
           Dropped, Leave, Tunnelling, TypeOK
<1>3. ~(a \in Node /\ Scheduled(a))
    BY DEF Scheduled, TypeOK
<1>4. CheckCooldown(a) \/ Control(a)
    BY <1>2, <1>3 DEF Acts
<1>5. /\ CheckCooldown(a) \/ Dialled(a) \/ Signal(a)
      /\ step[a] # "idle" /\ UNCHANGED list
    BY <1>1, <1>4
       DEF Control, CheckCooldown, Dialled, Signal, Rotated, NotRotated, tunnel
<1> QED
    BY <1>5, TargetIsNode DEF Target

\* A step keeps cooldowns behind rotations.
LEMMA StepCooled == IInv /\ [Next]_vars => Cooled'
<1> SUFFICES ASSUME IInv, [Next]_vars PROVE Cooled'
    OBVIOUS
<1>0. TypeOK /\ Cooled
    BY DEF IInv
<1>1. CASE UNCHANGED <<step, list, lastNewnym, cooldownUntil, signal>>
    BY <1>0, <1>1 DEF Cooled, Target
<1>2. ASSUME NEW a \in Actor, Acts(a) PROVE Cooled'
    <2>1. now \in Nat /\ Cooldown \in Nat
        BY <1>0, TorAssumption DEF TypeOK
    <2>2. \A n \in Node : signal[n] >= 0 => signal'[n] >= 0
        <3>1. CASE Signal(a)
            BY <1>0, <2>1, <3>1 DEF Signal, TypeOK
        <3>2. CASE ~Signal(a)
            BY <1>0, <1>2, <3>2, NodesKept
        <3> QED
            BY <3>1, <3>2
    <2>3. ASSUME NEW n \in Node
          PROVE  \/ cooldownUntil'[n] = -1
                 \/ signal'[n] >= 0 /\ lastNewnym'[n] + Cooldown = cooldownUntil'[n]
        <3>1. CASE Rotated(a)
            <4>1. step[a] = "signalled" /\ signal' = signal
                BY <3>1 DEF Rotated
            <4>2. Target(a) \in Node /\ signal[Target(a)] >= 0
                BY <1>0, <4>1, TargetIsNode DEF Cooled
            <4>3. CASE n = Target(a)
                <5>1. lastNewnym'[n] = now /\ cooldownUntil'[n] = now + Cooldown
                    BY <1>0, <3>1, <4>3 DEF Rotated, TypeOK
                <5> QED
                    BY <4>1, <4>2, <4>3, <5>1
            <4>4. CASE n # Target(a)
                <5>1. lastNewnym'[n] = lastNewnym[n] /\ cooldownUntil'[n] = cooldownUntil[n]
                    BY <1>0, <3>1, <4>4 DEF Rotated, TypeOK
                <5> QED
                    BY <1>0, <4>1, <5>1 DEF Cooled
            <4> QED
                BY <4>3, <4>4
        <3>2. CASE ~Rotated(a)
            BY <1>0, <1>2, <2>2, <3>2, NodesKept DEF Cooled
        <3> QED
            BY <3>1, <3>2
    <2>4. ASSUME NEW b \in Actor, step'[b] = "signalled" PROVE signal'[Target(b)'] >= 0
        <3>1. CASE b = a
            <4>1. Signal(a) /\ Target(a)' = Target(a) /\ Target(a) \in Node
                BY <1>0, <1>2, <2>4, <3>1, OwnTarget
                   DEF CheckCooldown, Dialled, Proceed, TypeOK
            <4> QED
                BY <1>0, <2>1, <3>1, <4>1 DEF Signal, TypeOK
        <3>2. CASE b # a
            <4>1. step[b] = "signalled" /\ Target(b)' = Target(b)
                BY <1>0, <1>2, <2>4, <3>2, ActsOnly, OthersTarget
            <4>2. Target(b) \in Node
                BY <1>0, <4>1, TargetIsNode
            <4> QED
                BY <1>0, <2>2, <4>1, <4>2 DEF Cooled
        <3> QED
            BY <3>1, <3>2
    <2> QED
        BY <2>3, <2>4 DEF Cooled
<1> QED
    BY <1>1, <1>2, NextActs DEF ClockTick, vars, nodes, tunnel, signals

\* What is far apart drifts further apart.
LEMMA Drift ==
    ASSUME NEW earlier \in Int, NEW later \in Int, Apart(later, earlier)
    PROVE  Apart(later + 1, earlier)
BY TorAssumption DEF Apart

\* Who finds a node cooled down, and no signal open, is apart from the last signal.
LEMMA CheckedIsApart ==
    ASSUME TypeOK, Spaced, NEW a \in Actor, CheckCooldown(a), step'[a] = "dial",
           alone'[a]
    PROVE  Apart(now, signal[Target(a)])
<1>1. Target(a) \in Node
    BY TargetIsNode DEF CheckCooldown
<1>2. ~Proceed(a)
    BY DEF CheckCooldown, Proceed, TypeOK
<1>3. /\ now - lastNewnym[Target(a)] >= Cooldown
      /\ alone' = [alone EXCEPT ![a] = ~open[Target(a)]]
    BY <1>2 DEF CheckCooldown
<1>4. ~open[Target(a)]
    BY <1>3, Zenon DEF TypeOK
<1>5. signal[Target(a)] <= lastNewnym[Target(a)]
    BY <1>1, <1>4 DEF Spaced
<1>6. /\ now \in Int /\ lastNewnym[Target(a)] \in Int /\ signal[Target(a)] \in Int
      /\ Cooldown \in Int
    BY <1>1, TorAssumption DEF TypeOK, LongAgo
<1> QED
    BY <1>3, <1>5, <1>6 DEF Apart

\* A step keeps confirmed signals behind their confirmation.
LEMMA ConfirmedSignals ==
    ASSUME TypeOK, Spaced, NEW a \in Actor, Acts(a), NEW n \in Node, ~open'[n]
    PROVE  signal'[n] <= lastNewnym'[n]
<1>1. signal[n] \in Int /\ lastNewnym[n] \in Int /\ now \in Int /\ signal[n] <= now
    BY TorAssumption DEF TypeOK, LongAgo
<1>2. CASE Signal(a)
    <2>1. n # Target(a)
        BY <1>2, Zenon DEF Signal, TypeOK
    <2>2. signal'[n] = signal[n] /\ lastNewnym'[n] = lastNewnym[n]
        BY <1>2, <2>1 DEF Signal, nodes, TypeOK
    <2>3. open'[n] = open[n]
        BY <1>2, <2>1 DEF Signal, TypeOK
    <2> QED
        BY <2>2, <2>3 DEF Spaced
<1>3. CASE Rotated(a)
    <2>1. signal' = signal
        BY <1>3 DEF Rotated
    <2>2. CASE n = Target(a)
        <3>1. lastNewnym'[n] = now
            BY <1>3, <2>2 DEF Rotated, TypeOK
        <3> QED
            BY <1>1, <2>1, <3>1
    <2>3. CASE n # Target(a)
        <3>1. lastNewnym'[n] = lastNewnym[n] /\ open'[n] = open[n]
            BY <1>3, <2>3 DEF Rotated, TypeOK
        <3> QED
            BY <2>1, <3>1 DEF Spaced
    <2> QED
        BY <2>2, <2>3
<1>4. CASE ~Signal(a) /\ ~Rotated(a)
    BY <1>4, NodesKept DEF Spaced
<1> QED
    BY <1>2, <1>3, <1>4

\* A step keeps those apart who were alone.
LEMMA AloneIsApart ==
    ASSUME TypeOK, Spaced, NEW a \in Actor, Acts(a), NEW b \in Actor,
           alone'[b], step'[b] \in {"dial", "auth"}
    PROVE  Apart(now, signal'[Target(b)'])
<1>1. CASE b = a
    <2>1. CheckCooldown(a) \/ Dialled(a) \/ Signal(a)
        BY <1>1, OwnTarget
    <2>2. Target(a)' = Target(a)
        BY <1>1, OwnTarget
    <2>3. CASE CheckCooldown(a)
        <3>1. step'[a] = "dial" /\ signal' = signal
            BY <1>1, <2>3 DEF CheckCooldown, Proceed, TypeOK
        <3> QED
            BY <1>1, <2>2, <2>3, <3>1, CheckedIsApart
    <2>4. CASE Dialled(a)
        <3>1. step[a] = "dial" /\ signal' = signal /\ alone' = alone
            BY <2>4 DEF Dialled, signals
        <3> QED
            BY <1>1, <2>2, <3>1 DEF Spaced
    <2>5. ~Signal(a)
        BY <1>1 DEF Signal, TypeOK
    <2> QED
        BY <2>1, <2>3, <2>4, <2>5
<1>2. CASE b # a
    <2>1. step'[b] = step[b] /\ Target(b)' = Target(b)
        BY <1>2, ActsOnly, OthersTarget
    <2>2. Target(b) \in Node
        BY <2>1, TargetIsNode
    <2>3. CASE Signal(a)
        <3>1. alone'[b] = IF step[b] \in {"dial", "auth"} /\ Target(b) = Target(a)
                          THEN FALSE ELSE alone[b]
            BY <2>3 DEF Signal
        <3>2. Target(b) # Target(a) /\ alone[b]
            BY <2>1, <3>1
        <3>3. signal'[Target(b)] = signal[Target(b)]
            BY <2>2, <2>3, <3>2 DEF Signal, TypeOK
        <3> QED
            BY <2>1, <3>2, <3>3 DEF Spaced
    <2>4. CASE ~Signal(a)
        <3>1. alone'[b] = alone[b] /\ signal' = signal
            BY <1>2, <2>4, NodesKept
        <3> QED
            BY <2>1, <3>1 DEF Spaced
    <2> QED
        BY <2>3, <2>4
<1> QED
    BY <1>1, <1>2

\* A step keeps the signals of a node apart.
LEMMA StepSpaced == IInv /\ [Next]_vars => Spaced'
<1> SUFFICES ASSUME IInv, [Next]_vars PROVE Spaced'
    OBVIOUS
<1>0. TypeOK /\ Spaced
    BY DEF IInv
<1>1. CASE UNCHANGED vars
    BY <1>0, <1>1 DEF Spaced, Target, vars, nodes, tunnel, signals
<1>2. CASE ClockTick
    <2>1. /\ UNCHANGED <<step, list, open, alone, signal, lastNewnym>>
          /\ now' = now + 1
        BY <1>2 DEF ClockTick, nodes, tunnel, signals
    <2>2. ASSUME NEW a \in Actor, alone[a], step[a] \in {"dial", "auth"}
          PROVE  Apart(now + 1, signal[Target(a)])
        <3>1. now \in Int /\ signal[Target(a)] \in Int
            BY <1>0, <2>2, TargetIsNode, TorAssumption DEF TypeOK, LongAgo
        <3> QED
            BY <1>0, <2>2, <3>1, Drift DEF Spaced
    <2> QED
        BY <1>0, <2>1, <2>2 DEF Spaced, Target
<1>3. ASSUME NEW a \in Actor, Acts(a) PROVE Spaced'
    <2>1. now' = now
        BY <1>0, <1>3, NodesKept
    <2> QED
        BY <1>0, <1>3, <2>1, ConfirmedSignals, AloneIsApart DEF Spaced
<1> QED
    BY <1>1, <1>2, <1>3, NextActs

-----------------------------------------------------------------------------
\* The invariant that the others follow from holds of every reachable state.
THEOREM Inductive == Spec => []IInv
<1>1. IInv /\ [Next]_vars => IInv'
    BY StepType, StepRequests, StepCooled, StepSpaced DEF IInv
<1> QED
    BY InitIInv, <1>1, PTL DEF Spec

\* The types, among them that a request has a node as long as it runs.
THEOREM TypeCorrect == Spec => []TypeOK
<1>1. IInv => TypeOK
    BY DEF IInv
<1> QED
    BY <1>1, Inductive, PTL

\* handler.rs answers that all nodes failed only if every node that was not cooling
\* down when the request got its list has failed for it.
THEOREM RefusalIsTrue == Spec => []AllFailedMeansAllAsked
<1>1. IInv => AllFailedMeansAllAsked
    BY DEF IInv, RequestOK, AllFailedMeansAllAsked
<1> QED
    BY <1>1, Inductive, PTL

\* get_ordered_nodes passes over a node only for a cooldown behind a rotation.
THEOREM CooldownIsEarned == Spec => []CoolingMeansRotated
<1>1. IInv => CoolingMeansRotated
    <2> SUFFICES ASSUME IInv, NEW n \in Node, cooldownUntil[n] > now
                 PROVE  signal[n] >= 0 /\ lastNewnym[n] + Cooldown = cooldownUntil[n]
        BY DEF CoolingMeansRotated
    <2>1. cooldownUntil[n] # -1
        BY DEF IInv, TypeOK
    <2> QED
        BY <2>1 DEF IInv, Cooled
<1> QED
    BY <1>1, Inductive, PTL

\* The cooldown is between two NEWNYMs of a node, for any number of requests and
\* schedulers that rotate it, unless their rotations overlap or a confirmation got
\* lost (rotate_node).
THEOREM SignalsAreSpaced == Spec => NewnymsAreSpaced
<1> DEFINE Sends == \A a \in Actor : step[a] = "auth" /\ step'[a] = "signalled" /\ alone[a] =>
                       now - signal[Target(a)] >= Cooldown
<1>1. IInv /\ [Next]_vars => [Sends]_vars
    BY DEF IInv, Spaced, Apart
<1> QED
    BY <1>1, Inductive, PTL DEF Spec, NewnymsAreSpaced

\* connect (socks5.rs) hands over a stream at the first byte of the tunnel.
THEOREM HandshakeEnds == Spec => []TunnelBeginsBehindTheReply
<1>1. IInv => TunnelBeginsBehindTheReply
    BY DEF IInv, RequestOK, TunnelBeginsBehindTheReply
<1> QED
    BY <1>1, Inductive, PTL

-----------------------------------------------------------------------------
(* Subnet and Ipv6Attempts: facts about numbers.                           *)

\* A set of numbers has a first one.
LEMMA HasFirst ==
    ASSUME NEW S \in SUBSET Nat, S # {}
    PROVE  \E i \in S : \A j \in S : i <= j
<1>1. PICK i \in S : \A j \in S : <<j, i>> \notin OpToRel(<, Nat)
    BY NatLessThanWellFounded, WFMin
<1>2. \A j \in S : ~(j < i)
    BY <1>1 DEF OpToRel
<1> QED
    BY <1>2

\* What holds at 0 and goes from k to k + 1 holds up to n.
LEMMA Climb ==
    ASSUME NEW S, NEW n \in Nat, 0 \in S, \A k \in 0..(n - 1) : k \in S => k + 1 \in S
    PROVE  \A k \in 0..n : k \in S
<1> DEFINE out == {k \in 0..n : k \notin S}
<1> SUFFICES ASSUME out # {} PROVE FALSE
    OBVIOUS
<1>1. PICK k \in out : \A j \in out : k <= j
    <2>1. out \in SUBSET Nat
        OBVIOUS
    <2> HIDE DEF out
    <2> QED
        BY <2>1, HasFirst
<1>2. k # 0 /\ k \in 0..n /\ k \notin S
    OBVIOUS
<1>3. k - 1 \notin out /\ k - 1 \in 0..(n - 1)
    BY <1>1, <1>2
<1> QED
    BY <1>2, <1>3

\* Division with remainder.
LEMMA DivSplit ==
    ASSUME NEW m \in Nat \ {0}, NEW x \in Nat
    PROVE  /\ x \div m \in Nat /\ x % m \in 0..(m - 1)
           /\ x = (x \div m) * m + (x % m)
OBVIOUS

\* A number in two digits, the lower one below m.
LEMMA TwoDigits ==
    ASSUME NEW m \in Nat \ {0}, NEW u \in Nat, NEW v \in Nat,
           NEW x \in 0..(m - 1), NEW y \in 0..(m - 1), u * m + x = v * m + y
    PROVE  u = v /\ x = y
<1>1. CASE u < v
    <2>1. PICK d \in Nat : v = u + d + 1
        <3>1. v - u - 1 \in Nat /\ v = u + (v - u - 1) + 1
            BY <1>1
        <3> QED
            BY <3>1
    <2>2. v * m = u * m + d * m + m
        BY <2>1
    <2>3. d * m \in Nat /\ u * m \in Nat
        OBVIOUS
    <2> QED
        BY <2>2, <2>3
<1>2. CASE v < u
    <2>1. PICK d \in Nat : u = v + d + 1
        <3>1. u - v - 1 \in Nat /\ u = v + (u - v - 1) + 1
            BY <1>2
        <3> QED
            BY <3>1
    <2>2. u * m = v * m + d * m + m
        BY <2>1
    <2>3. d * m \in Nat /\ v * m \in Nat
        OBVIOUS
    <2> QED
        BY <2>2, <2>3
<1>3. CASE u = v
    <2>1. u * m \in Nat
        OBVIOUS
    <2> QED
        BY <1>3, <2>1
<1> QED
    BY <1>1, <1>2, <1>3

LEMMA DivIs ==
    ASSUME NEW m \in Nat \ {0}, NEW u \in Nat, NEW x \in 0..(m - 1)
    PROVE  (u * m + x) \div m = u
<1> DEFINE n == u * m + x
<1>1. n \in Nat
    <2>1. u * m \in Nat
        OBVIOUS
    <2> QED
        BY <2>1
<1>2. n \div m \in Nat /\ n % m \in 0..(m - 1) /\ n = (n \div m) * m + (n % m)
    <2> HIDE DEF n
    <2> QED
        BY <1>1, DivSplit
<1> QED
    BY <1>2, TwoDigits

LEMMA DigitsBelow ==
    ASSUME NEW m \in Nat \ {0}, NEW k \in Nat, NEW u \in 0..(k - 1), NEW x \in 0..(m - 1)
    PROVE  u * m + x \in 0..(k * m - 1)
<1>1. PICK d \in Nat : k = u + d + 1
    <2>1. k - u - 1 \in Nat /\ k = u + (k - u - 1) + 1
        OBVIOUS
    <2> QED
        BY <2>1
<1>2. k * m = u * m + d * m + m
    BY <1>1
<1>3. d * m \in Nat /\ u * m \in Nat
    OBVIOUS
<1> QED
    BY <1>2, <1>3

\* A definition by recursion over 0..n has a solution.
LEMMA Recursion ==
    ASSUME NEW n \in Nat, NEW c \in Nat, NEW G \in [1..n -> [Nat -> Nat]]
    PROVE  \E f \in [0..n -> Nat] : f[0] = c /\ \A k \in 1..n : f[k] = G[k][f[k - 1]]
<1> DEFINE Solves(f, m) == f[0] = c /\ \A k \in 1..m : f[k] = G[k][f[k - 1]]
           S == {m \in 0..n : \E f \in [0..m -> Nat] : Solves(f, m)}
<1>1. 0 \in S
    <2> DEFINE f == [k \in 0..0 |-> c]
    <2>1. f \in [0..0 -> Nat] /\ Solves(f, 0)
        OBVIOUS
    <2> HIDE DEF f, Solves
    <2> QED
        BY <2>1
<1>2. ASSUME NEW m \in 0..(n - 1), m \in S PROVE m + 1 \in S
    <2>1. PICK f \in [0..m -> Nat] : Solves(f, m)
        BY <1>2
    <2> DEFINE h == [k \in 0..(m + 1) |-> IF k = m + 1 THEN G[m + 1][f[m]] ELSE f[k]]
    <2>2. m \in 0..m /\ m + 1 \in 1..n /\ f[m] \in Nat
        OBVIOUS
    <2>3. G[m + 1][f[m]] \in Nat
        BY <2>2
    <2>4. h \in [0..(m + 1) -> Nat]
        <3>1. \A k \in 0..(m + 1) : k # m + 1 => k \in 0..m
            OBVIOUS
        <3> QED
            BY <2>3, <3>1
    <2>5. ASSUME NEW k \in 1..(m + 1) PROVE h[k] = G[k][h[k - 1]]
        <3>1. CASE k = m + 1
            <4>1. h[k] = G[m + 1][f[m]] /\ h[k - 1] = f[m]
                BY <3>1
            <4> QED
                BY <3>1, <4>1
        <3>2. CASE k # m + 1
            <4>1. k \in 1..m /\ h[k] = f[k] /\ h[k - 1] = f[k - 1]
                BY <3>2
            <4> QED
                BY <2>1, <4>1
        <3> QED
            BY <3>1, <3>2
    <2>6. h[0] = c
        BY <2>1
    <2>7. m + 1 \in 0..n
        OBVIOUS
    <2> HIDE DEF h
    <2>8. Solves(h, m + 1)
        BY <2>5, <2>6
    <2> HIDE DEF Solves
    <2> QED
        BY <2>4, <2>7, <2>8
<1>3. n \in S
    <2>1. n \in 0..n
        OBVIOUS
    <2> HIDE DEF S
    <2> QED
        BY <1>1, <1>2, <2>1, Climb
<1> QED
    BY <1>3

-----------------------------------------------------------------------------
(* Powers of two.                                                          *)

\* Bits of an address.
Width == Bytes * Bits

LEMMA Widths ==
    /\ Bytes \in Nat \ {0} /\ Bits \in Nat \ {0} /\ Width \in Nat \ {0} /\ Bits \in 0..Width
    /\ \A k \in 0..Bytes : k * Bits \in 0..Width
<1>1. Bytes \in Nat \ {0} /\ Bits \in Nat \ {0}
    BY SubnetAssumption
<1>2. ASSUME NEW k \in 0..Bytes PROVE k * Bits \in 0..Width
    <2>1. PICK d \in Nat : Bytes = k + d
        <3>1. Bytes - k \in Nat /\ Bytes = k + (Bytes - k)
            BY <1>1
        <3> QED
            BY <3>1
    <2>2. Bytes * Bits = k * Bits + d * Bits
        BY <1>1, <2>1
    <2>3. k * Bits \in Nat /\ d * Bits \in Nat
        BY <1>1, <2>1
    <2> QED
        BY <2>2, <2>3 DEF Width
<1>3. 1 \in 0..Bytes /\ Bytes \in 0..Bytes
    BY <1>1
<1>4. 1 * Bits \in 0..Width /\ Width \in Nat
    BY <1>2, <1>3 DEF Width
<1> QED
    BY <1>1, <1>2, <1>4

LEMMA Pow2IsDefined ==
    Pow2 = [n \in 0..Width |-> IF n = 0 THEN 1 ELSE 2 * Pow2[n - 1]]
<1> DEFINE G == [k \in 1..Width |-> [v \in Nat |-> 2 * v]]
<1>1. Width \in Nat /\ 1 \in Nat /\ G \in [1..Width -> [Nat -> Nat]]
    BY Widths
<1>2. PICK f \in [0..Width -> Nat] : f[0] = 1 /\ \A k \in 1..Width : f[k] = G[k][f[k - 1]]
    <2> HIDE DEF G
    <2> QED
        BY <1>1, Recursion
<1>3. \A n \in 0..Width : f[n] = IF n = 0 THEN 1 ELSE 2 * f[n - 1]
    <2> SUFFICES ASSUME NEW n \in 0..Width, n # 0 PROVE f[n] = 2 * f[n - 1]
        BY <1>2
    <2>1. n \in 1..Width /\ n - 1 \in 0..Width
        BY <1>1
    <2> QED
        BY <1>2, <2>1
<1>4. f = [n \in 0..Width |-> IF n = 0 THEN 1 ELSE 2 * f[n - 1]]
    BY <1>2, <1>3
<1> QED
    BY <1>4 DEF Pow2, Width

LEMMA Pow2Is ==
    /\ Pow2[0] = 1
    /\ \A n \in 0..Width : Pow2[n] \in Nat \ {0}
    /\ \A n \in 0..(Width - 1) : Pow2[n + 1] = 2 * Pow2[n]
<1>1. Pow2[0] = 1
    BY Pow2IsDefined, Widths
<1>2. \A n \in 0..(Width - 1) : Pow2[n + 1] = 2 * Pow2[n]
    BY Pow2IsDefined, Widths
<1>3. \A n \in 0..Width : Pow2[n] \in Nat \ {0}
    <2> DEFINE S == {n \in 0..Width : Pow2[n] \in Nat \ {0}}
    <2>1. Width \in Nat /\ 0 \in S /\ \A k \in 0..(Width - 1) : k \in S => k + 1 \in S
        BY <1>1, <1>2, Widths
    <2> HIDE DEF S
    <2>2. \A n \in 0..Width : n \in S
        BY <2>1, Climb
    <2> QED
        BY <2>2 DEF S
<1> QED
    BY <1>1, <1>2, <1>3

LEMMA Pow2Sum ==
    ASSUME NEW m \in Nat, NEW n \in Nat, m + n <= Width
    PROVE  Pow2[m + n] = Pow2[m] * Pow2[n]
<1> DEFINE S == {k \in 0..n : Pow2[m + k] = Pow2[m] * Pow2[k]}
<1>1. 0 \in S
    BY Pow2Is, Widths
<1>2. ASSUME NEW k \in 0..(n - 1), k \in S PROVE k + 1 \in S
    <2>1. m + k \in 0..(Width - 1) /\ k \in 0..(Width - 1) /\ k + 1 \in 0..n /\ m \in 0..Width
        BY Widths
    <2>2. Pow2[m + k + 1] = 2 * Pow2[m + k] /\ Pow2[k + 1] = 2 * Pow2[k]
        BY <2>1, Pow2Is
    <2>3. Pow2[m] \in Nat /\ Pow2[k] \in Nat
        BY <2>1, Pow2Is, Widths
    <2>4. Pow2[m + k] = Pow2[m] * Pow2[k]
        BY <1>2
    <2>5. 2 * (Pow2[m] * Pow2[k]) = Pow2[m] * (2 * Pow2[k])
        BY <2>3
    <2>6. m + (k + 1) = m + k + 1
        OBVIOUS
    <2> QED
        BY <2>1, <2>2, <2>4, <2>5, <2>6
<1>3. n \in 0..n
    OBVIOUS
<1>4. n \in S
    <2> HIDE DEF S
    <2> QED
        BY <1>1, <1>2, <1>3, Climb
<1> QED
    BY <1>4

-----------------------------------------------------------------------------
(* The numbers that addresses are.                                         *)

\* What Value computes: the numbers that the first bytes are.
Firsts(a) ==
    CHOOSE first : first = [k \in 0..Bytes |->
        IF k = 0 THEN 0 ELSE first[k - 1] * Pow2[Bits] + a[k - 1]]

LEMMA ByteIs ==
    /\ Pow2[Bits] \in Nat \ {0} /\ Byte = 0..(Pow2[Bits] - 1) /\ Byte \subseteq Nat
    /\ \A a \in Address : a = [i \in 0..(Bytes - 1) |-> a[i]]
                          /\ \A i \in 0..(Bytes - 1) : a[i] \in Byte
BY Widths, Pow2Is DEF Byte, Address

LEMMA FirstsAre ==
    ASSUME NEW a \in Address
    PROVE  /\ Value(a) = Firsts(a)[Bytes]
           /\ Firsts(a)[0] = 0
           /\ \A k \in 0..Bytes : Firsts(a)[k] \in Nat
           /\ \A k \in 0..(Bytes - 1) :
                 Firsts(a)[k + 1] = Firsts(a)[k] * Pow2[Bits] + a[k]
<1> DEFINE B == Pow2[Bits]
           G == [k \in 1..Bytes |-> [v \in Nat |-> v * B + a[k - 1]]]
<1>1. Bytes \in Nat /\ 0 \in Nat /\ B \in Nat
    BY Widths, ByteIs
<1>2. ASSUME NEW k \in 1..Bytes, NEW v \in Nat PROVE v * B + a[k - 1] \in Nat
    <2>1. k - 1 \in 0..(Bytes - 1)
        BY <1>1
    <2>2. a[k - 1] \in Nat
        BY <2>1, ByteIs
    <2> HIDE DEF B
    <2>3. v * B \in Nat
        BY <1>1
    <2> QED
        BY <2>2, <2>3
<1>3. G \in [1..Bytes -> [Nat -> Nat]]
    BY <1>2
<1>4. PICK f \in [0..Bytes -> Nat] : f[0] = 0 /\ \A k \in 1..Bytes : f[k] = G[k][f[k - 1]]
    <2> HIDE DEF G
    <2> QED
        BY <1>1, <1>3, Recursion
<1>5. \A k \in 1..Bytes : f[k] = f[k - 1] * B + a[k - 1]
    <2> SUFFICES ASSUME NEW k \in 1..Bytes PROVE f[k] = f[k - 1] * B + a[k - 1]
        OBVIOUS
    <2>1. k - 1 \in 0..Bytes
        BY <1>1
    <2>2. f[k - 1] \in Nat /\ f[k] = G[k][f[k - 1]]
        BY <1>4, <2>1
    <2> HIDE DEF B
    <2> QED
        BY <2>2
<1>6. f = [k \in 0..Bytes |-> IF k = 0 THEN 0 ELSE f[k - 1] * B + a[k - 1]]
    <2>1. \A k \in 0..Bytes : k # 0 => k \in 1..Bytes
        BY <1>1
    <2> HIDE DEF B
    <2> QED
        BY <1>4, <1>5, <2>1
<1>7. Firsts(a) = [k \in 0..Bytes |->
                      IF k = 0 THEN 0 ELSE Firsts(a)[k - 1] * B + a[k - 1]]
    BY <1>6 DEF Firsts
<1> HIDE DEF B
<1>8. /\ Firsts(a)[0] = 0
      /\ \A k \in 0..(Bytes - 1) : Firsts(a)[k + 1] = Firsts(a)[k] * B + a[k]
    <2>1. 0 \in 0..Bytes /\ \A k \in 0..(Bytes - 1) : k + 1 \in 0..Bytes /\ k + 1 # 0
        BY <1>1
    <2>2. Firsts(a)[0] = 0
        BY <1>7, <2>1
    <2> SUFFICES ASSUME NEW k \in 0..(Bytes - 1)
                 PROVE  Firsts(a)[k + 1] = Firsts(a)[k] * B + a[k]
        BY <2>2
    <2>3. Firsts(a)[k + 1] = Firsts(a)[(k + 1) - 1] * B + a[(k + 1) - 1]
        BY <1>7, <2>1
    <2>4. (k + 1) - 1 = k
        OBVIOUS
    <2> QED
        BY <2>3, <2>4
<1>9. \A k \in 0..Bytes : Firsts(a)[k] \in Nat
    <2> DEFINE S == {k \in 0..Bytes : Firsts(a)[k] \in Nat}
    <2>1. 0 \in S
        BY <1>1, <1>8
    <2>2. ASSUME NEW k \in 0..(Bytes - 1), k \in S PROVE k + 1 \in S
        <3>1. Firsts(a)[k] \in Nat /\ a[k] \in Nat /\ k + 1 \in 0..Bytes
            BY <1>1, <2>2, ByteIs
        <3>2. Firsts(a)[k] * B \in Nat
            BY <1>1, <3>1
        <3>3. Firsts(a)[k + 1] \in Nat
            BY <1>8, <3>1, <3>2
        <3> QED
            BY <3>1, <3>3
    <2> HIDE DEF S
    <2>3. \A k \in 0..Bytes : k \in S
        BY <1>1, <2>1, <2>2, Climb
    <2> QED
        BY <2>3 DEF S
<1>10. Value(a) = Firsts(a)[Bytes]
    BY DEF Value, Firsts
<1> QED
    BY <1>8, <1>9, <1>10 DEF B

\* The first k bytes make the same number if they are the same bytes.
LEMMA SameFirsts ==
    ASSUME NEW a \in Address, NEW b \in Address
    PROVE  \A k \in 0..Bytes :
               (Firsts(a)[k] = Firsts(b)[k]) <=> \A i \in 0..(k - 1) : a[i] = b[i]
<1> DEFINE Same(k) == \A i \in 0..(k - 1) : a[i] = b[i]
           S == {k \in 0..Bytes : (Firsts(a)[k] = Firsts(b)[k]) <=> Same(k)}
<1>1. 0 \in S /\ Bytes \in Nat
    BY FirstsAre, Widths
<1>2. ASSUME NEW k \in 0..(Bytes - 1), k \in S PROVE k + 1 \in S
    <2>1. k \in 0..Bytes /\ k + 1 \in 0..Bytes
        BY <1>1
    <2>2. Same(k + 1) <=> Same(k) /\ a[k] = b[k]
        <3>1. \A i \in 0..((k + 1) - 1) : i \in 0..(k - 1) \/ i = k
            OBVIOUS
        <3>2. k \in 0..((k + 1) - 1) /\ \A i \in 0..(k - 1) : i \in 0..((k + 1) - 1)
            OBVIOUS
        <3> QED
            BY <3>1, <3>2
    <2> DEFINE u == Firsts(a)[k]
               v == Firsts(b)[k]
               B == Pow2[Bits]
    <2>3. /\ u \in Nat /\ v \in Nat /\ B \in Nat \ {0}
          /\ a[k] \in 0..(B - 1) /\ b[k] \in 0..(B - 1)
        BY <2>1, FirstsAre, ByteIs
    <2>4. Firsts(a)[k + 1] = u * B + a[k] /\ Firsts(b)[k + 1] = v * B + b[k]
        BY FirstsAre
    <2>5. (u = v) <=> Same(k)
        BY <1>2
    <2> HIDE DEF u, v, B, Same
    <2>6. u * B + a[k] = v * B + b[k] => u = v /\ a[k] = b[k]
        BY <2>3, TwoDigits
    <2>7. (Firsts(a)[k + 1] = Firsts(b)[k + 1]) <=> Same(k + 1)
        BY <2>2, <2>4, <2>5, <2>6
    <2> QED
        BY <2>1, <2>7
<1> HIDE DEF S
<1>3. \A k \in 0..Bytes : k \in S
    BY <1>1, <1>2, Climb
<1> QED
    BY <1>3 DEF S

\* Behind the first k bytes come less than the others could hold.
LEMMA Splits ==
    ASSUME NEW a \in Address, NEW k \in 0..Bytes
    PROVE  \E rest \in 0..(Pow2[(Bytes - k) * Bits] - 1) :
               Value(a) = Firsts(a)[k] * Pow2[(Bytes - k) * Bits] + rest
<1> DEFINE n == Bytes - k
           F == Firsts(a)
           B == Pow2[Bits]
           S == {j \in 0..n : \E rest \in 0..(Pow2[j * Bits] - 1) :
                                  F[k + j] = F[k] * Pow2[j * Bits] + rest}
<1>1. Bytes \in Nat /\ n \in Nat /\ k \in Nat /\ Bits \in Nat \ {0} /\ B \in Nat \ {0}
    BY Widths, ByteIs
<1>2. \A j \in 0..n : k + j \in 0..Bytes /\ F[k + j] \in Nat /\ j * Bits \in 0..Width
    BY <1>1, FirstsAre, Widths
<1>3. 0 \in S
    <2>1. 0 * Bits = 0 /\ k + 0 = k /\ 0 \in 0..n /\ F[k] \in Nat
        BY <1>1, FirstsAre
    <2>2. Pow2[0 * Bits] = 1
        BY <2>1, Pow2Is
    <2> HIDE DEF F, n
    <2>3. F[k + 0] = F[k] * Pow2[0 * Bits] + 0 /\ 0 \in 0..(Pow2[0 * Bits] - 1)
        BY <2>1, <2>2
    <2> QED
        BY <2>1, <2>3
<1>4. ASSUME NEW j \in 0..(n - 1), j \in S PROVE j + 1 \in S
    <2>1. j \in 0..n /\ j + 1 \in 0..n /\ k + j \in 0..(Bytes - 1)
        BY <1>1
    <2> DEFINE P == Pow2[j * Bits]
    <2>2. PICK rest \in 0..(P - 1) : F[k + j] = F[k] * P + rest
        BY <1>4
    <2>3. P \in Nat \ {0} /\ F[k] \in Nat /\ a[k + j] \in 0..(B - 1)
        BY <1>2, <2>1, Pow2Is, ByteIs, FirstsAre
    <2>4. Pow2[(j + 1) * Bits] = P * B
        <3>1. (j + 1) * Bits = j * Bits + Bits
            BY <1>1
        <3>2. j * Bits \in Nat /\ j * Bits + Bits <= Width
            BY <1>2, <2>1, <3>1, Widths
        <3> QED
            BY <1>1, <3>1, <3>2, Pow2Sum
    <2>5. F[k + (j + 1)] = F[k + j] * B + a[k + j]
        <3>1. k + (j + 1) = (k + j) + 1
            BY <1>1
        <3> QED
            BY <2>1, <3>1, FirstsAre
    <2> DEFINE more == rest * B + a[k + j]
               u == F[k]
               x == a[k + j]
    <2> HIDE DEF F, P, B, n, u, x
    <2>6. rest * B + x \in 0..(P * B - 1)
        BY <1>1, <2>2, <2>3, DigitsBelow DEF x
    <2>7. (u * P + rest) * B + x = u * (P * B) + (rest * B + x)
        <3>1. u \in Nat /\ rest \in Nat /\ P \in Nat /\ B \in Nat /\ x \in Nat
            BY <1>1, <2>2, <2>3 DEF u, x
        <3> QED
            BY <3>1
    <2>8. F[k + (j + 1)] = F[k] * Pow2[(j + 1) * Bits] + more
        BY <2>2, <2>4, <2>5, <2>7 DEF u, x
    <2>9. more \in 0..(Pow2[(j + 1) * Bits] - 1)
        BY <2>4, <2>6 DEF x
    <2> QED
        BY <2>1, <2>8, <2>9
<1>5. n \in 0..n
    BY <1>1
<1>6. n \in S
    <2> HIDE DEF S, n
    <2> QED
        BY <1>1, <1>3, <1>4, <1>5, Climb
<1>7. k + n = Bytes
    BY <1>1
<1> QED
    BY <1>6, <1>7, FirstsAre

\* The first bits: whole bytes, and a part of the next.
LEMMA PrefixOfBytes ==
    ASSUME NEW a \in Address, NEW k \in 0..Bytes
    PROVE  Prefix(a, k * Bits) = Firsts(a)[k]
<1> DEFINE P == Pow2[(Bytes - k) * Bits]
           u == Firsts(a)[k]
<1>1. Bytes \in Nat /\ Bits \in Nat /\ Bytes - k \in 0..Bytes
    BY Widths
<1>2. Bytes * Bits - k * Bits = (Bytes - k) * Bits
    BY <1>1
<1>3. P \in Nat \ {0} /\ u \in Nat
    BY <1>1, Widths, Pow2Is, FirstsAre
<1>4. PICK rest \in 0..(P - 1) : Value(a) = u * P + rest
    BY Splits
<1> HIDE DEF P, u
<1>5. (u * P + rest) \div P = u
    BY <1>3, DivIs
<1>6. Prefix(a, k * Bits) = Value(a) \div P
    BY <1>2 DEF Prefix, P
<1> QED
    BY <1>4, <1>5, <1>6 DEF u

\* A byte falls into the high bits and the h low bits.
LEMMA ByteSplits ==
    ASSUME NEW x \in Byte, NEW h \in 0..Bits
    PROVE  /\ Pow2[h] \in Nat \ {0} /\ Pow2[Bits - h] \in Nat \ {0}
           /\ Pow2[Bits] = Pow2[Bits - h] * Pow2[h]
           /\ x \div Pow2[h] \in 0..(Pow2[Bits - h] - 1)
           /\ x % Pow2[h] \in 0..(Pow2[h] - 1)
           /\ x = (x \div Pow2[h]) * Pow2[h] + (x % Pow2[h])
<1> DEFINE H == Pow2[h]
           Q == Pow2[Bits - h]
           d == x \div H
           r == x % H
<1>1. Bits \in Nat /\ h \in Nat /\ Bits - h \in Nat /\ h \in 0..Width /\ Bits - h \in 0..Width
    BY Widths
<1>2. H \in Nat \ {0} /\ Q \in Nat \ {0}
    BY <1>1, Pow2Is
<1>3. Pow2[Bits] = Q * H
    <2>1. (Bits - h) + h = Bits /\ Bits <= Width
        BY <1>1, Widths
    <2> QED
        BY <1>1, <2>1, Pow2Sum
<1>4. x \in 0..(Q * H - 1)
    BY <1>3, ByteIs
<1>5. x \in Nat
    BY ByteIs
<1>6. d \in Nat /\ r \in 0..(H - 1) /\ x = d * H + r
    <2> HIDE DEF H
    <2> QED
        BY <1>2, <1>5, DivSplit
<1> HIDE DEF d, r, H, Q
<1>7. d \in 0..(Q - 1)
    <2> SUFFICES ASSUME d >= Q PROVE FALSE
        BY <1>2, <1>6
    <2>1. PICK e \in Nat : d = Q + e
        <3>1. d - Q \in Nat /\ d = Q + (d - Q)
            BY <1>2, <1>6
        <3> QED
            BY <3>1
    <2>2. d * H = Q * H + e * H
        BY <1>2, <2>1
    <2>3. e * H \in Nat /\ Q * H \in Nat
        BY <1>2, <2>1
    <2> QED
        BY <1>2, <1>4, <1>6, <2>2, <2>3
<1> QED
    BY <1>2, <1>3, <1>6, <1>7 DEF d, r, H, Q

LEMMA PrefixOfPart ==
    ASSUME NEW a \in Address, NEW k \in 0..(Bytes - 1), NEW h \in 0..Bits
    PROVE  Prefix(a, (k + 1) * Bits - h) =
               Firsts(a)[k] * Pow2[Bits - h] + (a[k] \div Pow2[h])
<1> DEFINE m == Bytes - (k + 1)
           P == Pow2[m * Bits]
           H == Pow2[h]
           Q == Pow2[Bits - h]
           u == Firsts(a)[k]
           d == a[k] \div H
           r == a[k] % H
<1>1. /\ Bytes \in Nat /\ Bits \in Nat /\ k \in Nat /\ h \in Nat
      /\ k \in 0..Bytes /\ k + 1 \in 0..Bytes /\ m \in 0..Bytes
    BY Widths
<1>2. a[k] \in Byte
    BY ByteIs
<1>3. /\ H \in Nat \ {0} /\ Q \in Nat \ {0} /\ Pow2[Bits] = Q * H
      /\ d \in 0..(Q - 1) /\ r \in 0..(H - 1) /\ a[k] = d * H + r
    BY <1>2, ByteSplits
<1>4. P \in Nat \ {0} /\ u \in Nat /\ m * Bits \in Nat
    <2>1. u \in Nat
        BY <1>1, FirstsAre
    <2> HIDE DEF m
    <2>2. m * Bits \in 0..Width /\ Width \in Nat
        BY <1>1, Widths
    <2> QED
        BY <2>1, <2>2, Pow2Is
<1>5. Firsts(a)[k + 1] = u * (Q * H) + (d * H + r)
    BY <1>3, FirstsAre
<1>6. PICK rest \in 0..(P - 1) : Value(a) = Firsts(a)[k + 1] * P + rest
    BY <1>1, Splits
<1>7. Pow2[Bytes * Bits - ((k + 1) * Bits - h)] = H * P
    <2>1. Bytes * Bits - ((k + 1) * Bits - h) = h + m * Bits
        BY <1>1
    <2>2. h + m * Bits <= Width
        <3>1. (m + 1) * Bits \in 0..Width
            <4>1. m + 1 \in 0..Bytes
                BY <1>1
            <4> QED
                BY <4>1, Widths
        <3>2. (m + 1) * Bits = m * Bits + Bits
            BY <1>1
        <3> QED
            BY <1>1, <1>4, <3>1, <3>2, Widths
    <2> QED
        BY <1>1, <1>4, <2>1, <2>2, Pow2Sum
<1> HIDE DEF P, H, Q, u, d, r, m
<1>8. Value(a) = (u * Q + d) * (H * P) + (r * P + rest)
    <2>1. d \in Nat /\ r \in Nat /\ rest \in Nat
        BY <1>3, <1>4, <1>6
    <2>2. (u * (Q * H) + (d * H + r)) * P + rest = (u * Q + d) * (H * P) + (r * P + rest)
        BY <1>3, <1>4, <2>1
    <2> QED
        BY <1>5, <1>6, <2>2
<1>9. r * P + rest \in 0..(H * P - 1)
    BY <1>3, <1>4, <1>6, DigitsBelow
<1>10. u * Q + d \in Nat /\ H * P \in Nat \ {0}
    <2>1. u * Q \in Nat /\ d \in Nat
        BY <1>3, <1>4
    <2>2. H * P \in Nat
        BY <1>3, <1>4
    <2>3. H * P # 0
        BY <1>3, <1>4
    <2> QED
        BY <2>1, <2>2, <2>3
<1>11. Value(a) \div (H * P) = u * Q + d
    <2> DEFINE M == H * P
               U == u * Q + d
               X == r * P + rest
    <2>1. M \in Nat \ {0} /\ U \in Nat /\ X \in 0..(M - 1) /\ Value(a) = U * M + X
        BY <1>8, <1>9, <1>10
    <2> HIDE DEF M, U, X
    <2>2. Value(a) \div M = U
        BY <2>1, DivIs
    <2> QED
        BY <2>2 DEF M, U
<1> QED
    BY <1>7, <1>11 DEF Prefix, u, Q, d, H

\* A prefix ends behind q whole bytes and r bits of the next.
LEMMA EndOfPrefix ==
    ASSUME NEW len \in 0..Width
    PROVE  \E q \in 0..Bytes, r \in 0..(Bits - 1) :
               /\ len = q * Bits + r
               /\ r # 0 => q \in 0..(Bytes - 1) /\ HostBits(q, len) = Bits - r
               /\ \A i \in 0..(Bytes - 1) :
                     /\ (i + 1) * Bits <= len <=> i < q
                     /\ i * Bits >= len <=> (i > q \/ (i = q /\ r = 0))
<1> DEFINE q == len \div Bits
           r == len % Bits
<1>1. Bytes \in Nat /\ Bits \in Nat \ {0} /\ len \in Nat
    BY Widths
<1>2. q \in Nat /\ r \in 0..(Bits - 1) /\ len = q * Bits + r
    BY <1>1, DivSplit
<1> HIDE DEF q, r
\* u bytes are at least one more than v bytes, if u > v.
<1>3. ASSUME NEW u \in Nat, NEW v \in Nat, v < u PROVE v * Bits + Bits <= u * Bits
    <2>1. PICK d \in Nat : u = v + 1 + d
        <3>1. u - v - 1 \in Nat /\ u = v + 1 + (u - v - 1)
            BY <1>3
        <3> QED
            BY <3>1
    <2>2. u * Bits = v * Bits + Bits + d * Bits /\ d * Bits \in Nat /\ v * Bits \in Nat
        BY <1>1, <2>1
    <2> QED
        BY <1>1, <2>2
<1>4. \A u \in Nat : u * Bits \in Nat /\ (u + 1) * Bits = u * Bits + Bits
    BY <1>1
<1>5. q <= Bytes /\ (r # 0 => q < Bytes)
    <2>1. q * Bits + r <= Bytes * Bits
        BY <1>2 DEF Width
    <2>2. ~(Bytes < q)
        <3> SUFFICES ASSUME Bytes < q PROVE FALSE
            OBVIOUS
        <3>1. Bytes * Bits + Bits <= q * Bits
            BY <1>1, <1>2, <1>3
        <3>2. Bytes * Bits \in Nat /\ q * Bits \in Nat
            BY <1>1, <1>2, <1>4
        <3> QED
            BY <1>1, <1>2, <2>1, <3>1, <3>2
    <2>3. q = Bytes => r = 0
        <3>1. q * Bits \in Nat
            BY <1>2, <1>4
        <3> QED
            BY <1>2, <2>1, <3>1
    <2> QED
        BY <1>1, <1>2, <2>2, <2>3
<1>6. ASSUME NEW i \in 0..(Bytes - 1)
      PROVE  /\ (i + 1) * Bits <= len <=> i < q
             /\ i * Bits >= len <=> (i > q \/ (i = q /\ r = 0))
    <2>1. i \in Nat /\ i * Bits \in Nat /\ q * Bits \in Nat /\ (i + 1) * Bits = i * Bits + Bits
        BY <1>1, <1>2, <1>4
    <2>2. CASE i < q
        <3>1. i * Bits + Bits <= q * Bits
            BY <1>2, <1>3, <2>1, <2>2
        <3> QED
            BY <1>1, <1>2, <2>1, <2>2, <3>1
    <2>3. CASE i = q
        BY <1>1, <1>2, <2>1, <2>3
    <2>4. CASE i > q
        <3>1. q * Bits + Bits <= i * Bits
            BY <1>2, <1>3, <2>1, <2>4
        <3> QED
            BY <1>1, <1>2, <2>1, <2>4, <3>1
    <2> QED
        BY <1>2, <2>1, <2>2, <2>3, <2>4
<1>7. HostBits(q, len) = Bits - r
    <2>1. q * Bits \in Nat /\ (q + 1) * Bits = q * Bits + Bits
        BY <1>2, <1>4
    <2> QED
        BY <1>1, <1>2, <2>1 DEF HostBits
<1>8. q \in 0..Bytes /\ (r # 0 => q \in 0..(Bytes - 1))
    BY <1>1, <1>2, <1>5
<1> QED
    BY <1>2, <1>6, <1>7, <1>8

\* Two addresses have the same first len bits: byte by byte.
Agree(a, b, len) ==
    \A i \in 0..(Bytes - 1) :
        /\ (i + 1) * Bits <= len => a[i] = b[i]
        /\ (~((i + 1) * Bits <= len) /\ ~(i * Bits >= len)) =>
              a[i] \div Pow2[HostBits(i, len)] = b[i] \div Pow2[HostBits(i, len)]

LEMMA SamePrefix ==
    ASSUME NEW a \in Address, NEW b \in Address, NEW len \in 0..Width
    PROVE  (Prefix(a, len) = Prefix(b, len)) <=> Agree(a, b, len)
<1>1. PICK q \in 0..Bytes, r \in 0..(Bits - 1) :
          /\ len = q * Bits + r
          /\ r # 0 => q \in 0..(Bytes - 1) /\ HostBits(q, len) = Bits - r
          /\ \A i \in 0..(Bytes - 1) :
                /\ (i + 1) * Bits <= len <=> i < q
                /\ i * Bits >= len <=> (i > q \/ (i = q /\ r = 0))
    BY EndOfPrefix
<1>2. Bytes \in Nat /\ Bits \in Nat /\ q \in Nat /\ r \in Nat /\ q * Bits \in Nat
    BY Widths
<1>3. (Firsts(a)[q] = Firsts(b)[q]) <=> \A i \in 0..(q - 1) : a[i] = b[i]
    BY SameFirsts
<1>4. \A i : (i \in 0..(Bytes - 1) /\ i < q) <=> i \in 0..(q - 1)
    BY <1>2
<1>5. CASE r = 0
    <2>1. len = q * Bits
        BY <1>1, <1>2, <1>5
    <2>2. Prefix(a, len) = Firsts(a)[q] /\ Prefix(b, len) = Firsts(b)[q]
        BY <2>1, PrefixOfBytes
    <2>3. Agree(a, b, len) <=> \A i \in 0..(q - 1) : a[i] = b[i]
        <3>1. \A i \in 0..(Bytes - 1) : ~(~(i < q) /\ ~(i > q \/ (i = q /\ r = 0)))
            BY <1>2, <1>5
        <3> QED
            BY <1>1, <1>4, <3>1 DEF Agree
    <2> QED
        BY <1>3, <2>2, <2>3
<1>6. CASE r # 0
    <2> DEFINE h == Bits - r
               Q == Pow2[Bits - h]
               H == Pow2[h]
               u == Firsts(a)[q]
               v == Firsts(b)[q]
               c == a[q] \div H
               d == b[q] \div H
    <2>1. q \in 0..(Bytes - 1) /\ HostBits(q, len) = h /\ h \in 0..Bits
        BY <1>1, <1>2, <1>6
    <2>2. len = (q + 1) * Bits - h
        BY <1>1, <1>2
    <2>3. Prefix(a, len) = u * Q + c /\ Prefix(b, len) = v * Q + d
        <3> HIDE DEF h
        <3> QED
            BY <2>1, <2>2, PrefixOfPart
    <2>4. a[q] \in Byte /\ b[q] \in Byte /\ u \in Nat /\ v \in Nat
        BY <2>1, ByteIs, FirstsAre
    <2>5. Q \in Nat \ {0} /\ c \in 0..(Q - 1) /\ d \in 0..(Q - 1)
        <3> HIDE DEF h
        <3> QED
            BY <2>1, <2>4, ByteSplits
    <2>6. Agree(a, b, len) <=> (\A i \in 0..(q - 1) : a[i] = b[i]) /\ c = d
        <3>1. \A i \in 0..(Bytes - 1) :
                  (~(i < q) /\ ~(i > q \/ (i = q /\ r = 0))) <=> i = q
            BY <1>2, <1>6
        <3> HIDE DEF h
        <3>2. Agree(a, b, len) <=>
                  \A i \in 0..(Bytes - 1) :
                      /\ i < q => a[i] = b[i]
                      /\ i = q => a[i] \div Pow2[HostBits(i, len)]
                                      = b[i] \div Pow2[HostBits(i, len)]
            BY <1>1, <3>1 DEF Agree
        <3>3. (\A i \in 0..(Bytes - 1) :
                  i = q => a[i] \div Pow2[HostBits(i, len)] = b[i] \div Pow2[HostBits(i, len)])
              <=> c = d
            BY <2>1
        <3>4. (\A i \in 0..(Bytes - 1) : i < q => a[i] = b[i])
              <=> (\A i \in 0..(q - 1) : a[i] = b[i])
            BY <1>4
        <3> HIDE DEF c, d
        <3> QED
            BY <3>2, <3>3, <3>4
    <2> HIDE DEF h, Q, H, u, v, c, d
    <2>7. (u * Q + c = v * Q + d) <=> u = v /\ c = d
        BY <2>4, <2>5, TwoDigits
    <2>8. (u = v) <=> \A i \in 0..(q - 1) : a[i] = b[i]
        BY <1>3 DEF u, v
    <2> QED
        BY <2>3, <2>6, <2>7, <2>8
<1> QED
    BY <1>5, <1>6

-----------------------------------------------------------------------------
(* The addresses of a subnet.                                              *)

\* Of the byte in which a prefix ends, some bits are the host's, not all.
LEMMA HostBitsAre ==
    ASSUME NEW len \in 0..Width, NEW i \in 0..(Bytes - 1),
           ~((i + 1) * Bits <= len), ~(i * Bits >= len)
    PROVE  HostBits(i, len) \in 0..Bits
<1>1. Bits \in Nat /\ i \in Nat /\ i * Bits \in Nat /\ len \in Nat
    BY Widths
<1>2. (i + 1) * Bits = i * Bits + Bits
    BY <1>1
<1> QED
    BY <1>1, <1>2 DEF HostBits

\* A cleared host part leaves bytes, and is 0 in the subnet.
LEMMA MaskIsAddress ==
    ASSUME NEW a \in Address, NEW len \in 0..Width
    PROVE  MaskPrefix(a, len) \in Address
<1> SUFFICES ASSUME NEW i \in 0..(Bytes - 1) PROVE MaskPrefix(a, len)[i] \in Byte
    BY DEF MaskPrefix, Address
<1>1. a[i] \in Byte /\ 0 \in Byte
    BY ByteIs
<1>2. CASE ~((i + 1) * Bits <= len) /\ ~(i * Bits >= len)
    <2> DEFINE h == HostBits(i, len)
               H == Pow2[h]
               d == a[i] \div H
               r == a[i] % H
    <2>1. h \in 0..Bits
        BY <1>2, HostBitsAre
    <2>2. H \in Nat \ {0} /\ d \in Nat /\ r \in Nat /\ a[i] = d * H + r
        <3> HIDE DEF h
        <3>1. H \in Nat \ {0} /\ d \in 0..(Pow2[Bits - h] - 1) /\ r \in 0..(H - 1)
              /\ a[i] = d * H + r /\ Pow2[Bits - h] \in Nat
            BY <1>1, <2>1, ByteSplits
        <3> QED
            BY <3>1
    <2>3. MaskPrefix(a, len)[i] = d * H
        BY <1>2 DEF MaskPrefix, HighBits
    <2> HIDE DEF h, H, d, r
    <2>4. d * H \in Nat /\ d * H <= a[i]
        BY <2>2
    <2> QED
        BY <1>1, <2>3, <2>4, ByteIs
<1>3. CASE (i + 1) * Bits <= len \/ i * Bits >= len
    BY <1>1, <1>3 DEF MaskPrefix
<1> QED
    BY <1>2, <1>3

\* The byte in which the prefix ends: its high bits and others' low bits.
LEMMA MixedByte ==
    ASSUME NEW x \in Byte, NEW y \in Byte, NEW h \in 0..Bits
    PROVE  /\ HighBits(x, h) + LowBits(y, h) \in Byte
           /\ (HighBits(x, h) + LowBits(y, h)) \div Pow2[h] = x \div Pow2[h]
           /\ x \div Pow2[h] = y \div Pow2[h] => HighBits(x, h) + LowBits(y, h) = y
<1> DEFINE H == Pow2[h]
           Q == Pow2[Bits - h]
           d == x \div H
           e == y \div H
           r == y % H
<1>1. /\ H \in Nat \ {0} /\ Q \in Nat \ {0} /\ Pow2[Bits] = Q * H
      /\ d \in 0..(Q - 1) /\ r \in 0..(H - 1) /\ y = e * H + r
    BY ByteSplits
<1>2. HighBits(x, h) = d * H /\ LowBits(y, h) = r
    BY DEF HighBits, LowBits
<1> HIDE DEF H, Q, d, e, r
<1>3. d * H + r \in 0..(Q * H - 1)
    BY <1>1, DigitsBelow
<1>4. (d * H + r) \div H = d
    <2>1. d \in Nat
        BY <1>1
    <2> QED
        BY <1>1, <2>1, DivIs
<1>5. d = e => d * H + r = y
    BY <1>1
<1>6. d * H + r \in Byte
    BY <1>1, <1>3, ByteIs
<1> QED
    BY <1>2, <1>4, <1>5, <1>6 DEF H, d, e

\* What can be drawn is what agrees with the prefix, and all of it.
LEMMA SourcesAgree ==
    ASSUME NEW s \in [prefix : Address, len : 0..Width]
    PROVE  Sources(s) = {a \in Address : Agree(a, s.prefix, s.len)}
<1> DEFINE p == s.prefix
           len == s.len
<1>1. p \in Address /\ len \in 0..Width
    OBVIOUS
<1> DEFINE Partly(i) == ~((i + 1) * Bits <= len) /\ ~(i * Bits >= len)
<1>2. ASSUME NEW rnd \in Address, NEW i \in 0..(Bytes - 1)
      PROVE  /\ i * Bits >= len => RandomAddr(s, rnd)[i] = rnd[i]
             /\ Partly(i) => RandomAddr(s, rnd)[i] =
                    HighBits(p[i], HostBits(i, len)) + LowBits(rnd[i], HostBits(i, len))
             /\ (i + 1) * Bits <= len => RandomAddr(s, rnd)[i] = p[i]
    <2>1. Bits \in Nat \ {0} /\ i \in Nat /\ len \in Nat /\ i * Bits \in Nat
        BY <1>1, Widths
    <2>2. (i + 1) * Bits = i * Bits + Bits
        BY <2>1
    <2>3. (i + 1) * Bits <= len => ~(i * Bits >= len) /\ ~((i + 1) * Bits > len)
        BY <2>1, <2>2
    <2>4. ~((i + 1) * Bits <= len) <=> (i + 1) * Bits > len
        BY <2>1, <2>2
    <2> QED
        BY <2>3, <2>4 DEF RandomAddr
<1>3. ASSUME NEW rnd \in Address
      PROVE  RandomAddr(s, rnd) \in Address /\ Agree(RandomAddr(s, rnd), p, len)
    <2> DEFINE a == RandomAddr(s, rnd)
    <2>1. ASSUME NEW i \in 0..(Bytes - 1)
          PROVE  /\ a[i] \in Byte
                 /\ (i + 1) * Bits <= len => a[i] = p[i]
                 /\ Partly(i) => a[i] \div Pow2[HostBits(i, len)]
                                  = p[i] \div Pow2[HostBits(i, len)]
        <3>1. p[i] \in Byte /\ rnd[i] \in Byte
            BY <1>1, ByteIs
        <3>2. CASE Partly(i)
            <4>1. HostBits(i, len) \in 0..Bits
                BY <1>1, <3>2, HostBitsAre
            <4> DEFINE h == HostBits(i, len)
            <4>2. a[i] = HighBits(p[i], h) + LowBits(rnd[i], h)
                BY <1>2, <3>2
            <4> HIDE DEF h, a
            <4>3. a[i] \in Byte /\ a[i] \div Pow2[h] = p[i] \div Pow2[h]
                BY <3>1, <4>1, <4>2, MixedByte DEF h
            <4> QED
                BY <3>2, <4>3 DEF h
        <3>3. CASE ~Partly(i)
            BY <1>2, <3>1, <3>3
        <3> QED
            BY <3>2, <3>3
    <2>2. a \in Address
        BY <2>1 DEF RandomAddr, Address
    <2> HIDE DEF a
    <2>3. Agree(a, p, len)
        BY <2>1 DEF Agree
    <2> QED
        BY <2>2, <2>3 DEF a
<1>4. ASSUME NEW a \in Address, Agree(a, p, len) PROVE a = RandomAddr(s, a)
    <2>1. ASSUME NEW i \in 0..(Bytes - 1) PROVE a[i] = RandomAddr(s, a)[i]
        <3>1. p[i] \in Byte /\ a[i] \in Byte
            BY <1>1, ByteIs
        <3>2. CASE Partly(i)
            <4>1. HostBits(i, len) \in 0..Bits
                BY <1>1, <3>2, HostBitsAre
            <4> DEFINE h == HostBits(i, len)
            <4>2. RandomAddr(s, a)[i] = HighBits(p[i], h) + LowBits(a[i], h)
                BY <1>2, <3>2
            <4>3. a[i] \div Pow2[h] = p[i] \div Pow2[h]
                BY <1>4, <3>2 DEF Agree
            <4> HIDE DEF h
            <4> QED
                BY <3>1, <4>1, <4>2, <4>3, MixedByte DEF h
        <3>3. CASE i * Bits >= len
            BY <1>2, <3>3
        <3>4. CASE (i + 1) * Bits <= len
            BY <1>2, <1>4, <3>4 DEF Agree
        <3> QED
            BY <3>2, <3>3, <3>4
    <2>2. a = [i \in 0..(Bytes - 1) |-> a[i]]
        BY ByteIs
    <2>3. RandomAddr(s, a) = [i \in 0..(Bytes - 1) |-> RandomAddr(s, a)[i]]
        BY DEF RandomAddr
    <2> QED
        BY <2>1, <2>2, <2>3
<1> HIDE DEF Partly, p, len
<1>5. \A a \in Sources(s) : a \in Address /\ Agree(a, p, len)
    BY <1>3 DEF Sources
<1>6. \A a \in Address : Agree(a, p, len) => a \in Sources(s)
    BY <1>4 DEF Sources
<1> QED
    BY <1>5, <1>6 DEF p, len

\* Read as numbers, they are those with the same first bits.
LEMMA SourcesRead ==
    ASSUME NEW s \in [prefix : Address, len : 0..Width]
    PROVE  Sources(s) = {a \in Address : Prefix(a, s.len) = Prefix(s.prefix, s.len)}
<1>1. s.prefix \in Address /\ s.len \in 0..Width
    OBVIOUS
<1>2. \A a \in Address :
          (Prefix(a, s.len) = Prefix(s.prefix, s.len)) <=> Agree(a, s.prefix, s.len)
    BY <1>1, SamePrefix
<1> QED
    BY <1>2, SourcesAgree

-----------------------------------------------------------------------------
(* The attempts of a request.                                              *)

\* After s attempts all addresses have been asked q times, and the first r once
\* more.
InTurns(s) ==
    \E q \in Nat, r \in 0..(Len(addrs) - 1) :
        /\ s = q * Len(addrs) + r
        /\ \A i \in DOMAIN addrs :
              timesAsked[addrs[i]] = q + (IF i <= r THEN 1 ELSE 0)

Sent == attempt + (IF pc = "sent" THEN 1 ELSE 0)

\* Addresses are different, and there are some from the lookup on.
AddrsSound ==
    /\ \A i, j \in DOMAIN addrs : addrs[i] = addrs[j] => i = j
    /\ pc \in {"front", "resolve"} => addrs = <<>>
    /\ pc \in {"body", "attempt", "sent"} => addrs # <<>>

\* Attempts are counted from 0 and have not run out where one is made; none of
\* the addresses was asked more often than that, and they were asked in turn.
AttemptsSound ==
    /\ pc \in {"front", "resolve", "body"} =>
          attempt = 0 /\ \A a \in Addr : timesAsked[a] = 0
    /\ pc \in {"attempt", "sent"} =>
          attempt < MaxAttempts /\ \A a \in Addr : timesAsked[a] <= Sent
    /\ pc # "gone" /\ addrs # <<>> => InTurns(Sent)

\* The answer comes once, and of which kind it is the last attempt decides.
AnswerSound ==
    /\ pc # "answered" => answer = None
    /\ lastOutcome = "other" => answer = "other"
    /\ answer = "502" /\ addrs # <<>> => attempt = MaxAttempts
    /\ answer = "retry" => attempt = MaxAttempts

AttemptsIInv == AttemptsTypeOK /\ AddrsSound /\ AttemptsSound /\ AnswerSound

\* The subnets of the configuration are masked addresses with a length.
LEMMA SubnetsTyped == Subnets \subseteq [prefix : Address, len : 0..Width]
BY MaskIsAddress DEF Subnets, Parse, Width

LEMMA AttemptsStart == AttemptsInit => AttemptsIInv
<1> SUFFICES ASSUME AttemptsInit PROVE AttemptsIInv
    OBVIOUS
<1> USE DEF AttemptsInit
<1>1. AttemptsTypeOK
    <2>1. subnet \in {None} \cup [prefix : Address, len : 0..(Bytes * Bits)]
        BY SubnetsTyped DEF Width
    <2>2. attempt \in 0..MaxAttempts /\ timesAsked \in [Addr -> 0..MaxAttempts]
        BY Ipv6Assumption
    <2> QED
        BY <2>1, <2>2 DEF AttemptsTypeOK
<1>2. AddrsSound
    BY DEF AddrsSound
<1>3. AttemptsSound
    BY DEF AttemptsSound
<1>4. AnswerSound
    BY Ipv6Assumption DEF AnswerSound
<1> QED
    BY <1>1, <1>2, <1>3, <1>4 DEF AttemptsIInv

LEMMA CheckTargetKeeps ==
    ASSUME AttemptsIInv, NEW kind \in {"no_target", "internal", "ipv4", "other"},
           CheckTarget(kind)
    PROVE  AttemptsIInv'
<1> USE DEF AttemptsIInv, CheckTarget, Respond
<1>1. /\ pc = "front" /\ addrs = <<>>
      /\ \/ pc' = "answered" /\ answer' \in {"400", "502"}
         \/ pc' = "resolve" /\ answer' = answer
      /\ UNCHANGED <<subnet, addrs, attempt, source, timesAsked, lastOutcome>>
    BY DEF AddrsSound
<1> HIDE DEF CheckTarget
<1>2. AttemptsTypeOK'
    BY <1>1 DEF AttemptsTypeOK
<1>3. AddrsSound' /\ AttemptsSound'
    BY <1>1 DEF AddrsSound, AttemptsSound
<1>4. AnswerSound'
    <2>1. answer = None /\ lastOutcome # "other" /\ answer' \notin {"other", "retry"}
        BY <1>1, Ipv6Assumption DEF AnswerSound
    <2> QED
        BY <1>1, <2>1 DEF AnswerSound
<1> QED
    BY <1>2, <1>3, <1>4

\* An order of a set of addresses has each of them once.
LEMMA OrdersAreSequences ==
    ASSUME NEW A \in SUBSET Addr, NEW order \in SetToSeqs(A)
    PROVE  /\ order \in Seq(Addr) /\ Len(order) \in Nat /\ DOMAIN order = 1..Len(order)
           /\ \A i, j \in DOMAIN order : order[i] = order[j] => i = j
<1> DEFINE n == Cardinality(A)
<1>1. n \in Nat
    BY Ipv6Assumption, FS_Subset, FS_CardinalityType
<1>2. order \in [1..n -> A] /\ \A i, j \in 1..n : i # j => order[i] # order[j]
    BY DEF SetToSeqs
<1> HIDE DEF n
<1>3. order \in Seq(A) /\ Len(order) = n /\ DOMAIN order = 1..n
    BY <1>1, <1>2
<1>4. order \in Seq(Addr)
    BY <1>3
<1> QED
    BY <1>1, <1>2, <1>3, <1>4

LEMMA ResolveKeeps ==
    ASSUME AttemptsIInv, NEW A \in SUBSET Addr, NEW order \in SetToSeqs(A), Resolve(order)
    PROVE  AttemptsIInv'
<1> USE DEF AttemptsIInv, Resolve, Respond
<1>1. /\ pc = "resolve" /\ addrs' = order
      /\ \/ order = <<>> /\ pc' = "answered" /\ answer' = "502"
         \/ order # <<>> /\ pc' = "body" /\ answer' = answer
      /\ UNCHANGED <<subnet, attempt, source, timesAsked, lastOutcome>>
    OBVIOUS
<1>2. /\ order \in Seq(Addr) /\ Len(order) \in Nat /\ DOMAIN order = 1..Len(order)
      /\ \A i, j \in DOMAIN order : order[i] = order[j] => i = j
    BY OrdersAreSequences
<1> HIDE DEF Resolve
<1>3. AttemptsTypeOK'
    BY <1>1, <1>2 DEF AttemptsTypeOK
<1>4. AddrsSound'
    BY <1>1, <1>2 DEF AddrsSound
<1>5. AttemptsSound'
    <2>1. attempt' = 0 /\ \A a \in Addr : timesAsked'[a] = 0
        BY <1>1 DEF AttemptsSound
    <2>2. ASSUME order # <<>> PROVE InTurns(Sent)'
        <3>1. Len(order) # 0
            BY <1>2, <2>2
        <3>2. 0 = 0 * Len(order) + 0 /\ 0 \in 0..(Len(order) - 1) /\ Sent' = 0
            BY <1>1, <1>2, <2>1, <2>2, <3>1 DEF Sent
        <3>3. ASSUME NEW i \in DOMAIN order
              PROVE  timesAsked'[order[i]] = 0 + (IF i <= 0 THEN 1 ELSE 0)
            <4>1. order[i] \in Addr /\ i \in Nat /\ i # 0
                BY <1>2
            <4>2. timesAsked'[order[i]] = 0
                BY <2>1, <4>1
            <4> QED
                BY <4>1, <4>2
        <3> QED
            BY <1>1, <3>2, <3>3 DEF InTurns
    <2> QED
        BY <1>1, <2>1, <2>2 DEF AttemptsSound
<1>6. AnswerSound'
    BY <1>1, Ipv6Assumption DEF AnswerSound
<1> QED
    BY <1>3, <1>4, <1>5, <1>6

LEMMA ReadBodyKeeps ==
    ASSUME AttemptsIInv, NEW ok \in BOOLEAN, ReadBody(ok)
    PROVE  AttemptsIInv'
<1> USE DEF AttemptsIInv, ReadBody, Respond
<1>1. /\ pc = "body" /\ addrs # <<>> /\ attempt = 0
      /\ \/ pc' = "attempt" /\ answer' = answer
         \/ pc' = "answered" /\ answer' = "400"
      /\ UNCHANGED <<subnet, addrs, attempt, source, timesAsked, lastOutcome>>
    BY DEF AddrsSound, AttemptsSound
<1> HIDE DEF ReadBody
<1>2. AttemptsTypeOK'
    BY <1>1 DEF AttemptsTypeOK
<1>3. AddrsSound'
    BY <1>1 DEF AddrsSound
<1>4. AttemptsSound'
    <2>1. Sent' = 0 /\ Sent = 0 /\ \A a \in Addr : timesAsked'[a] = 0
        BY <1>1 DEF Sent, AttemptsSound
    <2>2. InTurns(Sent)'
        BY <1>1, <2>1 DEF AttemptsSound, InTurns
    <2>3. attempt' = 0 /\ 0 < MaxAttempts
        BY <1>1, Ipv6Assumption
    <2> QED
        BY <1>1, <2>1, <2>2, <2>3 DEF AttemptsSound
<1>5. AnswerSound'
    <2>1. answer = None /\ lastOutcome # "other"
        BY <1>1, Ipv6Assumption DEF AnswerSound
    <2> QED
        BY <1>1, <2>1, Ipv6Assumption DEF AnswerSound
<1> QED
    BY <1>2, <1>3, <1>4, <1>5

LEMMA LeavingKeeps ==
    ASSUME AttemptsIInv, ClientLeaves
    PROVE  AttemptsIInv'
<1> USE DEF AttemptsIInv, ClientLeaves
<1>1. AttemptsTypeOK' /\ AddrsSound' /\ AttemptsSound'
    BY DEF AttemptsTypeOK, AddrsSound, AttemptsSound
<1>2. AnswerSound'
    BY DEF AnswerSound
<1> QED
    BY <1>1, <1>2

\* The attempt goes to the address whose turn it is.
LEMMA SendTakesTurns ==
    ASSUME AttemptsIInv, Send
    PROVE  InTurns(Sent)' /\ AddressInTurn \in Addr
<1> DEFINE n == Len(addrs)
<1>1. /\ pc = "attempt" /\ pc' = "sent" /\ addrs # <<>> /\ attempt \in Nat
      /\ addrs \in Seq(Addr) /\ \A i, j \in DOMAIN addrs : addrs[i] = addrs[j] => i = j
      /\ timesAsked \in [Addr -> 0..MaxAttempts]
      /\ UNCHANGED <<addrs, attempt>>
    BY Ipv6Assumption DEF AttemptsIInv, AttemptsTypeOK, AddrsSound, Send
<1>2. n \in Nat \ {0} /\ DOMAIN addrs = 1..n /\ \A i \in 1..n : addrs[i] \in Addr
    BY <1>1
<1>3. Sent = attempt /\ Sent' = attempt + 1
    BY <1>1 DEF Sent
<1>4. PICK q \in Nat, r \in 0..(n - 1) :
          /\ attempt = q * n + r
          /\ \A i \in 1..n : timesAsked[addrs[i]] = q + (IF i <= r THEN 1 ELSE 0)
    <2>1. InTurns(attempt)
        BY <1>1, <1>3 DEF AttemptsIInv, AttemptsSound
    <2> QED
        BY <1>2, <2>1 DEF InTurns
<1> HIDE DEF n
<1>5. attempt % n = r
    <2> DEFINE u == attempt \div n
               x == attempt % n
    <2>1. u \in Nat /\ x \in 0..(n - 1) /\ attempt = u * n + x
        BY <1>1, <1>2, DivSplit
    <2> HIDE DEF u, x
    <2>2. n \in Nat \ {0} /\ q \in Nat /\ r \in 0..(n - 1)
        BY <1>2
    <2>3. u * n + x = q * n + r => u = q /\ x = r
        BY <2>1, <2>2, TwoDigits
    <2>4. u * n + x = q * n + r
        BY <1>4, <2>1
    <2> QED
        BY <2>3, <2>4 DEF x
<1>6. r + 1 \in 1..n /\ AddressInTurn = addrs[r + 1] /\ r \in Nat
    BY <1>2, <1>4, <1>5 DEF AddressInTurn, n
<1>7. AddressInTurn \in Addr
    BY <1>2, <1>6
<1>8. \A i \in 1..n : timesAsked'[addrs[i]] = q + (IF i <= r + 1 THEN 1 ELSE 0)
    <2> SUFFICES ASSUME NEW i \in 1..n
                 PROVE  timesAsked'[addrs[i]] = q + (IF i <= r + 1 THEN 1 ELSE 0)
        OBVIOUS
    <2>1. timesAsked' = [timesAsked EXCEPT ![addrs[r + 1]] = @ + 1]
        BY <1>6 DEF Send
    <2>2. addrs[i] = addrs[r + 1] => i = r + 1
        BY <1>1, <1>2, <1>6
    <2>3. timesAsked[addrs[i]] = q + (IF i <= r THEN 1 ELSE 0)
        BY <1>4
    <2>4. CASE i = r + 1
        <3>1. timesAsked'[addrs[i]] = timesAsked[addrs[i]] + 1
            BY <1>1, <1>2, <2>1, <2>4
        <3>2. timesAsked[addrs[i]] = q
            BY <1>6, <2>3, <2>4
        <3> QED
            BY <1>4, <1>6, <2>4, <3>1, <3>2
    <2>5. CASE i # r + 1
        <3>1. timesAsked'[addrs[i]] = timesAsked[addrs[i]]
            BY <1>1, <1>2, <2>1, <2>2, <2>5
        <3>2. i <= r <=> i <= r + 1
            BY <1>2, <1>6, <2>5
        <3> QED
            BY <2>3, <3>1, <3>2
    <2> QED
        BY <2>4, <2>5
<1>9. CASE r + 1 < n
    <2>1. r + 1 \in 0..(n - 1) /\ attempt + 1 = q * n + (r + 1)
        <3>1. q * n \in Nat
            BY <1>2, <1>4
        <3> QED
            BY <1>2, <1>4, <1>6, <1>9, <3>1
    <2> QED
        BY <1>1, <1>2, <1>3, <1>4, <1>7, <1>8, <2>1 DEF InTurns, n
<1>10. CASE r + 1 = n
    <2>1. attempt + 1 = (q + 1) * n + 0
        <3>1. q * n \in Nat /\ (q + 1) * n = q * n + n
            BY <1>2, <1>4
        <3> QED
            BY <1>2, <1>4, <1>6, <1>10, <3>1
    <2>2. \A i \in 1..n : timesAsked'[addrs[i]] = (q + 1) + (IF i <= 0 THEN 1 ELSE 0)
        <3> SUFFICES ASSUME NEW i \in 1..n
                     PROVE  timesAsked'[addrs[i]] = (q + 1) + (IF i <= 0 THEN 1 ELSE 0)
            OBVIOUS
        <3>1. i <= r + 1 /\ ~(i <= 0)
            BY <1>2, <1>6, <1>10
        <3> QED
            BY <1>4, <1>8, <3>1
    <2>3. q + 1 \in Nat /\ 0 \in 0..(n - 1)
        BY <1>2, <1>4
    <2> QED
        BY <1>1, <1>2, <1>3, <1>7, <2>1, <2>2, <2>3 DEF InTurns, n
<1> QED
    BY <1>2, <1>6, <1>9, <1>10

LEMMA SendKeeps ==
    ASSUME AttemptsIInv, Send
    PROVE  AttemptsIInv'
<1>1. InTurns(Sent)' /\ AddressInTurn \in Addr
    BY SendTakesTurns
<1> USE DEF AttemptsIInv, Send
<1>2. attempt \in Nat /\ attempt < MaxAttempts /\ Sent = attempt /\ Sent' = attempt + 1
    BY Ipv6Assumption DEF AttemptsTypeOK, AttemptsSound, Sent
<1>3. /\ \A a \in Addr : timesAsked[a] \in Nat /\ timesAsked[a] <= attempt
      /\ \A a \in Addr : timesAsked'[a] \in {timesAsked[a], timesAsked[a] + 1}
      /\ timesAsked' = [a \in Addr |-> timesAsked'[a]]
    <2>1. timesAsked \in [Addr -> 0..MaxAttempts] /\ MaxAttempts \in Nat
        BY Ipv6Assumption DEF AttemptsTypeOK
    <2>2. timesAsked' = [timesAsked EXCEPT ![AddressInTurn] = @ + 1]
        OBVIOUS
    <2>3. \A a \in Addr : timesAsked[a] <= attempt
        BY <1>2 DEF AttemptsSound
    <2> HIDE DEF AttemptsIInv, Send
    <2>4. \A a \in Addr : timesAsked[a] \in Nat
        BY <2>1
    <2>5. timesAsked' = [a \in Addr |-> timesAsked'[a]]
        BY <2>1, <2>2
    <2>6. \A a \in Addr : timesAsked'[a] \in {timesAsked[a], timesAsked[a] + 1}
        BY <2>1, <2>2
    <2> QED
        BY <2>3, <2>4, <2>5, <2>6
<1>4. \A a \in Addr : timesAsked'[a] \in Nat /\ timesAsked'[a] <= attempt + 1
    BY <1>2, <1>3
<1>5. AttemptsTypeOK'
    <2>1. timesAsked' \in [Addr -> 0..MaxAttempts]
        <3>1. \A a \in Addr : timesAsked'[a] \in 0..MaxAttempts
            BY <1>2, <1>4, Ipv6Assumption
        <3> QED
            BY <1>3, <3>1
    <2>2. source' \in {None} \cup Address
        <3>1. subnet # None => subnet \in [prefix : Address, len : 0..Width]
            BY DEF AttemptsTypeOK, Width
        <3>2. subnet # None => Sources(subnet) \subseteq Address
            BY <3>1, SourcesAgree
        <3> QED
            BY <3>2
    <2> QED
        BY <2>1, <2>2 DEF AttemptsTypeOK
<1>6. AddrsSound'
    BY DEF AddrsSound
<1>7. AttemptsSound'
    BY <1>1, <1>2, <1>4 DEF AttemptsSound
<1>8. AnswerSound'
    BY DEF AnswerSound
<1> QED
    BY <1>5, <1>6, <1>7, <1>8

\* The attempt ends, with the request or before the next.
LEMMA EndsKeeps ==
    ASSUME AttemptsIInv, NEW o \in Outcome, Ends(o)
    PROVE  AttemptsIInv'
<1> USE DEF AttemptsIInv
<1>1. /\ pc = "sent" /\ lastOutcome' = o /\ attempt' = attempt + 1
      /\ \/ /\ pc' = "answered"
            /\ \/ answer' = o /\ o = "other"
               \/ answer' = o /\ o = "retry" /\ IsLast
               \/ answer' = "502" /\ o = "error" /\ attempt + 1 = MaxAttempts
         \/ /\ pc' = "attempt" /\ answer' = answer /\ o # "other"
            /\ attempt + 1 # MaxAttempts
      /\ UNCHANGED <<subnet, addrs, source, timesAsked>>
    <2>1. attempt + 1 = MaxAttempts => IsLast
        BY Ipv6Assumption DEF IsLast
    <2> QED
        BY <2>1 DEF Ends, Respond, Outcome
<1>2. /\ attempt \in Nat /\ attempt < MaxAttempts /\ answer = None
      /\ addrs # <<>> /\ Sent = attempt + 1 /\ MaxAttempts \in Nat
    BY <1>1, Ipv6Assumption
    DEF AttemptsTypeOK, AddrsSound, AttemptsSound, AnswerSound, Sent
<1>3. IsLast => attempt + 1 = MaxAttempts
    BY <1>2 DEF IsLast
<1>4. Sent' = attempt + 1
    BY <1>1, <1>2 DEF Sent
<1>5. AttemptsTypeOK'
    <2>1. attempt' \in 0..MaxAttempts
        BY <1>1, <1>2
    <2> QED
        BY <1>1, <2>1 DEF AttemptsTypeOK, Outcome
<1>6. AddrsSound'
    BY <1>1, <1>2 DEF AddrsSound
<1>7. AttemptsSound'
    <2>1. InTurns(Sent)'
        <3>1. InTurns(attempt + 1)
            BY <1>1, <1>2 DEF AttemptsSound
        <3> QED
            BY <1>1, <1>4, <3>1 DEF InTurns
    <2>2. \A a \in Addr : timesAsked'[a] <= Sent'
        BY <1>1, <1>2, <1>4 DEF AttemptsSound
    <2>3. pc' = "attempt" => attempt' < MaxAttempts
        BY <1>1, <1>2
    <2> QED
        BY <1>1, <2>1, <2>2, <2>3 DEF AttemptsSound
<1>8. AnswerSound'
    BY <1>1, <1>2, <1>3, Ipv6Assumption DEF AnswerSound
<1> QED
    BY <1>5, <1>6, <1>7, <1>8

LEMMA AttemptsStep == AttemptsIInv /\ [AttemptsNext]_attemptsVars => AttemptsIInv'
<1> SUFFICES ASSUME AttemptsIInv, [AttemptsNext]_attemptsVars PROVE AttemptsIInv'
    OBVIOUS
<1>1. CASE AttemptsNext
    BY <1>1, CheckTargetKeeps, ResolveKeeps, ReadBodyKeeps, SendKeeps, EndsKeeps,
       LeavingKeeps
    DEF AttemptsNext, Works
<1>2. CASE UNCHANGED attemptsVars
    <2> USE <1>2 DEF attemptsVars
    <2>1. AttemptsTypeOK' /\ AddrsSound' /\ AnswerSound'
        BY DEF AttemptsIInv, AttemptsTypeOK, AddrsSound, AnswerSound
    <2>2. AttemptsSound'
        BY DEF AttemptsIInv, AttemptsSound, InTurns, Sent
    <2> QED
        BY <2>1, <2>2 DEF AttemptsIInv
<1> QED
    BY <1>1, <1>2

THEOREM AttemptsInductive == AttemptsSpec => []AttemptsIInv
BY AttemptsStart, AttemptsStep, PTL DEF AttemptsSpec

\* Types for any target, number of attempts and subnet.
THEOREM AttemptsTypeCorrect == AttemptsSpec => []AttemptsTypeOK
<1>1. AttemptsIInv => AttemptsTypeOK
    BY DEF AttemptsIInv
<1> QED
    BY AttemptsInductive, <1>1, PTL

\* For addresses of any length, and a prefix that ends anywhere in them: what
\* random_addr can draw is the subnet, all of it and nothing else.
THEOREM DrawsTheSubnet == AttemptsSpec => []SourcesAreTheSubnet
<1>1. AttemptsIInv => SourcesAreTheSubnet
    <2> SUFFICES ASSUME AttemptsIInv, subnet # None
                 PROVE  Sources(subnet) = {a \in Address : Prefix(a, subnet.len)
                                               = Prefix(subnet.prefix, subnet.len)}
        BY DEF SourcesAreTheSubnet
    <2>1. subnet \in [prefix : Address, len : 0..Width]
        BY DEF AttemptsIInv, AttemptsTypeOK, Width
    <2> QED
        BY <2>1, SourcesRead
<1> QED
    BY AttemptsInductive, <1>1, PTL

\* For any number of attempts and addresses: the attempts go round the addresses,
\* and only when they are used up the client gets 502 or a status to retry; a good
\* answer is passed on.
THEOREM GivesUpLate == AttemptsSpec => []GivesUpOnlyAtTheEnd
<1>1. AttemptsIInv => GivesUpOnlyAtTheEnd
    <2> SUFFICES ASSUME AttemptsIInv, answer \in {"502", "retry"}, addrs # <<>>
                 PROVE  \A i \in DOMAIN addrs :
                            timesAsked[addrs[i]] >= MaxAttempts \div Len(addrs)
        BY DEF AttemptsIInv, AnswerSound, GivesUpOnlyAtTheEnd
    <2> DEFINE n == Len(addrs)
    <2>1. pc = "answered" /\ attempt = MaxAttempts
        BY Ipv6Assumption DEF AttemptsIInv, AnswerSound
    <2>2. InTurns(MaxAttempts)
        <3>1. Sent = MaxAttempts
            BY <2>1, Ipv6Assumption DEF Sent
        <3> QED
            BY <2>1, <3>1 DEF AttemptsIInv, AttemptsSound
    <2>3. n \in Nat \ {0}
        BY DEF AttemptsIInv, AttemptsTypeOK
    <2>4. PICK q \in Nat, r \in 0..(n - 1) :
              /\ MaxAttempts = q * n + r
              /\ \A i \in DOMAIN addrs : timesAsked[addrs[i]] = q + (IF i <= r THEN 1 ELSE 0)
        BY <2>2 DEF InTurns
    <2> HIDE DEF n
    <2>5. MaxAttempts \div n = q
        BY <2>3, <2>4, DivIs
    <2>6. \A i \in DOMAIN addrs : timesAsked[addrs[i]] >= q
        BY <2>4
    <2> QED
        BY <2>5, <2>6 DEF n
<1> QED
    BY AttemptsInductive, <1>1, PTL
=============================================================================
