---------------------------- MODULE StreamProofs ----------------------------
(***************************************************************************)
(* Proofs about StreamRecovery, for a client that sent no range: the bytes *)
(* arrive in order whatever breaks, no proxy is blamed twice, a response   *)
(* is given up only when no proxy is left or a stream that is skipped      *)
(* breaks, and the client gets what ClientBody promises.                   *)
(***************************************************************************)
EXTENDS StreamRecovery, SequenceTheorems, TLAPS

-----------------------------------------------------------------------------
\* The stream stands where the client stands: what was sent is the beginning of
\* the resource, a healthy stream delivers the next byte of it, and one that is
\* skipped is still before it.
Position ==
    /\ ResumesWhereItBroke
    /\ pc # "done" => Len(sent) = total
    /\ (pc = "read" /\ ~broken) => pos = total
    /\ pc = "skip" => pos < total

\* Only proxies that were tried have failures, and neither the one the stream
\* comes from nor the one being asked has one.
Blame ==
    /\ BlamedAtMostOnce
    /\ current \in tried
    /\ \A p \in Proxy \ tried : fails[p] = 0
    /\ pc \in {"read", "skip"} => fails[current] = 0
    /\ pc = "ask" => fails[Head(list)] = 0 /\ Head(list) \in tried

\* A proxy of the snapshot that the recovery will not look at any more was tried
\* or has been down.
Covered ==
    /\ down \subseteq wasDown
    /\ pc \in {"look", "ask"} => searched \subseteq Range(list) \cup tried \cup wasDown

\* Without recovery nothing but the whole body ends without an error.
Ending ==
    /\ failed => ~can_recover
    /\ ~can_recover => pc \in {"read", "done"} /\ (pc = "read" => ~broken)
    /\ (pc = "done" /\ ~failed /\ ~can_recover /\ outcome = "open") => Len(sent) = Size
    /\ outcome \in {"eof", "error"} => pc = "done"

IInv == TypeOK /\ Position /\ Blame /\ Covered /\ Ending

-----------------------------------------------------------------------------
\* The bytes m to n-1 are a list of n - m of them.
LEMMA BytesType ==
    ASSUME NEW m \in Nat, NEW n \in Nat, m <= n, n <= Size
    PROVE  /\ Bytes(m, n) \in Seq(0..(Size - 1))
           /\ Len(Bytes(m, n)) = n - m
           /\ \A i \in 1..(n - m) : Bytes(m, n)[i] = m + i - 1
<1>1. n - m \in Nat
    OBVIOUS
<1>2. \A i \in 1..(n - m) : m + i - 1 \in 0..(Size - 1)
    BY StreamAssumption
<1>3. Bytes(m, n) \in [1..(n - m) -> 0..(Size - 1)]
    BY <1>2 DEF Bytes
<1>4. Bytes(m, n) \in Seq(0..(Size - 1)) /\ Len(Bytes(m, n)) = n - m
    <2> HIDE DEF Bytes
    <2>1. Bytes(m, n) \in Seq(0..(Size - 1))
        BY <1>1, <1>3, SeqDef
    <2>2. DOMAIN Bytes(m, n) = 1..(n - m)
        BY <1>3
    <2> QED
        BY <1>1, <2>1, <2>2, LenProperties
<1>5. \A i \in 1..(n - m) : Bytes(m, n)[i] = m + i - 1
    BY DEF Bytes
<1> QED
    BY <1>4, <1>5

\* The list is a beginning of what the client is to get.
Begins(s) == \A i \in DOMAIN s : s[i] = Offset + i - 1

\* What continues the beginning of the resource is a longer beginning.
LEMMA Continued ==
    ASSUME NEW s \in Seq(0..(Size - 1)), NEW m \in Nat, NEW n \in Nat, NEW longer,
           Offset = 0, Begins(s),
           m = Len(s), m <= n, n <= Size, longer = s \o Bytes(m, n)
    PROVE  /\ longer \in Seq(0..(Size - 1))
           /\ Len(longer) = n
           /\ Begins(longer)
<1>1. /\ Bytes(m, n) \in Seq(0..(Size - 1))
      /\ Len(Bytes(m, n)) = n - m
      /\ \A i \in 1..(n - m) : Bytes(m, n)[i] = m + i - 1
    BY BytesType
<1>2. /\ longer \in Seq(0..(Size - 1))
      /\ Len(longer) = m + (n - m)
      /\ \A i \in 1..(m + (n - m)) :
            longer[i] = IF i <= m THEN s[i] ELSE Bytes(m, n)[i - m]
    <2> HIDE DEF Bytes
    <2> DEFINE more == Bytes(m, n)
    <2>1. more \in Seq(0..(Size - 1))
        BY <1>1
    <2> HIDE DEF more
    <2>2. /\ s \o more \in Seq(0..(Size - 1))
          /\ Len(s \o more) = Len(s) + Len(more)
          /\ \A i \in 1..(Len(s) + Len(more)) :
                (s \o more)[i] = IF i <= Len(s) THEN s[i] ELSE more[i - Len(s)]
        BY <2>1, ConcatProperties, Zenon
    <2>3. longer = s \o more /\ Len(more) = n - m /\ Len(s) = m
        BY <1>1 DEF more
    <2>4. longer \in Seq(0..(Size - 1)) /\ Len(longer) = m + (n - m)
        BY <2>2, <2>3
    <2>5. \A i \in 1..(m + (n - m)) : longer[i] = IF i <= m THEN s[i] ELSE more[i - m]
        BY <2>2, <2>3
    <2> QED
        BY <2>4, <2>5 DEF more
<1>3. Len(longer) = n
    BY <1>2
<1>4. DOMAIN longer = 1..n
    BY <1>2, <1>3
<1>5. ASSUME NEW i \in 1..n PROVE longer[i] = Offset + i - 1
    <2>1. CASE i <= m
        <3>1. longer[i] = s[i] /\ i \in DOMAIN s
            BY <2>1, <1>2
        <3>2. s[i] = Offset + i - 1
            BY <3>1 DEF Begins
        <3> QED
            BY <3>1, <3>2
    <2>2. CASE i > m
        <3>1. longer[i] = Bytes(m, n)[i - m] /\ i - m \in 1..(n - m)
            BY <2>2, <1>2
        <3> QED
            BY <3>1, <1>1
    <2>3. i <= m \/ i > m
        OBVIOUS
    <2> QED
        BY <2>1, <2>2, <2>3, Zenon
<1>6. Begins(longer)
    BY <1>4, <1>5, Zenon DEF Begins
<1> QED
    BY <1>2, <1>3, <1>6

\* What Send does to the channel, when it sends the bytes the client misses.
LEMMA Sending ==
    ASSUME NEW n \in (total + 1)..Size, NEW then,
           Offset = 0, TypeOK, Position, pc # "done", Send(Bytes(total, n), then)
    PROVE  /\ ResumesWhereItBroke'
           /\ sent' \in Seq(0..(Size - 1)) /\ queued' \in 0..Buffer /\ failed' = failed
           /\ outcome = "gone" => pc' = "done" /\ sent' = sent
           /\ outcome # "gone" => pc' = then /\ Len(sent') = n /\ sent' = sent \o Bytes(total, n)
<1>1. /\ sent \in Seq(0..(Size - 1)) /\ queued \in 0..Buffer /\ Buffer \in Nat
      /\ total \in Nat /\ n \in Nat /\ total <= n /\ n <= Size /\ total = Len(sent)
      /\ ResumesWhereItBroke
    BY StreamAssumption DEF TypeOK, Position
<1>2. CASE outcome = "gone"
    <2>1. pc' = "done" /\ UNCHANGED channel
        BY <1>2 DEF Send
    <2> QED
        BY <1>1, <1>2, <2>1 DEF channel, ResumesWhereItBroke
<1>3. CASE outcome # "gone"
    <2>1. /\ queued < Buffer /\ sent' = sent \o Bytes(total, n)
          /\ queued' = queued + 1 /\ pc' = then /\ failed' = failed
        BY <1>3 DEF Send
    <2>2. Begins(sent)
        BY <1>1, Zenon DEF ResumesWhereItBroke, Begins
    <2>3. sent' \in Seq(0..(Size - 1)) /\ Len(sent') = n /\ Begins(sent')
        BY <1>1, <2>1, <2>2, Continued
    <2>4. ResumesWhereItBroke'
        BY <2>3, Zenon DEF ResumesWhereItBroke, Begins
    <2>5. queued' \in 0..Buffer
        BY <1>1, <2>1
    <2> QED
        BY <1>3, <2>1, <2>3, <2>4, <2>5
<1> QED
    BY <1>2, <1>3

-----------------------------------------------------------------------------
\* Every action keeps the types.
LEMMA TypeStep ==
    ASSUME Offset = 0, TypeOK, Position, Next
    PROVE  TypeOK'
<1> USE StreamAssumption
<1> DEFINE Bits == can_recover \in BOOLEAN /\ broken \in BOOLEAN /\ failed \in BOOLEAN
           Places == /\ pc \in {"read", "look", "ask", "skip", "done"}
                     /\ outcome \in {"open", "eof", "error", "gone"}
           Numbers == pos \in 0..Size /\ total \in 0..Size /\ queued \in 0..Buffer
           Lists == list \in Seq(Proxy) /\ (pc = "ask" => list # <<>>) /\ live \in Pools
                    /\ sent \in Seq(0..(Size - 1))
           Sets == /\ current \in Proxy /\ fails \in [Proxy -> Nat]
                   /\ tried \subseteq Proxy /\ down \subseteq Proxy /\ wasDown \subseteq Proxy
                   /\ searched \subseteq Proxy /\ elsewhere \in 0..MaxElsewhere
<1>1. TypeOK <=> Bits /\ Places /\ Numbers /\ Lists /\ Sets
    BY DEF TypeOK
<1>2. TypeOK' <=> Bits' /\ Places' /\ Numbers' /\ Lists' /\ Sets'
    BY DEF TypeOK
<1>3. Bits /\ Places /\ Numbers /\ Lists /\ Sets
    BY <1>1
<1>4. Len(sent) = total \/ pc = "done"
    BY DEF Position
<1>5. CASE Chunk
    <2>1. PICK n \in (pos + 1)..Size :
            /\ n - pos <= MaxChunk /\ pos' = n /\ total' = total + (n - pos)
            /\ Send(Bytes(pos, n), "read")
        BY <1>5 DEF Chunk
    <2>2. /\ pc = "read" /\ pos = total /\ n \in (total + 1)..Size /\ total' = n
          /\ Send(Bytes(total, n), "read")
        BY <1>3, <1>5, <2>1 DEF Chunk, Position
    <2>3. /\ sent' \in Seq(0..(Size - 1)) /\ queued' \in 0..Buffer /\ failed' = failed
          /\ pc' \in {"done", "read"}
        BY <2>2, Sending
    <2> QED
        BY <1>2, <1>3, <1>5, <2>1, <2>2, <2>3 DEF Chunk, others
<1>6. CASE StreamEnds
    BY <1>2, <1>3, <1>6 DEF StreamEnds, stream, channel, others
<1>7. CASE StreamBreaks
    <2>1. list' \in {list, live} /\ fails' \in [Proxy -> Nat]
        BY <1>3, <1>7 DEF StreamBreaks
    <2>4. searched' \subseteq Proxy /\ live \in Seq(Proxy)
        BY <1>3, <1>7, RangeOfSeq DEF StreamBreaks
    <2>3. failed' \in BOOLEAN
        BY <1>3, <1>7, Zenon DEF StreamBreaks
    <2>2. pc' \in {"look", "done"} /\ broken' \in BOOLEAN
        BY <1>7 DEF StreamBreaks
    <2> QED
        BY <1>2, <1>3, <1>7, <2>1, <2>2, <2>3, <2>4 DEF StreamBreaks, others
<1>8. CASE Look
    <2>1. CASE list = <<>>
        BY <1>2, <1>3, <1>8, <2>1 DEF Look, stream, channel, others
    <2>2. CASE list # <<>>
        <3>1. Head(list) \in Proxy /\ Tail(list) \in Seq(Proxy)
            BY <1>3, <2>2, HeadTailProperties
        <3>2. /\ list' \in {list, Tail(list)} /\ tried' \subseteq Proxy
              /\ pc' \in {"look", "ask"} /\ (pc' = "ask" => list' = list)
            BY <1>3, <1>8, <2>2, <3>1 DEF Look
        <3> QED
            BY <1>2, <1>3, <1>8, <2>2, <3>1, <3>2 DEF Look, stream, channel, others
    <2> QED
        BY <2>1, <2>2
<1>9. ASSUME Refused \/ Partial \/ Full PROVE TypeOK'
    <2>1. list # <<>>
        BY <1>3, <1>9 DEF Refused, Partial, Full, Adopt
    <2>2. Head(list) \in Proxy /\ Tail(list) \in Seq(Proxy)
        BY <1>3, <2>1, HeadTailProperties
    <2>3. CASE Refused
        <3>1. fails' \in [Proxy -> Nat]
            BY <1>3, <2>2, <2>3 DEF Refused
        <3> QED
            BY <1>2, <1>3, <2>2, <2>3, <3>1 DEF Refused, stream, channel, others
    <2>4. ASSUME NEW from \in 0..Size, NEW then \in {"read", "skip"}, Adopt(from, then)
          PROVE  TypeOK'
        <3>1. <<>> \in Seq(Proxy)
            BY EmptySeq
        <3>2. fails' \in [Proxy -> Nat]
            BY <1>3, <2>2, <2>4 DEF Adopt
        <3> QED
            BY <1>2, <1>3, <2>2, <2>4, <3>1, <3>2 DEF Adopt, channel, others
    <2>5. CASE Partial
        BY <1>3, <2>4, <2>5 DEF Partial
    <2>6. CASE Full
        <3>1. (IF total > 0 THEN "skip" ELSE "read") \in {"read", "skip"} /\ 0 \in 0..Size
            OBVIOUS
        <3> QED
            BY <2>4, <2>6, <3>1 DEF Full
    <2> QED
        BY <1>9, <2>3, <2>5, <2>6
<1>10. CASE SkipChunk
    <2>1. PICK n \in (pos + 1)..Size :
            /\ n - pos <= MaxChunk /\ pos' = n
            /\ IF n <= total
               THEN /\ pc' = IF n < total THEN "skip" ELSE "read"
                    /\ UNCHANGED <<total, channel>>
               ELSE total' = n /\ Send(Bytes(total, n), "read")
        BY <1>10 DEF SkipChunk
    <2>2. CASE n <= total
        BY <1>2, <1>3, <1>10, <2>1, <2>2 DEF SkipChunk, channel, others
    <2>3. CASE ~(n <= total)
        <3>1. n \in (total + 1)..Size /\ pc # "done" /\ total' = n /\ Send(Bytes(total, n), "read")
            BY <1>3, <1>10, <2>1, <2>3 DEF SkipChunk
        <3>2. /\ sent' \in Seq(0..(Size - 1)) /\ queued' \in 0..Buffer /\ failed' = failed
              /\ pc' \in {"done", "read"}
            BY <3>1, Sending
        <3> QED
            BY <1>2, <1>3, <1>10, <2>1, <3>1, <3>2 DEF SkipChunk, others
    <2> QED
        BY <2>2, <2>3
<1>11. CASE SkipBreaks
    BY <1>2, <1>3, <1>11 DEF SkipBreaks, channel, others
<1>12. CASE Receive
    BY <1>2, <1>3, <1>12 DEF Receive, stream, others
<1>13. CASE LearnEnd
    BY <1>2, <1>3, <1>13 DEF LearnEnd, stream, channel, others
<1>14. CASE ClientLeaves
    BY <1>2, <1>3, <1>14 DEF ClientLeaves, stream, channel, others
<1>15. ASSUME NEW p \in Proxy, Elsewhere(p) PROVE TypeOK'
    BY <1>2, <1>3, <1>15 DEF Elsewhere, stream, channel
<1>16. CASE Reload
    BY <1>2, <1>3, <1>16 DEF Reload, stream, channel
<1> QED
    BY <1>5, <1>6, <1>7, <1>8, <1>9, <1>10, <1>11, <1>12, <1>13, <1>14, <1>15, <1>16
       DEF Next, Task, Client

-----------------------------------------------------------------------------
\* Every action leaves the stream where the client stands.
LEMMA PositionStep ==
    ASSUME Offset = 0, TypeOK, Position, Next
    PROVE  Position'
<1> DEFINE Stands == /\ pc # "done" => Len(sent) = total
                     /\ (pc = "read" /\ ~broken) => pos = total
                     /\ pc = "skip" => pos < total
<1>1. ResumesWhereItBroke /\ Stands
    BY DEF Position
<1>2. SUFFICES ResumesWhereItBroke' /\ Stands'
    BY DEF Position
<1>3. pos \in 0..Size /\ total \in 0..Size /\ Size \in Nat
    BY StreamAssumption DEF TypeOK
<1>4. ASSUME UNCHANGED sent PROVE ResumesWhereItBroke'
    BY <1>1, <1>4 DEF ResumesWhereItBroke
<1>5. CASE Chunk
    <2>1. PICK n \in (pos + 1)..Size :
            pos' = n /\ total' = total + (n - pos) /\ Send(Bytes(pos, n), "read")
        BY <1>5 DEF Chunk
    <2>2. /\ pc = "read" /\ pos = total /\ n \in (total + 1)..Size /\ total' = n
          /\ Send(Bytes(total, n), "read")
        BY <1>1, <1>3, <1>5, <2>1 DEF Chunk
    <2> QED
        BY <1>1, <2>1, <2>2, Sending
<1>6. CASE StreamEnds
    BY <1>4, <1>6 DEF StreamEnds, channel
<1>7. CASE StreamBreaks
    BY <1>1, <1>4, <1>7 DEF StreamBreaks
<1>8. CASE Look
    BY <1>1, <1>4, <1>8 DEF Look, stream, channel
<1>9. CASE Refused
    BY <1>1, <1>4, <1>9 DEF Refused, stream, channel
<1>10. CASE Partial
    BY <1>1, <1>4, <1>10 DEF Partial, Adopt, channel
<1>11. CASE Full
    BY <1>1, <1>3, <1>4, <1>11 DEF Full, Adopt, channel
<1>12. CASE SkipChunk
    <2>1. PICK n \in (pos + 1)..Size :
            /\ pos' = n
            /\ IF n <= total
               THEN /\ pc' = IF n < total THEN "skip" ELSE "read"
                    /\ UNCHANGED <<total, channel>>
               ELSE total' = n /\ Send(Bytes(total, n), "read")
        BY <1>12 DEF SkipChunk
    <2>2. CASE n <= total
        BY <1>1, <1>3, <1>4, <1>12, <2>1, <2>2 DEF SkipChunk, channel
    <2>3. CASE ~(n <= total)
        <3>1. n \in (total + 1)..Size /\ pc # "done" /\ total' = n /\ Send(Bytes(total, n), "read")
            BY <1>3, <1>12, <2>1, <2>3 DEF SkipChunk
        <3> QED
            BY <1>1, <2>1, <3>1, Sending
    <2> QED
        BY <2>2, <2>3
<1>13. CASE SkipBreaks
    BY <1>1, <1>4, <1>13 DEF SkipBreaks, channel
<1>14. CASE Receive
    BY <1>1, <1>4, <1>14 DEF Receive, stream
<1>15. CASE LearnEnd
    BY <1>1, <1>4, <1>15 DEF LearnEnd, stream, channel
<1>16. CASE ClientLeaves
    BY <1>1, <1>4, <1>16 DEF ClientLeaves, stream, channel
<1>17. ASSUME NEW p \in Proxy, Elsewhere(p) PROVE ResumesWhereItBroke' /\ Stands'
    BY <1>1, <1>4, <1>17 DEF Elsewhere, stream, channel
<1>18. CASE Reload
    BY <1>1, <1>4, <1>18 DEF Reload, stream, channel
<1> QED
    BY <1>5, <1>6, <1>7, <1>8, <1>9, <1>10, <1>11, <1>12, <1>13, <1>14, <1>15, <1>16, <1>17,
       <1>18
       DEF Next, Task, Client

\* Every action blames a proxy that has no failure yet.
LEMMA BlameStep ==
    ASSUME TypeOK, Blame, Next
    PROVE  Blame'
<1>1. /\ fails \in [Proxy -> Nat] /\ list \in Seq(Proxy) /\ (pc = "ask" => list # <<>>)
      /\ current \in Proxy
    BY DEF TypeOK
<1>2. list # <<>> => Head(list) \in Proxy
    BY <1>1, HeadTailProperties
<1>3. CASE Chunk \/ SkipChunk
    <2>1. /\ pc \in {"read", "skip"} /\ pc' \in {"read", "skip", "done"}
          /\ UNCHANGED <<current, tried, fails>>
        BY <1>3 DEF Chunk, SkipChunk, Send
    <2> QED
        BY <2>1 DEF Blame, BlamedAtMostOnce
<1>4. CASE StreamEnds \/ SkipBreaks
    BY <1>4 DEF StreamEnds, SkipBreaks, stream, Blame, BlamedAtMostOnce
<1>5. CASE StreamBreaks
    <2>1. CASE can_recover
        BY <1>1, <1>5, <2>1 DEF StreamBreaks, Blame, BlamedAtMostOnce
    <2>2. CASE ~can_recover
        BY <1>5, <2>2 DEF StreamBreaks, Blame, BlamedAtMostOnce
    <2> QED
        BY <2>1, <2>2
<1>6. CASE Look
    BY <1>2, <1>6 DEF Look, stream, Blame, BlamedAtMostOnce
<1>7. CASE Refused
    BY <1>1, <1>2, <1>7 DEF Refused, stream, Blame, BlamedAtMostOnce
<1>8. CASE Partial \/ Full
    <2>1. /\ pc = "ask" /\ fails' = [fails EXCEPT ![Head(list)] = 0]
          /\ current' = Head(list) /\ pc' \in {"read", "skip"} /\ UNCHANGED tried
        BY <1>8 DEF Partial, Full, Adopt
    <2> QED
        BY <1>1, <1>2, <2>1 DEF Blame, BlamedAtMostOnce
<1>9. CASE Receive \/ LearnEnd \/ ClientLeaves \/ Reload \/ \E p \in Proxy : Elsewhere(p)
    <2>1. UNCHANGED <<pc, current, list, tried, fails>>
        BY <1>9 DEF Receive, LearnEnd, ClientLeaves, Reload, Elsewhere, stream
    <2> QED
        BY <2>1 DEF Blame, BlamedAtMostOnce
<1> QED
    BY <1>3, <1>4, <1>5, <1>6, <1>7, <1>8, <1>9 DEF Next, Task, Client

\* The elements of a list are its head and those of its tail.
LEMMA HeadAndTail ==
    ASSUME NEW S, NEW s \in Seq(S), s # <<>>
    PROVE  Range(s) \subseteq {Head(s)} \cup Range(Tail(s))
<1>1. /\ Head(s) = s[1] /\ DOMAIN s = 1..Len(s) /\ Len(s) \in Nat
      /\ Tail(s) \in Seq(S) /\ Len(Tail(s)) = Len(s) - 1
      /\ \A i \in 1..Len(Tail(s)) : Tail(s)[i] = s[i + 1]
    BY HeadTailProperties, LenProperties
<1>2. DOMAIN Tail(s) = 1..(Len(s) - 1)
    BY <1>1, LenProperties
<1>3. SUFFICES ASSUME NEW i \in 1..Len(s), s[i] # Head(s)
               PROVE  s[i] \in Range(Tail(s))
    BY <1>1 DEF Range
<1>4. i - 1 \in 1..(Len(s) - 1) /\ (i - 1) + 1 = i
    BY <1>1, <1>3
<1>5. Tail(s)[i - 1] = s[i]
    BY <1>1, <1>4
<1> QED
    BY <1>2, <1>4, <1>5 DEF Range

\* Every action that passes a proxy of the snapshot by has a reason for it.
LEMMA CoveredStep ==
    ASSUME TypeOK, Blame, Covered, Next
    PROVE  Covered'
<1>1. list \in Seq(Proxy) /\ (pc = "ask" => list # <<>>)
    BY DEF TypeOK
<1>2. list # <<>> => Range(list) \subseteq {Head(list)} \cup Range(Tail(list))
    BY <1>1, HeadAndTail
<1>3. CASE Chunk \/ SkipChunk
    <2>1. pc' \in {"read", "skip", "done"} /\ UNCHANGED <<searched, tried, down, wasDown>>
        BY <1>3 DEF Chunk, SkipChunk, Send, others
    <2> QED
        BY <2>1 DEF Covered
<1>4. CASE StreamEnds \/ SkipBreaks
    BY <1>4 DEF StreamEnds, SkipBreaks, others, Covered
<1>5. CASE StreamBreaks
    BY <1>5 DEF StreamBreaks, others, Covered
<1>6. CASE Look
    <2>1. CASE list = <<>>
        BY <1>6, <2>1 DEF Look, others, Covered
    <2>2. CASE list # <<>> /\ Head(list) \in down \cup tried
        <3>1. /\ pc = "look" /\ list' = Tail(list)
              /\ UNCHANGED <<pc, searched, tried, down, wasDown>>
            BY <1>6, <2>2 DEF Look, others
        <3>2. Head(list) \in tried \cup wasDown
            BY <2>2 DEF Covered
        <3>3. searched \subseteq Range(list) \cup tried \cup wasDown /\ down \subseteq wasDown
            BY <3>1 DEF Covered
        <3> QED
            BY <1>2, <2>2, <3>1, <3>2, <3>3 DEF Covered
    <2>3. CASE list # <<>> /\ Head(list) \notin down \cup tried
        BY <1>6, <2>3 DEF Look, others, Covered
    <2> QED
        BY <2>1, <2>2, <2>3
<1>7. CASE Refused
    <2>1. Head(list) \in tried /\ list # <<>>
        BY <1>1, <1>7 DEF Refused, Blame
    <2> QED
        BY <1>2, <1>7, <2>1 DEF Refused, others, Covered
<1>8. CASE Partial \/ Full
    BY <1>8 DEF Partial, Full, Adopt, others, Covered
<1>9. CASE Receive \/ LearnEnd \/ ClientLeaves
    BY <1>9 DEF Receive, LearnEnd, ClientLeaves, others, Covered
<1>10. ASSUME NEW p \in Proxy, Elsewhere(p) PROVE Covered'
    BY <1>10 DEF Elsewhere, Covered
<1>11. CASE Reload
    BY <1>11 DEF Reload, Covered
<1> QED
    BY <1>3, <1>4, <1>5, <1>6, <1>7, <1>8, <1>9, <1>10, <1>11 DEF Next, Task, Client

\* Every action ends an unrecoverable response as it must.
LEMMA EndingStep ==
    ASSUME TypeOK, Position, Ending, Next
    PROVE  Ending'
<1>1. pos \in 0..Size /\ total \in 0..Size /\ Size \in Nat
    BY StreamAssumption DEF TypeOK
<1>2. CASE Chunk
    BY <1>2 DEF Chunk, Send, channel, others, Ending
<1>3. CASE StreamEnds
    <2>1. CASE ~can_recover
        <3>1. pos = Size /\ pos = total /\ Len(sent) = total
            BY <1>3, <2>1 DEF StreamEnds, Ending, Position
        <3> QED
            BY <1>3, <2>1, <3>1 DEF StreamEnds, channel, Ending
    <2>2. CASE can_recover
        BY <1>3, <2>2 DEF StreamEnds, channel, Ending
    <2> QED
        BY <2>1, <2>2
<1>4. CASE StreamBreaks
    BY <1>4 DEF StreamBreaks, Ending
<1>5. CASE Look
    BY <1>5 DEF Look, channel, Ending
<1>6. CASE Refused
    BY <1>6 DEF Refused, stream, channel, Ending
<1>7. CASE Partial \/ Full
    BY <1>7 DEF Partial, Full, Adopt, channel, Ending
<1>8. CASE SkipChunk
    BY <1>8 DEF SkipChunk, Send, channel, others, Ending
<1>9. CASE SkipBreaks
    BY <1>9 DEF SkipBreaks, channel, Ending
<1>10. CASE Receive
    BY <1>10 DEF Receive, stream, Ending
<1>11. CASE LearnEnd
    BY <1>11 DEF LearnEnd, stream, channel, Ending
<1>12. CASE ClientLeaves
    BY <1>12 DEF ClientLeaves, stream, channel, Ending
<1>13. ASSUME NEW p \in Proxy, Elsewhere(p) PROVE Ending'
    BY <1>13 DEF Elsewhere, stream, channel, Ending
<1>14. CASE Reload
    BY <1>14 DEF Reload, stream, channel, Ending
<1> QED
    BY <1>2, <1>3, <1>4, <1>5, <1>6, <1>7, <1>8, <1>9, <1>10, <1>11, <1>12, <1>13, <1>14
       DEF Next, Task, Client

-----------------------------------------------------------------------------
\* The inductive invariant holds, for a client that sent no range.
THEOREM Inductive ==
    ASSUME Offset = 0
    PROVE  Spec => []IInv
<1>1. Init => IInv
    <2> SUFFICES ASSUME Init PROVE IInv
        OBVIOUS
    <2>1. /\ <<>> \in Seq(Proxy) /\ <<>> \in Seq(0..(Size - 1))
          /\ Len(<<>>) = 0 /\ DOMAIN <<>> = {}
        BY EmptySeq
    <2>2. fails \in [Proxy -> Nat] /\ \A p \in Proxy : fails[p] = 0
        BY DEF Init
    <2>3. current \in Proxy /\ tried \subseteq Proxy /\ current \in tried
        BY DEF Init
    <2>4. TypeOK
        <3>1. can_recover \in BOOLEAN /\ broken \in BOOLEAN /\ failed \in BOOLEAN
            BY Zenon DEF Init
        <3>2. /\ pos \in 0..Size /\ total \in 0..Size /\ queued \in 0..Buffer
              /\ elsewhere \in 0..MaxElsewhere
            BY StreamAssumption DEF Init
        <3>3. /\ list \in Seq(Proxy) /\ sent \in Seq(0..(Size - 1))
              /\ live \in Pools /\ searched \subseteq Proxy
            BY <2>1 DEF Init
        <3>4. down \subseteq Proxy /\ wasDown \subseteq Proxy /\ pc = "read" /\ outcome = "open"
            BY DEF Init
        <3> QED
            BY <2>2, <2>3, <3>1, <3>2, <3>3, <3>4 DEF TypeOK
    <2>5. Position
        BY <2>1, StreamAssumption DEF Init, Position, ResumesWhereItBroke
    <2>6. Blame
        BY <2>2, <2>3 DEF Init, Blame, BlamedAtMostOnce
    <2>7. Covered /\ Ending
        BY DEF Init, Covered, Ending
    <2> QED
        BY <2>4, <2>5, <2>6, <2>7 DEF IInv
<1>2. IInv /\ [Next]_vars => IInv'
    <2>1. ASSUME IInv, Next PROVE IInv'
        BY <2>1, TypeStep, PositionStep, BlameStep, CoveredStep, EndingStep DEF IInv
    <2>2. ASSUME IInv, UNCHANGED vars PROVE IInv'
        <3>1. TypeOK /\ Position /\ Blame /\ Covered /\ Ending
            BY <2>2 DEF IInv
        <3>2. TypeOK'
            BY <2>2, <3>1 DEF TypeOK, vars, stream, channel, others
        <3>3. Position'
            BY <2>2, <3>1 DEF Position, ResumesWhereItBroke, vars, stream, channel
        <3>4. Blame'
            BY <2>2, <3>1 DEF Blame, BlamedAtMostOnce, vars, stream
        <3>5. Covered' /\ Ending'
            BY <2>2, <3>1 DEF Covered, Ending, vars, stream, channel, others
        <3> QED
            BY <3>2, <3>3, <3>4, <3>5 DEF IInv
    <2> QED
        BY <2>1, <2>2
<1> QED
    BY <1>1, <1>2, PTL DEF Spec

\* The position, the channel and the bookkeeping of a response keep their types,
\* and the channel never holds more chunks than it has room for (stream.rs:103-138).
THEOREM TypeCorrect ==
    ASSUME Offset = 0
    PROVE  Spec => []TypeOK
<1>1. IInv => TypeOK
    BY DEF IInv
<1> QED
    BY <1>1, Inductive, PTL

\* Without a range from the client, the bytes put into its channel are those of
\* the body from the first on, without a gap or a repetition, wherever and
\* however often the upstream breaks (stream.rs, the resumption at total_bytes
\* and the skipping of a full answer).
THEOREM BytesInOrder ==
    ASSUME Offset = 0
    PROVE  Spec => []ResumesWhereItBroke
<1>1. IInv => ResumesWhereItBroke
    BY DEF IInv, Position
<1> QED
    BY <1>1, Inductive, PTL

\* One response counts at most one failure against any proxy (stream.rs,
\* record_failure beside tried_proxies).
THEOREM BlamedOnce ==
    ASSUME Offset = 0
    PROVE  Spec => []BlamedAtMostOnce
<1>1. IInv => BlamedAtMostOnce
    BY DEF IInv, Blame
<1> QED
    BY <1>1, Inductive, PTL

\* A response that may be resumed is closed early, the client being there, only
\* behind the loop over a snapshot of which every proxy was tried or has been
\* down, or behind a stream that broke while it was skipped (stream.rs, the loop
\* over the snapshot; :240 and :281).
THEOREM GivesUpLast ==
    ASSUME Offset = 0
    PROVE  Spec => GivesUpOnlyWhenNoneIsLeft
<1> DEFINE NoneIsLeft == pc = "look" /\ searched \subseteq tried \cup wasDown
           CutShort == pc = "read" /\ broken
           GivesUp == (~ClosedEarly /\ ClosedEarly') => NoneIsLeft \/ CutShort
<1>1. ASSUME IInv, Next PROVE GivesUp
    <2> SUFFICES ASSUME ~ClosedEarly, ClosedEarly', ~CutShort PROVE NoneIsLeft
        OBVIOUS
    <2>1. can_recover' /\ pc' = "done" /\ outcome' # "gone" /\ Len(sent') < Size
        BY StreamAssumption DEF ClosedEarly
    <2>2. /\ pc # "done" => Len(sent) = total
          /\ (pc = "read" /\ ~broken) => pos = total
        BY <1>1 DEF IInv, Position
    <2>3. CASE Look
        <3>1. pc = "look" /\ list = <<>>
            BY <2>1, <2>3 DEF Look
        <3>2. Range(list) = {}
            BY <3>1 DEF Range
        <3> QED
            BY <1>1, <3>1, <3>2 DEF IInv, Covered
    <2>4. CASE StreamEnds
        <3>1. pc = "read" /\ pos = Size /\ UNCHANGED sent
            BY <2>4 DEF StreamEnds, channel
        <3>2. Len(sent) = Size /\ Size \in Nat
            BY <2>2, <3>1, StreamAssumption
        <3> QED
            BY <2>1, <3>1, <3>2
    <2>5. CASE Chunk \/ SkipChunk
        BY <2>1, <2>5 DEF Chunk, SkipChunk, Send
    <2>6. CASE StreamBreaks \/ Refused \/ Partial \/ Full \/ SkipBreaks
        BY <2>1, <2>6 DEF StreamBreaks, Refused, Partial, Full, Adopt, SkipBreaks
    <2>7. CASE Receive \/ LearnEnd \/ ClientLeaves
        <3>1. UNCHANGED <<can_recover, pc, sent>> /\ outcome # "gone"
            BY <2>7 DEF Receive, LearnEnd, ClientLeaves, channel
        <3> QED
            BY <2>1, <3>1, StreamAssumption DEF ClosedEarly
    <2>8. CASE Reload \/ \E p \in Proxy : Elsewhere(p)
        BY <2>1, <2>8 DEF Reload, Elsewhere
    <2> QED
        BY <1>1, <2>3, <2>4, <2>5, <2>6, <2>7, <2>8 DEF Next, Task, Client
<1>2. IInv /\ [Next]_vars => [GivesUp]_vars
    BY <1>1
<1> QED
    BY <1>2, Inductive, PTL DEF Spec, GivesUpOnlyWhenNoneIsLeft

-----------------------------------------------------------------------------
\* A beginning of what the client is to get is a prefix of the body, and one as
\* long as the resource is the body.
LEMMA Prefix ==
    ASSUME NEW s \in Seq(0..(Size - 1)), NEW n \in Nat,
           Offset = 0, Begins(s), Len(s) = n, n <= Size
    PROVE  /\ s = SubSeq(Whole, 1, n)
           /\ n = Size => s = Whole
           /\ Len(Whole) = Size
<1>1. /\ Whole \in [1..Size -> 0..(Size - 1)] /\ Size \in Nat
      /\ \A i \in 1..Size : Whole[i] = i - 1
    BY StreamAssumption DEF Whole
<1>2. \A i \in 1..n : s[i] = i - 1
    <2>1. DOMAIN s = 1..n
        BY LenProperties
    <2> QED
        BY <2>1 DEF Begins
<1> HIDE DEF Whole
<1>3. Whole \in Seq(0..(Size - 1)) /\ Len(Whole) = Size
    <2>1. Whole \in Seq(0..(Size - 1))
        BY <1>1, SeqDef
    <2>2. DOMAIN Whole = 1..Size
        BY <1>1
    <2> QED
        BY <1>1, <2>1, <2>2, LenProperties
<1>4. s = SubSeq(Whole, 1, n)
    <2>1. \A i \in 1..n : Whole[i] \in 0..(Size - 1)
        BY <1>1
    <2>2. /\ SubSeq(Whole, 1, n) \in Seq(0..(Size - 1))
          /\ Len(SubSeq(Whole, 1, n)) = IF 1 <= n THEN n - 1 + 1 ELSE 0
          /\ \A i \in 1..(n - 1 + 1) : SubSeq(Whole, 1, n)[i] = Whole[1 + i - 1]
        BY <2>1, SubSeqProperties
    <2>3. Len(SubSeq(Whole, 1, n)) = n
        BY <2>2
    <2>4. \A i \in 1..n : SubSeq(Whole, 1, n)[i] = i - 1
        BY <1>1, <2>2
    <2>5. \A i \in 1..Len(s) : s[i] = SubSeq(Whole, 1, n)[i]
        BY <1>2, <2>4
    <2> QED
        BY <2>2, <2>3, <2>5, SeqEqual
<1>5. n = Size => s = Whole
    <2> SUFFICES ASSUME n = Size PROVE s = Whole
        OBVIOUS
    <2>1. \A i \in 1..Len(s) : s[i] = Whole[i]
        BY <1>1, <1>2
    <2> QED
        BY <1>3, <2>1, SeqEqual
<1> QED
    BY <1>3, <1>4, <1>5

\* Whatever happens behind the response, its body is one that ClientBody allows
\* (stream.rs, build_streaming_response as a whole).
THEOREM ImplementsClientBody ==
    ASSUME Offset = 0
    PROVE  Spec => KeepsClientBody
<1> DEFINE promise == <<can_recover, sent, outcome>>
<1>1. Init => Body!Init
    BY DEF Init, Body!Init
<1>2. ASSUME IInv, IInv', [Next]_vars
      PROVE  Body!Next \/ UNCHANGED promise
    <2>1. /\ sent \in Seq(0..(Size - 1)) /\ Begins(sent)
          /\ pc # "done" => Len(sent) = total
          /\ total \in 0..Size /\ Size \in Nat
        BY <1>2, StreamAssumption DEF IInv, TypeOK, Position, ResumesWhereItBroke, Begins
    <2>2. ASSUME NEW n \in (total + 1)..Size, pc \in {"read", "skip"},
                 Send(Bytes(total, n), "read"), UNCHANGED <<can_recover, outcome>>
          PROVE  Body!Next \/ UNCHANGED promise
        <3>1. CASE outcome = "gone"
            BY <2>2, <3>1 DEF Send, channel
        <3>2. CASE outcome # "gone"
            <4>1. outcome = "open"
                BY <1>2, <2>2, <3>2 DEF IInv, TypeOK, Ending
            <4>2. sent' \in Seq(0..(Size - 1)) /\ Begins(sent') /\ Len(sent') = n
                BY <1>2, <2>2, <3>2, Sending DEF IInv, TypeOK, Position, ResumesWhereItBroke, Begins
            <4>3. n \in Nat /\ n <= Size /\ n > Len(sent)
                BY <2>1, <2>2
            <4>4. sent' = SubSeq(Whole, 1, n) /\ Len(Whole) = Size
                BY <4>2, <4>3, Prefix
            <4>5. n \in (Len(sent) + 1)..Len(Whole)
                BY <2>1, <2>2, <4>4
            <4> QED
                BY <2>2, <4>1, <4>4, <4>5 DEF Body!Next, Body!More
        <3> QED
            BY <3>1, <3>2
    <2>3. CASE Chunk
        <3>1. PICK n \in (pos + 1)..Size : Send(Bytes(pos, n), "read")
            BY <2>3 DEF Chunk
        <3>2. pc = "read" /\ pos = total /\ UNCHANGED <<can_recover, outcome>>
            BY <1>2, <2>3 DEF Chunk, IInv, Position
        <3> QED
            BY <2>2, <3>1, <3>2
    <2>4. CASE SkipChunk
        <3>1. PICK n \in (pos + 1)..Size :
                IF n <= total THEN UNCHANGED <<total, channel>> ELSE Send(Bytes(total, n), "read")
            BY <2>4 DEF SkipChunk
        <3>2. pc = "skip" /\ UNCHANGED <<can_recover, outcome>>
            BY <2>4 DEF SkipChunk
        <3>3. CASE n <= total
            BY <3>1, <3>2, <3>3 DEF channel
        <3>4. CASE ~(n <= total)
            <4>1. n \in (total + 1)..Size
                BY <1>2, <2>1, <3>4 DEF IInv, TypeOK
            <4> QED
                BY <2>2, <3>1, <3>2, <3>4, <4>1
        <3> QED
            BY <3>3, <3>4
    <2>5. CASE LearnEnd
        <3>1. CASE failed
            BY <1>2, <2>5, <3>1 DEF LearnEnd, channel, IInv, Ending, Body!Next, Body!Error
        <3>2. CASE ~failed
            <4>1. ~can_recover => sent = Whole
                <5> SUFFICES ASSUME ~can_recover PROVE sent = Whole
                    OBVIOUS
                <5>1. Len(sent) = Size
                    BY <1>2, <2>5, <3>2 DEF LearnEnd, IInv, Ending
                <5> QED
                    BY <2>1, <5>1, Prefix
            <4> QED
                BY <2>5, <3>2, <4>1 DEF LearnEnd, channel, Body!Next, Body!Eof
        <3> QED
            BY <3>1, <3>2
    <2>6. CASE ClientLeaves
        BY <2>6 DEF ClientLeaves, channel, Body!Next, Body!Leave
    <2>7. CASE StreamEnds \/ StreamBreaks \/ Look \/ Refused \/ Partial \/ Full \/ SkipBreaks
               \/ Receive \/ Reload \/ \E p \in Proxy : Elsewhere(p)
        BY <2>7 DEF StreamEnds, StreamBreaks, Look, Refused, Partial, Full, Adopt, SkipBreaks,
                    Receive, Reload, Elsewhere, channel
    <2>8. CASE UNCHANGED vars
        BY <2>8 DEF vars, channel
    <2> QED
        BY <1>2, <2>3, <2>4, <2>5, <2>6, <2>7, <2>8 DEF Next, Task, Client
<1>3. ASSUME IInv, IInv', [Next]_vars PROVE [Body!Next]_promise
    BY <1>2, <1>3
<1> QED
    BY <1>1, <1>3, Inductive, PTL DEF Spec, KeepsClientBody, Body!Spec
=============================================================================
