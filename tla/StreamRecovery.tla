--------------------------- MODULE StreamRecovery ---------------------------
(***************************************************************************)
(* The task that pipes the body of an upstream response to the client and, *)
(* when the upstream breaks off, resumes it on another proxy               *)
(* (intermediate-proxy/src/stream.rs, build_streaming_response).           *)
(*                                                                         *)
(* The body is that of one resource of Size bytes, numbered 0..Size-1; a   *)
(* client that sent "Range: bytes=Offset-" wants those from Offset on.     *)
(* Upstream bodies are framed: they end only behind the last byte and      *)
(* anything else is an error.  While a response is piped, the pool may be  *)
(* reloaded and the health of the proxies changes.                         *)
(***************************************************************************)
EXTENDS Integers, Sequences, SequencesExt

CONSTANTS
    Proxy,          \* proxies, by url
    Pools,          \* lists of proxies the pool may hold
    Excluded,       \* the proxies with a tag of the route's exclude_tags
    Size,           \* bytes of the resource
    Offset,         \* where the range of the client starts, 0 without one
    MaxChunk,       \* bytes an upstream delivers at a time
    Buffer,         \* STREAM_CHUNK_BUFFER
    MaxElsewhere    \* reloads and changes of health by others in a behaviour

ASSUME StreamAssumption ==
    /\ Pools \subseteq Seq(Proxy) /\ Excluded \subseteq Proxy
    /\ Size \in Nat /\ Offset \in 0..Size
    /\ MaxChunk \in Nat \ {0} /\ Buffer \in Nat \ {0}
    /\ MaxElsewhere \in Nat

VARIABLES
    can_recover,    \* may the response be resumed (a cacheable or media GET)
    pc,             \* what the task awaits: read, ask, skip; or it looks; or is done
    current,        \* the proxy the stream comes from (current_url)
    pos,            \* number of the byte the stream delivers next
    broken,         \* the stream has delivered its error
    total,          \* total_bytes
    live,           \* the proxy list of the pool
    list,           \* the part of its snapshot the recovery has not looked at
    tried,          \* proxies tried for this response
    down,           \* proxies of tier Banned or Fatal
    fails,          \* fails[p]: failures counted against p since its last success
    sent,           \* the bytes put into the channel, by number
    queued,         \* chunks in the channel
    failed,         \* an error was put behind them
    outcome,        \* what the client knows
    searched,       \* history: the proxies of the last recovery's snapshot
    wasDown,        \* history: proxies that have been down
    elsewhere       \* history: reloads and changes of health by others

stream == <<current, pos, broken>>
channel == <<sent, queued, failed>>
others == <<live, down, wasDown, elsewhere>>
vars == <<can_recover, pc, stream, total, list, searched, tried, fails, channel, outcome, others>>

-----------------------------------------------------------------------------
Init ==
    /\ pc = "read"
    /\ can_recover \in BOOLEAN
    /\ tried \in SUBSET (Proxy \ Excluded)
    /\ current \in tried
    /\ live \in Pools /\ searched = {}
    /\ pos = Offset /\ broken = FALSE /\ total = 0
    /\ list = <<>>
    /\ down \in SUBSET Proxy
    /\ fails = [p \in Proxy |-> 0]
    /\ sent = <<>> /\ queued = 0 /\ failed = FALSE
    /\ outcome = "open"
    /\ wasDown = down /\ elsewhere = 0

\* Bytes m to n-1.
Bytes(m, n) == [i \in 1..(n - m) |-> m + i - 1]

\* tx.send waits for room; it fails when the client is gone, and the task ends.
Send(bytes, then) ==
    IF outcome = "gone"
    THEN pc' = "done" /\ UNCHANGED channel
    ELSE /\ queued < Buffer
         /\ sent' = sent \o bytes
         /\ queued' = queued + 1
         /\ pc' = then
         /\ UNCHANGED failed

\* A chunk of the stream goes to the client.
Chunk ==
    /\ pc = "read"
    /\ ~broken
    /\ \E n \in (pos + 1)..Size :
         /\ n - pos <= MaxChunk
         /\ pos' = n
         /\ total' = total + (n - pos)
         /\ Send(Bytes(pos, n), "read")
    /\ UNCHANGED <<can_recover, current, broken, list, searched, tried, fails, outcome, others>>

\* The stream ends; one that has delivered its error may end after it.
StreamEnds ==
    /\ pc = "read"
    /\ pos = Size \/ broken
    /\ pc' = "done"
    /\ UNCHANGED <<can_recover, stream, total, list, searched, tried, fails, channel, outcome, others>>

\* The stream delivers an error, also a second time.  Without recovery the
\* error goes to the client; otherwise it counts against the proxy, if the pool
\* still has it, and the proxies of the pool are looked at, whatever their tags.
StreamBreaks ==
    /\ pc = "read"
    /\ broken' = TRUE
    /\ IF can_recover
       THEN /\ fails' = IF current \in Range(live) THEN [fails EXCEPT ![current] = @ + 1]
                       ELSE fails
            /\ list' = live
            /\ searched' = Range(live)
            /\ pc' = "look"
            /\ UNCHANGED failed
       ELSE /\ outcome = "gone" \/ queued < Buffer
            /\ failed' = (outcome # "gone")
            /\ pc' = "done"
            /\ UNCHANGED <<fails, list, searched>>
    /\ UNCHANGED <<can_recover, current, pos, total, tried, sent, queued, outcome, others>>

\* Mutant of Look: what was asked is not remembered.
LookForgets ==
    /\ pc = "look"
    /\ IF list = <<>>
       THEN pc' = "done" /\ UNCHANGED <<list, tried>>
       ELSE IF Head(list) \in down \cup tried
       THEN list' = Tail(list) /\ UNCHANGED <<pc, tried>>
       ELSE pc' = "ask" /\ UNCHANGED <<list, tried>>
    /\ UNCHANGED <<can_recover, stream, total, searched, fails, channel, outcome, others>>

\* The next proxy of the snapshot, unless it is down or was tried; behind the
\* last one the response is closed.
Look ==
    /\ pc = "look"
    /\ IF list = <<>>
       THEN pc' = "done" /\ UNCHANGED <<list, tried>>
       ELSE IF Head(list) \in down \cup tried
       THEN list' = Tail(list) /\ UNCHANGED <<pc, tried>>
       ELSE /\ tried' = tried \cup {Head(list)}
            /\ pc' = "ask"
            /\ UNCHANGED list
    /\ UNCHANGED <<can_recover, stream, total, searched, fails, channel, outcome, others>>

\* Mutant of Refused: one refusal ends the recovery.
RefusedGivesUp ==
    /\ pc = "ask"
    /\ fails' = [fails EXCEPT ![Head(list)] = @ + 1]
    /\ list' = <<>>
    /\ pc' = "look"
    /\ UNCHANGED <<can_recover, stream, total, searched, tried, channel, outcome, others>>

\* The proxy asked for "bytes=total_bytes-" fails, times out or answers with
\* another status than 206 and 200.
Refused ==
    /\ pc = "ask"
    /\ fails' = [fails EXCEPT ![Head(list)] = @ + 1]
    /\ list' = Tail(list)
    /\ pc' = "look"
    /\ UNCHANGED <<can_recover, stream, total, searched, tried, channel, outcome, others>>

\* Its response becomes the stream.
Adopt(from, then) ==
    /\ pc = "ask"
    /\ fails' = [fails EXCEPT ![Head(list)] = 0]
    /\ current' = Head(list)
    /\ pos' = from
    /\ broken' = FALSE
    /\ list' = <<>>
    /\ pc' = then
    /\ UNCHANGED <<can_recover, total, searched, tried, channel, outcome, others>>

\* 206: the range asked for; there is none behind the last byte.
Partial == total < Size /\ Adopt(total, "read")

\* Mutant of Full: the whole resource is sent again.
FullUnskipped == Adopt(0, "read")

\* 200: the whole resource, of which what was delivered is skipped.
Full == Adopt(0, IF total > 0 THEN "skip" ELSE "read")

\* Mutant of SkipChunk: the chunk that reaches what is missing is dropped.
SkipWholeChunk ==
    /\ pc = "skip"
    /\ ~broken
    /\ \E n \in (pos + 1)..Size :
         /\ n - pos <= MaxChunk
         /\ pos' = n
         /\ pc' = IF n < total THEN "skip" ELSE "read"
         /\ UNCHANGED <<total, channel>>
    /\ UNCHANGED <<can_recover, current, broken, list, searched, tried, fails, outcome, others>>

\* A chunk of the skipped part; the end of one that reaches further is sent.
\* The bytes skipped are those before pos.
SkipChunk ==
    /\ pc = "skip"
    /\ ~broken
    /\ \E n \in (pos + 1)..Size :
         /\ n - pos <= MaxChunk
         /\ pos' = n
         /\ IF n <= total
            THEN /\ pc' = IF n < total THEN "skip" ELSE "read"
                 /\ UNCHANGED <<total, channel>>
            ELSE /\ total' = n
                 /\ Send(Bytes(total, n), "read")
    /\ UNCHANGED <<can_recover, current, broken, list, searched, tried, fails, outcome, others>>

\* Mutant of SkipBreaks: the stream is asked for the rest again and again.
SkipBreaksGoesOn ==
    /\ pc = "skip"
    /\ broken' = TRUE
    /\ UNCHANGED <<can_recover, pc, current, pos, total, list, searched, tried, fails, channel, outcome, others>>

\* The stream breaks while it is skipped: the error is swallowed and the
\* stream read on.
SkipBreaks ==
    /\ pc = "skip"
    /\ broken' = TRUE
    /\ pc' = "read"
    /\ UNCHANGED <<can_recover, current, pos, total, list, searched, tried, fails, channel, outcome, others>>

-----------------------------------------------------------------------------
\* The client takes a chunk, learns of the end behind the last one, or leaves.
Receive ==
    /\ outcome = "open"
    /\ queued > 0
    /\ queued' = queued - 1
    /\ UNCHANGED <<can_recover, pc, stream, total, list, searched, tried, fails, sent, failed, outcome, others>>

LearnEnd ==
    /\ outcome = "open"
    /\ queued = 0
    /\ pc = "done"
    /\ outcome' = IF failed THEN "error" ELSE "eof"
    /\ UNCHANGED <<can_recover, pc, stream, total, list, searched, tried, fails, channel, others>>

ClientLeaves ==
    /\ outcome = "open"
    /\ outcome' = "gone"
    /\ UNCHANGED <<can_recover, pc, stream, total, list, searched, tried, fails, channel, others>>

\* Another request or a prober takes a proxy down or brings it back.
Elsewhere(p) ==
    /\ pc # "done"
    /\ elsewhere < MaxElsewhere
    /\ elsewhere' = elsewhere + 1
    /\ down' = IF p \in down THEN down \ {p} ELSE down \cup {p}
    /\ wasDown' = wasDown \cup {p}
    /\ UNCHANGED <<can_recover, pc, stream, total, list, searched, tried, fails, channel,
                   outcome, live>>

\* The proxy list is reloaded.  A recovery under way keeps its snapshot and the
\* entries in it.
Reload ==
    /\ pc # "done"
    /\ elsewhere < MaxElsewhere
    /\ elsewhere' = elsewhere + 1
    /\ live' \in Pools \ {live}
    /\ UNCHANGED <<can_recover, pc, stream, total, list, searched, tried, fails, channel,
                   outcome, down, wasDown>>

Task ==
    \/ Chunk \/ StreamEnds \/ StreamBreaks
    \/ Look \/ Refused \/ Partial \/ Full
    \/ SkipChunk \/ SkipBreaks

Client == Receive \/ LearnEnd

Next == Task \/ Client \/ ClientLeaves \/ Reload \/ \E p \in Proxy : Elsewhere(p)

Spec == Init /\ [][Next]_vars

\* What the runtime and a timeout bring about.  Chunks and errors come from
\* upstreams, which nothing hurries, and the client may take its time.
Prompt == StreamEnds \/ (broken /\ StreamBreaks) \/ Look \/ Refused

FairSpec == Spec /\ WF_vars(Prompt)

-----------------------------------------------------------------------------
TypeOK ==
    /\ can_recover \in BOOLEAN
    /\ pc \in {"read", "look", "ask", "skip", "done"}
    /\ current \in Proxy
    /\ pos \in 0..Size /\ broken \in BOOLEAN /\ total \in 0..Size
    /\ live \in Pools /\ searched \subseteq Proxy
    /\ list \in Seq(Proxy) /\ (pc = "ask" => list # <<>>)
    /\ tried \subseteq Proxy /\ down \subseteq Proxy /\ wasDown \subseteq Proxy
    /\ fails \in [Proxy -> Nat]
    /\ sent \in Seq(0..(Size - 1))
    /\ queued \in 0..Buffer /\ failed \in BOOLEAN
    /\ outcome \in {"open", "eof", "error", "gone"}
    /\ elsewhere \in 0..MaxElsewhere

\* README: a stream that breaks is resumed.  Wherever it broke, whichever way
\* the next proxy answers and however its chunks fall, the client gets the
\* bytes from its offset on without a gap or a repetition.
ResumesWhereItBroke == \A i \in DOMAIN sent : sent[i] = Offset + i - 1

\* One response counts at most one failure against a proxy: it is asked at most
\* once, and is not blamed for the error of another one's stream.
BlamedAtMostOnce == \A p \in Proxy : fails[p] <= 1

\* The response ends before the client has the whole body, and not because the
\* client left.
ClosedEarly ==
    /\ can_recover /\ pc = "done" /\ outcome # "gone"
    /\ Len(sent) < Size - Offset

\* The response is closed early only when every proxy the pool had when the
\* stream broke was asked or was down at some time, with one exception: a stream
\* that breaks while what the client has is skipped is read on, and its end ends
\* the response.  Without the exception it is ResumesWhileOneIsLeft, which the
\* code does not keep.
GivesUpOnlyWhenNoneIsLeft ==
    [][ (~ClosedEarly /\ ClosedEarly') =>
            \/ pc = "look" /\ searched \subseteq tried \cup wasDown
            \/ pc = "read" /\ broken ]_vars

\* README: "mid-stream failures on cacheable/media GETs resume from the next
\* proxy".  The response is never closed early while the last recovery has a
\* proxy it did not ask and that was up all the time.
ResumesWhileOneIsLeft == ClosedEarly => searched \subseteq tried \cup wasDown

\* README: exclude_tags makes tagged proxies "ineligible for the route entirely";
\* a request that began on others stays on others.
ExcludedIsNeverAsked == Excluded \cap tried = {}

\* The task does not go round in circles: it ends, or waits for an upstream that
\* owes it bytes, or for room in the channel of a client that does not read.
OnlySilenceHoldsTheResponse ==
    <>[](\/ pc = "done" \/ outcome # "open"
         \/ pc \in {"read", "skip"} /\ ~broken /\ pos < Size
         \/ queued = Buffer)

\* The client gets what ClientBody promises.
Whole == [i \in 1..(Size - Offset) |-> Offset + i - 1]
Body == INSTANCE ClientBody WITH body <- sent
KeepsClientBody == Body!Spec
=============================================================================
