----------------------------- MODULE ClientBody -----------------------------
(***************************************************************************)
(* What a client may rely on for the body of a streamed response, whatever *)
(* happens to the upstreams behind it: the bytes it gets are the bytes of  *)
(* the body, in order and without a gap; an error is reported only for a   *)
(* response that cannot be resumed; and of such a response a body that     *)
(* ends without an error is complete.                                      *)
(***************************************************************************)
EXTENDS Naturals, Sequences

CONSTANTS
    Whole           \* the body, a sequence of bytes

VARIABLES
    can_recover,    \* can the response be resumed on another proxy
    body,           \* what has been sent to the client
    outcome         \* what the client knows: open, eof, error, or it is gone

Init == can_recover \in BOOLEAN /\ body = <<>> /\ outcome = "open"

More ==
    /\ outcome = "open"
    /\ \E n \in (Len(body) + 1)..Len(Whole) : body' = SubSeq(Whole, 1, n)
    /\ UNCHANGED <<can_recover, outcome>>

\* A body that could be resumed may end early all the same: the code closes the
\* response when no proxy is left.
Eof ==
    /\ outcome = "open"
    /\ can_recover \/ body = Whole
    /\ outcome' = "eof"
    /\ UNCHANGED <<can_recover, body>>

Error ==
    /\ outcome = "open"
    /\ ~can_recover
    /\ outcome' = "error"
    /\ UNCHANGED <<can_recover, body>>

Leave ==
    /\ outcome = "open"
    /\ outcome' = "gone"
    /\ UNCHANGED <<can_recover, body>>

Next == More \/ Eof \/ Error \/ Leave

Spec == Init /\ [][Next]_<<can_recover, body, outcome>>
=============================================================================
