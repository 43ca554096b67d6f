----------------------------- MODULE MCTorPool ------------------------------
(* Instance of TorPool for TLC.                                            *)
EXTENDS TorPool

\* Answers as short as one that is read whole at once, shorter, and longer.
MCReplies ==
    {[atyp |-> "ipv4", domain |-> 0], [atyp |-> "ipv6", domain |-> 0]}
        \cup {[atyp |-> "domain", domain |-> n] : n \in {1, 2, 3, 4, 255}}
=============================================================================
