----------------------------- MODULE MCProxyPool -----------------------------
(* Instance of ProxyPool for TLC.                                           *)
EXTENDS ProxyPool

At(url, tags) == [url |-> url, tags |-> tags]

\* No file, a truncated one, a half-written one, one that changes a tag, one that
\* has a comment and names a proxy twice, and one that changes a tag before a proxy
\* whose url is cut.
MCContent ==
    {Absent, <<>>,
     <<At("a", {"x"})>>,
     <<At("a", {"y"}), At("b", {"x"})>>,
     <<At(NoUrl, {}), At("b", {}), At("a", {}), At("a", {"x"})>>,
     <<At("a", {}), At("c", {})>>}
=============================================================================
