------------------------------- MODULE Matcher -------------------------------
(***************************************************************************)
(* The static part of a route's match table                                *)
(* (intermediate-proxy/src/route/matcher.rs, parse_matcher of config.rs).  *)
(*                                                                         *)
(* A Lua table is a record of the keys that are present with a value of    *)
(* the type the code asks for: a value of another type counts as absent.   *)
(* A host is a sequence of labels and a pattern for it one whose first     *)
(* label may be "*"; a path is a sequence of characters and a glob one of  *)
(* characters and the wildcards.  Names are compared without case.  What a *)
(* regular expression accepts is up to the library: it is the set of texts *)
(* it matches.                                                             *)
(***************************************************************************)
EXTENDS Naturals, Sequences, SequencesExt

Wildcards == {"*", "**", "?"}

IsText(s) == s \in Seq(Range(s))

\* The texts of a match table; a name has a label.
IsMatch(m) ==
    /\ "host" \in DOMAIN m => IsText(m.host) /\ m.host # <<>>
    /\ "path" \in DOMAIN m => IsText(m.path)

-----------------------------------------------------------------------------
(* What parse_matcher makes of the table.                                  *)

\* A name that begins with "*." is a suffix, which stands for its apex too.
HostMatch(m) ==
    IF "host_regex" \in DOMAIN m THEN [kind |-> "regex", texts |-> m.host_regex]
    ELSE IF "host" \notin DOMAIN m THEN [kind |-> "any"]
    ELSE IF m.host = <<"*">> THEN [kind |-> "any"]
    ELSE IF Head(m.host) = "*" THEN [kind |-> "suffix", labels |-> Tail(m.host)]
    ELSE [kind |-> "exact", labels |-> m.host]

\* The glob ends in a slash and "**", and has no other wildcard.
IsPlainPrefix(g) ==
    /\ IsSuffix(<<"/", "**">>, g)
    /\ \A i \in 1..(Len(g) - 2) : g[i] \notin Wildcards

\* Two forms are short cuts: the one that takes everything, and a prefix, which
\* goes without the slash.
PathMatch(m) ==
    IF "path_regex" \in DOMAIN m THEN [kind |-> "regex", texts |-> m.path_regex]
    ELSE IF "path" \notin DOMAIN m THEN [kind |-> "any"]
    ELSE IF m.path \in {<<"*">>, <<"/", "**">>} THEN [kind |-> "any"]
    ELSE IF IsPlainPrefix(m.path)
    THEN [kind |-> "prefix", text |-> SubSeq(m.path, 1, Len(m.path) - 2)]
    ELSE [kind |-> "glob", text |-> m.path]

\* An empty list of methods is no list.
ParseMatcher(m) ==
    [host |-> HostMatch(m), path |-> PathMatch(m),
     methods |-> IF "methods" \in DOMAIN m THEN m.methods ELSE {},
     hasPredicate |-> "predicate" \in DOMAIN m]

-----------------------------------------------------------------------------
(* matches_static.                                                         *)

HostMatches(h, host) ==
    CASE h.kind = "any"    -> TRUE
      [] h.kind = "exact"  -> host = h.labels
      [] h.kind = "suffix" -> IsSuffix(h.labels, host)
      [] h.kind = "regex"  -> host \in h.texts

\* The positions in path p that the regex of a glob can have reached behind the
\* token, from one of S.
Reach(p, S, token) ==
    CASE token = "**" -> {j \in 0..Len(p) : \E i \in S : i <= j}
      [] token = "*"  -> {j \in 0..Len(p) :
                             \E i \in S : i <= j /\ \A k \in (i + 1)..j : p[k] # "/"}
      [] token = "?"  -> {j \in 1..Len(p) : j - 1 \in S /\ p[j] # "/"}
      [] OTHER        -> {j \in 1..Len(p) : j - 1 \in S /\ p[j] = token}

\* The anchored regex of glob_to_regex.
GlobMatches(g, p) ==
    LET reached[i \in 0..Len(g)] ==
            IF i = 0 THEN {0} ELSE Reach(p, reached[i - 1], g[i])
    IN  Len(p) \in reached[Len(g)]

PathMatches(q, path) ==
    CASE q.kind = "any"    -> TRUE
      [] q.kind = "prefix" -> IsPrefix(q.text, path)
      [] q.kind = "glob"   -> GlobMatches(q.text, path)
      [] q.kind = "regex"  -> path \in q.texts

\* x asks for [host, path, method].
MatchesStatic(matcher, x) ==
    /\ HostMatches(matcher.host, x.host)
    /\ PathMatches(matcher.path, x.path)
    /\ matcher.methods # {} => x.method \in matcher.methods

-----------------------------------------------------------------------------
(* The same, as one reads the table: a text is cut into pieces, one for    *)
(* each token of the pattern.                                              *)

TakesPiece(token, piece) ==
    CASE token = "**" -> TRUE
      [] token = "*"  -> \A k \in DOMAIN piece : piece[k] # "/"
      [] token = "?"  -> Len(piece) = 1 /\ piece[1] # "/"
      [] OTHER        -> piece = <<token>>

Reads(g, p) ==
    \E cut \in [0..Len(g) -> 0..Len(p)] :
        /\ cut[0] = 0 /\ cut[Len(g)] = Len(p)
        /\ \A i \in 1..Len(g) :
              /\ cut[i - 1] <= cut[i]
              /\ TakesPiece(g[i], SubSeq(p, cut[i - 1] + 1, cut[i]))

HostFits(m, host) ==
    IF "host_regex" \in DOMAIN m THEN host \in m.host_regex
    ELSE "host" \in DOMAIN m =>
             \/ host = m.host
             \/ /\ Head(m.host) = "*"
                /\ \E n \in 0..Len(host) : SubSeq(host, n + 1, Len(host)) = Tail(m.host)

\* The comments of matcher.rs: a glob is anchored at both ends, "*" is any run
\* without a slash, "**" any run.  There are no other forms.
PathFits(m, path) ==
    IF "path_regex" \in DOMAIN m THEN path \in m.path_regex
    ELSE "path" \in DOMAIN m => Reads(m.path, path)

MethodFits(m, method) ==
    "methods" \in DOMAIN m /\ m.methods # {} => method \in m.methods

\* A request fits the table m: its patterns stand for it.
Fits(m, x) == HostFits(m, x.host) /\ PathFits(m, x.path) /\ MethodFits(m, x.method)

\* Not part of that reading: what the two short cuts of parse_matcher take,
\* whether the glob stands for it or not.  "*" takes every path, and "/a/**" what
\* begins with "/a", "/ax" too.
PathShortCut(m, path) ==
    /\ "path_regex" \notin DOMAIN m /\ "path" \in DOMAIN m
    /\ \/ m.path = <<"*">>
       \/ /\ IsPlainPrefix(m.path)
          /\ IsPrefix(SubSeq(m.path, 1, Len(m.path) - 2), path)

\* A request that fits m but for its path, which a short cut takes.
PassesByShortCut(m, x) ==
    HostFits(m, x.host) /\ PathShortCut(m, x.path) /\ MethodFits(m, x.method)
=============================================================================
