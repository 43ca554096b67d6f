------------------------------ MODULE ProxyPool ------------------------------
(***************************************************************************)
(* The list of upstream proxies and its reload from the proxy file         *)
(* (intermediate-proxy/src/proxy).  Requests read the list, the map by url *)
(* and the tags of an entry without a lock at any moment; each assignment  *)
(* a reload makes to one of them is therefore a step of its own.           *)
(*                                                                         *)
(* An entry is the number of its place in the heap, where it stays as long *)
(* as anything refers to it.  Its health goes wherever the entry goes.     *)
(***************************************************************************)
EXTENDS Naturals, Sequences, FiniteSets, Functions

CONSTANTS
    Url,            \* urls of proxies
    Bad,            \* those of socks5 and forward proxies that are no urls
    Tag,            \* tags
    Content,        \* what the file can hold: lists of lines [url, tags], or
    Absent,         \*   nothing
    MaxWrites, MaxFailures

\* The list is Content, but not of everything: a line may not name a url.
NoUrl == "no url"

Line == [url : Url \cup {NoUrl}, tags : SUBSET Tag]

Proxy == [url : Url, tags : SUBSET Tag]

ASSUME ProxyPoolAssumption ==
    /\ NoUrl \notin Url /\ Bad \subseteq Url
    /\ Absent \in Content
    /\ MaxWrites \in Nat /\ MaxFailures \in Nat
    /\ Content \ {Absent} \subseteq Seq(Line)

VARIABLES
    file, mtime, last, watch, got, missed, failures,    \* see FileWatcher
    heap,           \* heap[e]: url and tags of entry e
    list,           \* ProxyPool.entries
    byUrl,          \* ProxyPool.by_url
    reload,         \* what a reload does next: items, list, map; or idle; aborted:
                    \*   the process is gone
    todo,           \* parsed lines it has not looked at
    newList,        \* new_entries
    applied         \* history: the content applied last

pool == <<heap, list, byUrl, reload, todo, newList, applied>>
watcher == <<file, mtime, last, watch, got, missed, failures>>
vars == <<watcher, pool>>

-----------------------------------------------------------------------------
\* What the file is read as; load_initial finds nothing in one that is not there.
Lines(c) == IF c = Absent THEN <<>> ELSE c

\* Mutant of FirstLines: a url may appear twice.
ProxyLines(c) == {i \in DOMAIN Lines(c) : Lines(c)[i].url # NoUrl}

\* The first lines of each url; only they make a proxy.
FirstLines(c) ==
    {i \in DOMAIN Lines(c) :
        /\ Lines(c)[i].url # NoUrl
        /\ \A j \in DOMAIN Lines(c) : Lines(c)[j].url = Lines(c)[i].url => i <= j}

\* The proxy of line i has the tags of every line with its url.
ProxyAt(c, i) ==
    LET u == Lines(c)[i].url
    IN  [url |-> u,
         tags |-> UNION {Lines(c)[j].tags : j \in {k \in DOMAIN Lines(c) : Lines(c)[k].url = u}}]

Proxies(c) == {ProxyAt(c, i) : i \in FirstLines(c)}

\* What parse_proxies makes of c: its proxies in the order of their first lines;
\* there is one such order.
Parsed(c) ==
    {[k \in DOMAIN s |-> ProxyAt(c, s[k])] :
        s \in {f \in [1..Cardinality(FirstLines(c)) -> FirstLines(c)] :
                 Range(f) = FirstLines(c) /\ \A i, j \in DOMAIN f : i < j => f[i] < f[j]}}

W == INSTANCE FileWatcher WITH Usable <- {c \in Content : FirstLines(c) # {}}

\* The map of the entries by their urls.
MapOf(h, entries) ==
    [u \in {h[e].url : e \in Range(entries)} |-> CHOOSE e \in Range(entries) : h[e].url = u]

\* ProxyPool::new of what load_initial returns; the service is up.
Init ==
    /\ W!WatcherInit
    /\ heap \in Parsed(file) /\ \A e \in DOMAIN heap : heap[e].url \notin Bad
    /\ list = [i \in DOMAIN heap |-> i]
    /\ byUrl = MapOf(heap, list)
    /\ reload = "idle" /\ todo = <<>> /\ newList = <<>>
    /\ applied = file

\* The watcher calls reload.
ReloadBegins ==
    /\ watch = "apply" /\ reload = "idle"
    /\ reload' = "items"
    /\ todo' \in Parsed(got)
    /\ newList' = <<>>
    /\ UNCHANGED <<watcher, heap, list, byUrl, applied>>

\* Mutants of ReloadItem: an entry whose tags change is replaced; an entry
\* that is kept keeps its tags beside the new ones.
ReloadItemReplaces ==
    /\ reload = "items" /\ todo # <<>> /\ Head(todo).url \notin Bad
    /\ todo' = Tail(todo)
    /\ LET p == Head(todo) IN
       IF p.url \in DOMAIN byUrl /\ heap[byUrl[p.url]].tags = p.tags
       THEN newList' = Append(newList, byUrl[p.url]) /\ UNCHANGED heap
       ELSE heap' = Append(heap, p) /\ newList' = Append(newList, Len(heap) + 1)
    /\ UNCHANGED <<watcher, list, byUrl, reload, applied>>

ReloadItemAddsTags ==
    /\ reload = "items" /\ todo # <<>> /\ Head(todo).url \notin Bad
    /\ todo' = Tail(todo)
    /\ LET p == Head(todo) IN
       IF p.url \in DOMAIN byUrl
       THEN /\ heap' = [heap EXCEPT ![byUrl[p.url]].tags = @ \cup p.tags]
            /\ newList' = Append(newList, byUrl[p.url])
       ELSE /\ heap' = Append(heap, p)
            /\ newList' = Append(newList, Len(heap) + 1)
    /\ UNCHANGED <<watcher, list, byUrl, reload, applied>>

\* The next parsed proxy: the entry of its url gets the new tags at once, or
\* there is a new entry.
ReloadItem ==
    /\ reload = "items" /\ todo # <<>> /\ Head(todo).url \notin Bad
    /\ todo' = Tail(todo)
    /\ LET p == Head(todo) IN
       IF p.url \in DOMAIN byUrl
       THEN /\ heap' = [heap EXCEPT ![byUrl[p.url]].tags = p.tags]
            /\ newList' = Append(newList, byUrl[p.url])
       ELSE /\ heap' = Append(heap, p)
            /\ newList' = Append(newList, Len(heap) + 1)
    /\ UNCHANGED <<watcher, list, byUrl, reload, applied>>

\* There is no client for the next one: parse_upstream panics, and the process
\* ends in the middle of the reload, requests and all.
ReloadAborts ==
    /\ reload = "items" /\ todo # <<>> /\ Head(todo).url \in Bad
    /\ reload' = "aborted"
    /\ UNCHANGED <<watcher, heap, list, byUrl, todo, newList, applied>>

Finish ==
    /\ reload' = "idle"
    /\ watch' = "sleep"
    /\ applied' = got
    /\ UNCHANGED <<file, mtime, last, got, missed, failures>>

\* No proxy was added and none removed; their order does not count.
NothingChanged == {heap[e].url : e \in Range(newList)} = DOMAIN byUrl

\* Behind the last proxy: the new list is stored, unless it has the old proxies.
ReloadList ==
    /\ reload = "items" /\ todo = <<>>
    /\ IF NothingChanged
       THEN Finish /\ UNCHANGED list
       ELSE /\ list' = newList
            /\ reload' = "map"
            /\ UNCHANGED <<watcher, applied>>
    /\ UNCHANGED <<heap, byUrl, todo, newList>>

\* Then the new map.
ReloadMap ==
    /\ reload = "map"
    /\ byUrl' = MapOf(heap, newList)
    /\ Finish
    /\ UNCHANGED <<heap, list, todo, newList>>

Reload == ReloadBegins \/ ReloadItem \/ ReloadAborts \/ ReloadList \/ ReloadMap

Next ==
    \/ (W!Script \/ W!Watch) /\ UNCHANGED pool
    \/ Reload

Spec == Init /\ [][Next]_vars

\* The watcher is a task of the runtime.
FairSpec == Spec /\ WF_vars(W!Watch /\ UNCHANGED pool) /\ WF_vars(Reload)

-----------------------------------------------------------------------------
TypeOK ==
    /\ W!WatcherTypeOK
    /\ heap \in Seq(Proxy)
    /\ list \in Seq(DOMAIN heap) /\ newList \in Seq(DOMAIN heap)
    /\ DOMAIN byUrl \subseteq Url /\ byUrl \in [DOMAIN byUrl -> DOMAIN heap]
    /\ reload \in {"idle", "items", "map", "aborted"}
    /\ todo \in Seq(Proxy)
    /\ applied \in Content

\* Whenever a request looks, the list has one entry for a url, and the map, if
\* it knows the url, has the same one: a forced proxy and a planned proxy of one
\* url share their health and their place among the tried.
OneEntryPerUrl ==
    /\ \A i, j \in DOMAIN list : heap[list[i]].url = heap[list[j]].url => i = j
    /\ \A e \in Range(list) :
          heap[e].url \in DOMAIN byUrl => byUrl[heap[e].url] = e

\* While a reload goes through the proxies, a request that looks sees each of
\* them with its old or its new tags.
TagsOldOrNew ==
    \A e \in Range(list) : heap[e] \in Proxies(applied) \cup Proxies(got)

\* README: live proxies keep their stats.  An entry in the map stays the entry
\* of its url until the url has left the file.
StatsAreKept ==
    [][\A u \in DOMAIN byUrl \cap DOMAIN byUrl' : byUrl'[u] = byUrl[u]]_vars

\* README: the file is hot-reloaded.  In the end its proxies are in the pool,
\* unless the last change of it fell between the loading and the first poll or
\* could not be read, or there is no proxy in it, or the process has ended over a
\* proxy that some content of it named.
FileIsApplied ==
    <>[](\/ missed \/ FirstLines(file) = {}
         \/ reload = "aborted" /\ \E p \in Proxies(got) : p.url \in Bad
         \/ reload = "idle" /\ {heap[e] : e \in Range(list)} = Proxies(file))
=============================================================================
