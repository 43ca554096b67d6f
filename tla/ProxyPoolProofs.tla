--------------------------- MODULE ProxyPoolProofs ---------------------------
(***************************************************************************)
(* What ProxyPool's runs check on a few files, proved for every file, every *)
(* list of proxies and every rewriting of the file: a reload never shows a *)
(* request two entries for one url, nor tags that are in no file, and never *)
(* takes the entry of a url away from it.                                  *)
(*                                                                         *)
(* The proofs need three facts about a reload between its assignments:     *)
(* the map has the entries of the old list (Mapped), the new list has the  *)
(* map's entry of every url that stays (Kept), and every entry has the     *)
(* tags of one of two files (Tagged).                                      *)
(***************************************************************************)
EXTENDS ProxyPool, SequenceTheorems, FiniteSetTheorems, TLAPS

\* No url twice.
Distinct(s) == \A i, j \in DOMAIN s : s[i].url = s[j].url => i = j

Urls(l) == {heap[l[i]].url : i \in DOMAIN l}

\* The entry of a url is an entry of that url.
Mapped ==
    /\ \A u \in DOMAIN byUrl : heap[byUrl[u]].url = u
    /\ reload # "map" => Urls(list) = DOMAIN byUrl

\* An entry in a list is the map's, if the map has its url.
Agrees(l) ==
    /\ \A i, j \in DOMAIN l : heap[l[i]].url = heap[l[j]].url => i = j
    /\ \A i \in DOMAIN l : heap[l[i]].url \in DOMAIN byUrl => byUrl[heap[l[i]].url] = l[i]

Kept ==
    /\ Agrees(list)
    /\ reload # "idle" =>
          /\ watch = "apply"
          /\ Agrees(newList)
          /\ Distinct(todo)
          /\ \A k \in DOMAIN todo : todo[k].url \notin Urls(newList)
    /\ reload = "map" => list = newList

Tagged ==
    /\ reload = "idle" => \A i \in DOMAIN list : heap[list[i]] \in Proxies(applied)
    /\ reload # "idle" =>
          /\ \A i \in DOMAIN list : heap[list[i]] \in Proxies(applied) \cup Proxies(got)
          /\ \A i \in DOMAIN newList : heap[newList[i]] \in Proxies(got)
          /\ \A k \in DOMAIN todo : todo[k] \in Proxies(got)

IInv == TypeOK /\ Mapped /\ Kept /\ Tagged

-----------------------------------------------------------------------------
(* The file.                                                               *)

LEMMA LinesAreLines ==
    ASSUME NEW c \in Content PROVE Lines(c) \in Seq(Line)
BY ProxyPoolAssumption DEF Lines

\* Every proxy is a proxy of the file, and no url has two.
LEMMA ParsedIsSound ==
    ASSUME NEW c \in Content, NEW p \in Parsed(c)
    PROVE  /\ p \in Seq(Proxy) /\ Distinct(p)
           /\ \A k \in DOMAIN p : p[k] \in Proxies(c)
<1> DEFINE F == FirstLines(c)  l == Lines(c)
<1>1. l \in Seq(Line) /\ F \subseteq 1..Len(l)
    BY LinesAreLines DEF FirstLines
<1>2. IsFiniteSet(F) /\ Cardinality(F) \in Nat
    <2>1. IsFiniteSet(1..Len(l))
        BY <1>1, FS_Interval
    <2> QED
        BY <1>1, <2>1, FS_Subset, FS_CardinalityType
<1>3. \A i \in F : ProxyAt(c, i) \in Proxy
    <2> SUFFICES ASSUME NEW i \in F PROVE ProxyAt(c, i) \in Proxy
        OBVIOUS
    <2>0. DOMAIN l = 1..Len(l) /\ \A j \in DOMAIN l : l[j] \in Line
        BY <1>1
    <2>1. l[i].url \in Url
        <3>1. l[i].url # NoUrl
            BY DEF FirstLines
        <3>2. l[i] \in Line
            BY <1>1, <2>0
        <3> QED
            BY <3>1, <3>2 DEF Line
    <2>2. \A j \in DOMAIN l : l[j].tags \subseteq Tag
        BY <2>0 DEF Line
    <2> QED
        BY <2>1, <2>2 DEF ProxyAt, Proxy
<1>4. PICK s \in [1..Cardinality(F) -> F] :
          /\ \A i, j \in DOMAIN s : i < j => s[i] < s[j]
          /\ p = [k \in DOMAIN s |-> ProxyAt(c, s[k])]
    BY DEF Parsed
<1>5. p \in Seq(Proxy) /\ DOMAIN p = 1..Cardinality(F)
    BY <1>2, <1>3, <1>4
<1>6. Distinct(p)
    <2> SUFFICES ASSUME NEW i \in DOMAIN p, NEW j \in DOMAIN p, p[i].url = p[j].url
                 PROVE  i = j
        BY DEF Distinct
    <2>1. s[i] \in F /\ s[j] \in F /\ p[i].url = l[s[i]].url /\ p[j].url = l[s[j]].url
        BY <1>4, <1>5 DEF ProxyAt
    <2>2. s[i] <= s[j] /\ s[j] <= s[i]
        BY <1>1, <2>1 DEF FirstLines
    <2>3. s[i] = s[j]
        BY <1>1, <2>1, <2>2
    <2> QED
        BY <1>1, <1>2, <1>4, <1>5, <2>1, <2>3
<1>7. \A k \in DOMAIN p : p[k] \in Proxies(c)
    BY <1>4, <1>5 DEF Proxies
<1> QED
    BY <1>5, <1>6, <1>7

\* A map of the entries of l by their urls.
Maps(map, h, l) ==
    /\ DOMAIN map = {h[l[i]].url : i \in DOMAIN l}
    /\ map = [u \in DOMAIN map |-> map[u]]
    /\ \A u \in DOMAIN map : \E i \in DOMAIN l : map[u] = l[i] /\ h[l[i]].url = u

LEMMA MapIsRight ==
    ASSUME NEW h, NEW l PROVE Maps(MapOf(h, l), h, l)
<1>1. Range(l) = {l[i] : i \in DOMAIN l}
    BY DEF Range
<1>2. DOMAIN MapOf(h, l) = {h[e].url : e \in Range(l)}
    BY DEF MapOf
<1>3. ASSUME NEW u \in DOMAIN MapOf(h, l)
      PROVE  \E i \in DOMAIN l : MapOf(h, l)[u] = l[i] /\ h[l[i]].url = u
    <2>1. MapOf(h, l)[u] = CHOOSE e \in Range(l) : h[e].url = u
        BY <1>2, <1>3 DEF MapOf
    <2>2. \E e \in Range(l) : h[e].url = u
        BY <1>2, <1>3
    <2>3. MapOf(h, l)[u] \in Range(l) /\ h[MapOf(h, l)[u]].url = u
        BY <2>1, <2>2
    <2> QED
        BY <1>1, <2>3
<1>4. MapOf(h, l) = [u \in DOMAIN MapOf(h, l) |-> MapOf(h, l)[u]]
    BY DEF MapOf
<1> QED
    BY <1>1, <1>2, <1>3, <1>4 DEF Maps

LEMMA InitIsRight == Init => IInv
<1> SUFFICES ASSUME Init PROVE IInv
    OBVIOUS
<1>1. file \in Content /\ got = file /\ W!WatcherTypeOK
    <2>1. missed \in BOOLEAN
        BY Zenon DEF Init, W!WatcherInit
    <2>2. /\ file \in Content /\ got = file /\ mtime = 1 /\ last = 0 /\ failures = 0
          /\ watch = "start"
        BY DEF Init, W!WatcherInit
    <2>3. MaxWrites \in Nat /\ MaxFailures \in Nat
        BY ProxyPoolAssumption
    <2> QED
        BY <2>1, <2>2, <2>3 DEF W!WatcherTypeOK
<1>2. heap \in Seq(Proxy) /\ Distinct(heap) /\ \A k \in DOMAIN heap : heap[k] \in Proxies(file)
    BY <1>1, ParsedIsSound DEF Init
<1>3. /\ list \in Seq(DOMAIN heap) /\ DOMAIN list = DOMAIN heap
      /\ \A i \in DOMAIN list : list[i] = i
    BY <1>2 DEF Init
<1>4. /\ DOMAIN byUrl = Urls(list)
      /\ \A u \in DOMAIN byUrl : \E i \in DOMAIN list : byUrl[u] = list[i] /\ heap[list[i]].url = u
    <2>1. Maps(byUrl, heap, list)
        BY MapIsRight DEF Init
    <2> QED
        BY <2>1 DEF Maps, Urls
<1>5. reload = "idle" /\ newList = <<>> /\ todo = <<>> /\ applied = file
    BY DEF Init
<1>6. TypeOK
    <2>1. DOMAIN byUrl \subseteq Url
        <3>1. \A i \in DOMAIN list : heap[list[i]] \in Proxy
            BY <1>2, <1>3
        <3> QED
            BY <1>4, <3>1 DEF Urls, Proxy
    <2>2. \A u \in DOMAIN byUrl : byUrl[u] \in DOMAIN heap
        BY <1>3, <1>4
    <2>3. byUrl = [u \in DOMAIN byUrl |-> byUrl[u]]
        <3>1. Maps(byUrl, heap, list)
            BY MapIsRight DEF Init
        <3> QED
            BY <3>1 DEF Maps
    <2>4. byUrl \in [DOMAIN byUrl -> DOMAIN heap]
        BY <2>2, <2>3
    <2> QED
        BY <1>1, <1>2, <1>3, <1>5, <2>1, <2>4 DEF TypeOK
<1>7. Mapped
    BY <1>4 DEF Mapped
<1>8. Kept
    BY <1>2, <1>3, <1>4, <1>5 DEF Kept, Agrees, Distinct
<1>9. Tagged
    BY <1>2, <1>3, <1>5 DEF Tagged
<1> QED
    BY <1>6, <1>7, <1>8, <1>9 DEF IInv

-----------------------------------------------------------------------------
(* The steps.                                                              *)

\* The watcher and the script leave the pool alone, and what a reload was given.
LEMMA WatcherStep ==
    ASSUME IInv, W!Script \/ W!Watch, UNCHANGED pool
    PROVE  IInv'
<1> USE DEF W!Script, W!Watch, W!Write, W!Begin, W!Poll, W!Read, W!ReadFails
<1>1. W!WatcherTypeOK /\ (reload # "idle" => watch = "apply")
    BY DEF IInv, TypeOK, Kept
<1>2. W!WatcherTypeOK'
    <2>1. missed' \in BOOLEAN
        <3>1. missed \in BOOLEAN
            BY <1>1 DEF W!WatcherTypeOK
        <3> QED
            BY <3>1, Zenon
    <2>2. /\ file' \in Content /\ got' \in Content
          /\ mtime' \in 1..(MaxWrites + 1) /\ last' \in 0..mtime'
          /\ watch' \in {"start", "sleep", "read", "apply"}
          /\ failures' \in 0..MaxFailures
        BY <1>1, ProxyPoolAssumption DEF W!WatcherTypeOK
    <2> QED
        BY <2>1, <2>2 DEF W!WatcherTypeOK
<1>3. reload # "idle" => watch' = "apply" /\ got' = got
    BY <1>1
<1>4. TypeOK'
    BY <1>2 DEF IInv, TypeOK, pool
<1>5. Mapped'
    BY DEF IInv, Mapped, Urls, pool
<1>6. Kept'
    BY <1>3 DEF IInv, Kept, Agrees, Urls, pool
<1>7. Tagged'
    BY <1>3 DEF IInv, Tagged, pool
<1> QED
    BY <1>4, <1>5, <1>6, <1>7 DEF IInv

LEMMA BeginsStep ==
    ASSUME IInv, ReloadBegins
    PROVE  IInv'
<1>1. got \in Content /\ UNCHANGED <<watcher, heap, list, byUrl, applied>>
    BY DEF IInv, TypeOK, W!WatcherTypeOK, ReloadBegins
<1>2. /\ todo' \in Seq(Proxy) /\ Distinct(todo')
      /\ \A k \in DOMAIN todo' : todo'[k] \in Proxies(got)
    BY <1>1, ParsedIsSound DEF ReloadBegins
<1>3. newList' = <<>> /\ reload' = "items" /\ reload = "idle" /\ watch = "apply"
    BY DEF ReloadBegins
<1>4. TypeOK'
    BY <1>1, <1>2, <1>3 DEF IInv, TypeOK, watcher, W!WatcherTypeOK
<1>5. Mapped'
    BY <1>1, <1>3 DEF IInv, Mapped, Urls
<1>6. Kept'
    BY <1>1, <1>2, <1>3 DEF IInv, Kept, Agrees, Urls, watcher, Distinct
<1>7. Tagged'
    BY <1>1, <1>2, <1>3 DEF IInv, Tagged, watcher
<1> QED
    BY <1>4, <1>5, <1>6, <1>7 DEF IInv

\* The entry of the next proxy is the map's or a new one; it has the tags the
\* file gives it, and no other entry is touched.
LEMMA ItemEntry ==
    ASSUME IInv, ReloadItem
    PROVE  \E e \in DOMAIN heap' :
              /\ heap' \in Seq(Proxy)
              /\ heap'[e] = Head(todo)
              /\ newList' = Append(newList, e)
              /\ \A d \in DOMAIN heap : d \in DOMAIN heap'
              /\ \A d \in DOMAIN heap : heap'[d].url = heap[d].url
              /\ \A d \in DOMAIN heap : d # e => heap'[d] = heap[d]
              /\ Head(todo).url \in DOMAIN byUrl => e = byUrl[Head(todo).url]
              /\ Head(todo).url \notin DOMAIN byUrl => e \notin DOMAIN heap
<1> DEFINE p == Head(todo)
<1>1. /\ heap \in Seq(Proxy) /\ p \in Proxy /\ byUrl \in [DOMAIN byUrl -> DOMAIN heap]
      /\ \A u \in DOMAIN byUrl : heap[byUrl[u]].url = u
    <2>1. todo \in Seq(Proxy) /\ todo # <<>>
        BY DEF IInv, TypeOK, ReloadItem
    <2> QED
        BY <2>1 DEF IInv, TypeOK, Mapped
<1>2. CASE p.url \in DOMAIN byUrl
    <2> DEFINE e == byUrl[p.url]
    <2>1. /\ e \in DOMAIN heap /\ heap[e].url = p.url /\ heap[e] \in Proxy
          /\ heap' = [heap EXCEPT ![e].tags = p.tags] /\ newList' = Append(newList, e)
        BY <1>1, <1>2 DEF ReloadItem
    <2>2. heap' = [heap EXCEPT ![e] = p]
        <3>1. [heap[e] EXCEPT !.tags = p.tags] = p
            BY <1>1, <2>1 DEF Proxy
        <3> QED
            BY <2>1, <3>1
    <2>3. heap' \in Seq(Proxy) /\ DOMAIN heap' = DOMAIN heap
        BY <1>1, <2>1, <2>2
    <2>4. heap'[e] = p /\ \A d \in DOMAIN heap : d # e => heap'[d] = heap[d]
        BY <2>1, <2>2
    <2> QED
        BY <1>2, <2>1, <2>3, <2>4
<1>3. CASE p.url \notin DOMAIN byUrl
    <2>1. heap' = Append(heap, p) /\ newList' = Append(newList, Len(heap) + 1)
        BY <1>3 DEF ReloadItem
    <2>2. /\ heap' \in Seq(Proxy) /\ DOMAIN heap' = 1..(Len(heap) + 1)
          /\ heap'[Len(heap) + 1] = p
          /\ \A d \in DOMAIN heap : heap'[d] = heap[d]
          /\ Len(heap) \in Nat /\ DOMAIN heap = 1..Len(heap)
        BY <1>1, <2>1
    <2> QED
        BY <1>3, <2>1, <2>2
<1> QED
    BY <1>2, <1>3

LEMMA ItemStep ==
    ASSUME IInv, ReloadItem
    PROVE  IInv'
<1> DEFINE p == Head(todo)
<1>1. PICK e \in DOMAIN heap' :
          /\ heap' \in Seq(Proxy)
          /\ heap'[e] = p
          /\ newList' = Append(newList, e)
          /\ \A d \in DOMAIN heap : d \in DOMAIN heap'
          /\ \A d \in DOMAIN heap : heap'[d].url = heap[d].url
          /\ \A d \in DOMAIN heap : d # e => heap'[d] = heap[d]
          /\ p.url \in DOMAIN byUrl => e = byUrl[p.url]
          /\ p.url \notin DOMAIN byUrl => e \notin DOMAIN heap
    BY ItemEntry
<1>2. /\ todo \in Seq(Proxy) /\ todo # <<>> /\ todo' = Tail(todo)
      /\ list \in Seq(DOMAIN heap) /\ newList \in Seq(DOMAIN heap)
      /\ UNCHANGED <<watcher, list, byUrl, reload, applied>> /\ reload = "items"
    BY DEF IInv, TypeOK, ReloadItem
<1>3. /\ \A i \in DOMAIN list : list[i] \in DOMAIN heap
      /\ \A i \in DOMAIN newList : newList[i] \in DOMAIN heap
      /\ \A u \in DOMAIN byUrl : byUrl[u] \in DOMAIN heap
    BY <1>2 DEF IInv, TypeOK
<1>4. /\ DOMAIN todo' = 1..(Len(todo) - 1) /\ Len(todo) \in Nat \ {0}
      /\ \A k \in DOMAIN todo' : k + 1 \in DOMAIN todo /\ todo'[k] = todo[k + 1]
      /\ 1 \in DOMAIN todo /\ p = todo[1] /\ todo' \in Seq(Proxy)
    BY <1>2
<1>5. /\ DOMAIN newList' = 1..(Len(newList) + 1) /\ DOMAIN newList = 1..Len(newList)
      /\ Len(newList) \in Nat /\ newList'[Len(newList) + 1] = e
      /\ \A i \in DOMAIN newList : i \in DOMAIN newList' /\ newList'[i] = newList[i]
    BY <1>1, <1>2
<1>6. TypeOK'
    <2>1. DOMAIN heap \subseteq DOMAIN heap'
        BY <1>1
    <2>2. list' \in Seq(DOMAIN heap')
        BY <1>2, <2>1
    <2>3. newList' \in Seq(DOMAIN heap')
        BY <1>1, <1>2, <2>1
    <2>4. byUrl' \in [DOMAIN byUrl' -> DOMAIN heap'] /\ DOMAIN byUrl' \subseteq Url
        BY <1>2, <2>1 DEF IInv, TypeOK
    <2> QED
        BY <1>1, <1>2, <1>4, <2>2, <2>3, <2>4
            DEF IInv, TypeOK, watcher, W!WatcherTypeOK
<1>7. Urls(list)' = Urls(list)
    <2>1. \A i \in DOMAIN list : heap'[list[i]].url = heap[list[i]].url
        BY <1>1, <1>3
    <2> QED
        BY <1>2, <2>1 DEF Urls
<1>8. Mapped'
    <2>1. \A u \in DOMAIN byUrl : heap'[byUrl[u]].url = u
        BY <1>1, <1>3 DEF IInv, Mapped
    <2> QED
        BY <1>2, <1>7, <2>1 DEF IInv, Mapped
<1>9. Agrees(list)'
    <2>1. \A i \in DOMAIN list : heap'[list[i]].url = heap[list[i]].url
        BY <1>1, <1>3
    <2> QED
        BY <1>2, <2>1 DEF IInv, Kept, Agrees
<1>10. /\ Agrees(newList) /\ Distinct(todo) /\ watch = "apply"
       /\ \A k \in DOMAIN todo : \A i \in DOMAIN newList : todo[k].url # heap[newList[i]].url
    BY <1>2 DEF IInv, Kept, Urls
<1>11. \A i \in DOMAIN newList : heap'[newList'[i]].url = heap[newList[i]].url
    BY <1>1, <1>3, <1>5
<1>12. \A i \in DOMAIN newList : heap'[newList'[i]].url # p.url
    BY <1>4, <1>10, <1>11
<1>13. Agrees(newList)'
    <2>1. \A i, j \in DOMAIN newList' : heap'[newList'[i]].url = heap'[newList'[j]].url => i = j
        <3> SUFFICES ASSUME NEW i \in DOMAIN newList', NEW j \in DOMAIN newList',
                            heap'[newList'[i]].url = heap'[newList'[j]].url
                     PROVE  i = j
            OBVIOUS
        <3>1. CASE i \in DOMAIN newList /\ j \in DOMAIN newList
            BY <1>10, <1>11, <3>1 DEF Agrees
        <3>2. CASE i \notin DOMAIN newList /\ j \notin DOMAIN newList
            BY <1>5, <3>2
        <3>3. CASE i \in DOMAIN newList /\ j \notin DOMAIN newList
            BY <1>1, <1>5, <1>12, <3>3
        <3>4. CASE i \notin DOMAIN newList /\ j \in DOMAIN newList
            BY <1>1, <1>5, <1>12, <3>4
        <3> QED
            BY <3>1, <3>2, <3>3, <3>4
    <2>2. \A i \in DOMAIN newList' :
              heap'[newList'[i]].url \in DOMAIN byUrl => byUrl[heap'[newList'[i]].url] = newList'[i]
        <3> SUFFICES ASSUME NEW i \in DOMAIN newList', heap'[newList'[i]].url \in DOMAIN byUrl
                     PROVE  byUrl[heap'[newList'[i]].url] = newList'[i]
            OBVIOUS
        <3>1. CASE i \in DOMAIN newList
            BY <1>5, <1>10, <1>11, <3>1 DEF Agrees
        <3>2. CASE i \notin DOMAIN newList
            BY <1>1, <1>5, <3>2
        <3> QED
            BY <3>1, <3>2
    <2> QED
        BY <1>2, <2>1, <2>2 DEF Agrees
<1>14. Distinct(todo')
    <2> SUFFICES ASSUME NEW i \in DOMAIN todo', NEW j \in DOMAIN todo',
                        todo'[i].url = todo'[j].url
                 PROVE  i = j
        BY DEF Distinct
    <2>1. i + 1 = j + 1
        BY <1>4, <1>10 DEF Distinct
    <2> QED
        BY <1>4, <2>1
<1>15. \A k \in DOMAIN todo' : todo'[k].url \notin Urls(newList)'
    <2> SUFFICES ASSUME NEW k \in DOMAIN todo', NEW i \in DOMAIN newList'
                 PROVE  todo'[k].url # heap'[newList'[i]].url
        BY DEF Urls
    <2>1. CASE i \in DOMAIN newList
        BY <1>4, <1>10, <1>11, <2>1
    <2>2. CASE i \notin DOMAIN newList
        <3>1. newList'[i] = e
            BY <1>5, <2>2
        <3>2. todo[k + 1].url # todo[1].url
            BY <1>4, <1>10 DEF Distinct
        <3> QED
            BY <1>1, <1>4, <3>1, <3>2
    <2> QED
        BY <2>1, <2>2
<1>16. Kept'
    BY <1>2, <1>9, <1>10, <1>13, <1>14, <1>15 DEF Kept, watcher
<1>17. Tagged'
    <2>1. /\ \A i \in DOMAIN list : heap[list[i]] \in Proxies(applied) \cup Proxies(got)
          /\ \A i \in DOMAIN newList : heap[newList[i]] \in Proxies(got)
          /\ \A k \in DOMAIN todo : todo[k] \in Proxies(got)
        BY <1>2 DEF IInv, Tagged
    <2>2. heap'[e] \in Proxies(got)
        BY <1>1, <1>4, <2>1
    <2>3. \A i \in DOMAIN list : heap'[list[i]] \in Proxies(applied) \cup Proxies(got)
        <3> SUFFICES ASSUME NEW i \in DOMAIN list
                     PROVE  heap'[list[i]] \in Proxies(applied) \cup Proxies(got)
            OBVIOUS
        <3>1. CASE list[i] = e
            BY <2>2, <3>1
        <3>2. CASE list[i] # e
            BY <1>1, <1>3, <2>1, <3>2
        <3> QED
            BY <3>1, <3>2
    <2>4. \A i \in DOMAIN newList' : heap'[newList'[i]] \in Proxies(got)
        <3> SUFFICES ASSUME NEW i \in DOMAIN newList' PROVE heap'[newList'[i]] \in Proxies(got)
            OBVIOUS
        <3>1. CASE i \in DOMAIN newList
            <4>1. CASE newList[i] = e
                BY <1>5, <2>2, <3>1, <4>1
            <4>2. CASE newList[i] # e
                BY <1>1, <1>3, <1>5, <2>1, <3>1, <4>2
            <4> QED
                BY <4>1, <4>2
        <3>2. CASE i \notin DOMAIN newList
            BY <1>5, <2>2, <3>2
        <3> QED
            BY <3>1, <3>2
    <2>5. \A k \in DOMAIN todo' : todo'[k] \in Proxies(got)
        BY <1>4, <2>1
    <2>6. got' = got /\ applied' = applied /\ list' = list /\ reload' = "items"
        BY <1>2 DEF watcher
    <2> QED
        BY <2>3, <2>4, <2>5, <2>6 DEF Tagged
<1> QED
    BY <1>6, <1>8, <1>16, <1>17 DEF IInv

LEMMA AbortsStep ==
    ASSUME IInv, ReloadAborts
    PROVE  IInv'
<1> USE DEF ReloadAborts
<1>1. TypeOK'
    BY DEF IInv, TypeOK, watcher, W!WatcherTypeOK
<1>2. Mapped'
    BY DEF IInv, Mapped, Urls
<1>3. Kept'
    BY DEF IInv, Kept, Agrees, Urls, watcher, Distinct
<1>4. Tagged'
    BY DEF IInv, Tagged, watcher
<1> QED
    BY <1>1, <1>2, <1>3, <1>4 DEF IInv

\* When no proxy comes or goes, the old list has the entries of the new one.
LEMMA SameProxies ==
    ASSUME IInv, reload = "items", NothingChanged
    PROVE  \A i \in DOMAIN list : heap[list[i]] \in Proxies(got)
<1> SUFFICES ASSUME NEW i \in DOMAIN list PROVE heap[list[i]] \in Proxies(got)
    OBVIOUS
<1>1. heap[list[i]].url \in DOMAIN byUrl /\ byUrl[heap[list[i]].url] = list[i]
    BY DEF IInv, Mapped, Kept, Agrees, Urls
<1>2. PICK j \in DOMAIN newList : heap[newList[j]].url = heap[list[i]].url
    BY <1>1 DEF NothingChanged, Range
<1>3. newList[j] = list[i]
    BY <1>1, <1>2 DEF IInv, Kept, Agrees
<1> QED
    BY <1>3 DEF IInv, Tagged

LEMMA ListStep ==
    ASSUME IInv, ReloadList
    PROVE  IInv'
<1>1. /\ UNCHANGED <<heap, byUrl, todo, newList, file, mtime, last, got, missed, failures>>
      /\ reload = "items" /\ watch = "apply" /\ todo = <<>>
    BY DEF IInv, Kept, ReloadList, Finish, watcher
<1>2. CASE NothingChanged
    <2>1. reload' = "idle" /\ watch' = "sleep" /\ applied' = got /\ list' = list
        BY <1>2 DEF ReloadList, Finish
    <2>2. TypeOK'
        BY <1>1, <2>1 DEF IInv, TypeOK, W!WatcherTypeOK
    <2>3. Mapped'
        BY <1>1, <2>1 DEF IInv, Mapped, Urls
    <2>4. Kept'
        BY <1>1, <2>1 DEF IInv, Kept, Agrees
    <2>5. Tagged'
        BY <1>1, <1>2, <2>1, SameProxies DEF Tagged
    <2> QED
        BY <2>2, <2>3, <2>4, <2>5 DEF IInv
<1>3. CASE ~NothingChanged
    <2>1. list' = newList /\ reload' = "map" /\ UNCHANGED <<watch, applied>>
        BY <1>3 DEF ReloadList, watcher
    <2>2. TypeOK'
        BY <1>1, <2>1 DEF IInv, TypeOK, W!WatcherTypeOK
    <2>3. Mapped'
        BY <1>1, <2>1 DEF IInv, Mapped
    <2>4. Kept'
        BY <1>1, <2>1 DEF IInv, Kept, Agrees, Urls, Distinct
    <2>5. Tagged'
        BY <1>1, <2>1 DEF IInv, Tagged
    <2> QED
        BY <2>2, <2>3, <2>4, <2>5 DEF IInv
<1> QED
    BY <1>2, <1>3

LEMMA MapStep ==
    ASSUME IInv, ReloadMap
    PROVE  IInv'
<1>1. /\ UNCHANGED <<heap, list, todo, newList, file, mtime, last, got, missed, failures>>
      /\ reload' = "idle" /\ watch' = "sleep" /\ applied' = got
      /\ reload = "map" /\ list = newList /\ newList \in Seq(DOMAIN heap) /\ heap \in Seq(Proxy)
    BY DEF IInv, TypeOK, Kept, ReloadMap, Finish
<1>2. /\ DOMAIN byUrl' = Urls(newList)
      /\ \A u \in DOMAIN byUrl' :
            \E i \in DOMAIN newList : byUrl'[u] = newList[i] /\ heap[newList[i]].url = u
    <2>1. Maps(byUrl', heap, newList)
        BY MapIsRight DEF ReloadMap
    <2> QED
        BY <2>1 DEF Maps, Urls
<1>3. \A i, j \in DOMAIN newList : heap[newList[i]].url = heap[newList[j]].url => i = j
    BY <1>1 DEF IInv, Kept, Agrees
<1>4. TypeOK'
    <2>1. DOMAIN byUrl' \subseteq Url
        <3>1. \A i \in DOMAIN newList : newList[i] \in DOMAIN heap /\ heap[newList[i]] \in Proxy
            BY <1>1
        <3> QED
            BY <1>2, <3>1 DEF Proxy
    <2>2. \A u \in DOMAIN byUrl' : byUrl'[u] \in DOMAIN heap
        BY <1>1, <1>2
    <2>3. byUrl' = [u \in DOMAIN byUrl' |-> byUrl'[u]]
        <3>1. Maps(byUrl', heap, newList)
            BY MapIsRight DEF ReloadMap
        <3> QED
            BY <3>1 DEF Maps
    <2>4. byUrl' \in [DOMAIN byUrl' -> DOMAIN heap]
        BY <2>2, <2>3
    <2> QED
        BY <1>1, <2>1, <2>4 DEF IInv, TypeOK, W!WatcherTypeOK
<1>5. Mapped'
    BY <1>1, <1>2 DEF Mapped, Urls
<1>6. Kept'
    BY <1>1, <1>2, <1>3 DEF Kept, Agrees
<1>7. Tagged'
    BY <1>1 DEF IInv, Tagged
<1> QED
    BY <1>4, <1>5, <1>6, <1>7 DEF IInv

LEMMA StepIsRight == IInv /\ [Next]_vars => IInv'
<1> SUFFICES ASSUME IInv, [Next]_vars PROVE IInv'
    OBVIOUS
<1>1. CASE UNCHANGED vars
    <2>1. TypeOK'
        BY <1>1 DEF IInv, TypeOK, vars, watcher, pool, W!WatcherTypeOK
    <2>2. Mapped' /\ Kept' /\ Tagged'
        BY <1>1 DEF IInv, Mapped, Kept, Tagged, Agrees, Urls, Distinct, vars, watcher, pool
    <2> QED
        BY <2>1, <2>2 DEF IInv
<1>2. CASE (W!Script \/ W!Watch) /\ UNCHANGED pool
    BY <1>2, WatcherStep
<1>3. CASE Reload
    BY <1>3, BeginsStep, ItemStep, AbortsStep, ListStep, MapStep DEF Reload
<1> QED
    BY <1>1, <1>2, <1>3 DEF Next

\* The invariant holds throughout a reload, whenever the file changes.
THEOREM Inductive == Spec => []IInv
BY InitIsRight, StepIsRight, PTL DEF Spec

-----------------------------------------------------------------------------
(* The properties.                                                         *)

\* The variables keep their types, for all files (proxy/mod.rs).
THEOREM TypeCorrect == Spec => []TypeOK
<1>1. IInv => TypeOK
    BY DEF IInv
<1> QED
    BY <1>1, Inductive, PTL

\* Whenever a request looks into the pool, between the two stores of a reload
\* too, the list has one entry for a url and the map no other
\* (ProxyPool::snapshot, find and reload).
THEOREM OneEntry == Spec => []OneEntryPerUrl
<1>1. IInv => OneEntryPerUrl
    <2> SUFFICES ASSUME IInv PROVE OneEntryPerUrl
        OBVIOUS
    <2>1. Agrees(list)
        BY DEF IInv, Kept
    <2> QED
        BY <2>1 DEF Agrees, OneEntryPerUrl, Range
<1> QED
    BY <1>1, Inductive, PTL

\* A request that looks in the middle of a reload sees the tags of the old or of
\* the new file, nothing in between (ProxyPool::reload).
THEOREM OldOrNewTags == Spec => []TagsOldOrNew
<1>1. IInv => TagsOldOrNew
    BY DEF IInv, Tagged, TagsOldOrNew, Range
<1> QED
    BY <1>1, Inductive, PTL

\* No reload takes the entry of a url, and with it what the probers and the
\* requests have learnt, away from a url that stays (ProxyPool::reload).
THEOREM StatsStay == Spec => StatsAreKept
<1>1. IInv /\ [Next]_vars =>
          [\A u \in DOMAIN byUrl \cap DOMAIN byUrl' : byUrl'[u] = byUrl[u]]_vars
    <2> SUFFICES ASSUME IInv, [Next]_vars, NEW u \in DOMAIN byUrl \cap DOMAIN byUrl'
                 PROVE  byUrl'[u] = byUrl[u]
        OBVIOUS
    <2>1. CASE ReloadMap
        <3>1. PICK i \in DOMAIN newList : byUrl'[u] = newList[i] /\ heap[newList[i]].url = u
            <4>1. Maps(byUrl', heap, newList)
                BY <2>1, MapIsRight DEF ReloadMap
            <4> QED
                BY <4>1 DEF Maps
        <3>2. Agrees(newList)
            BY <2>1 DEF IInv, Kept, ReloadMap
        <3> QED
            BY <3>1, <3>2 DEF Agrees
    <2>2. CASE ~ReloadMap
        <3>1. byUrl' = byUrl
            BY <2>2 DEF Next, Reload, ReloadBegins, ReloadItem, ReloadAborts, ReloadList, vars, pool
        <3> QED
            BY <3>1
    <2> QED
        BY <2>1, <2>2
<1> QED
    BY <1>1, Inductive, PTL DEF Spec, StatsAreKept
=============================================================================
