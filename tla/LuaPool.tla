------------------------------- MODULE LuaPool -------------------------------
(***************************************************************************)
(* The Lua VMs of the intermediate proxy, the configuration taken from     *)
(* routes.lua, the choice of a route and of a VM, and the hot reload       *)
(* (lua/mod.rs, select_route, the front of handler.rs).                    *)
(*                                                                         *)
(* A generation is a successful load of routes.lua: one configuration and  *)
(* VMs 0..N-1.  The configuration and the VMs in use are stored one after  *)
(* the other, and requests load either when they need it.                  *)
(***************************************************************************)
EXTENDS RouteConfig

CONSTANTS
    Task,           \* tasks that serve requests (or probe)
    Target,         \* what requests ask for: [host, path, method]
    NoRequest,      \*   or nothing
    N,              \* LUA_VMS
    Tables,         \* what routes.lua can return (see RouteConfig): a predicate is the
                    \*   value it returns for any request, or fails; a script that
                    \*   does not run is one that returns NoKeys
    Absent,         \* the file is not there
    MaxWrites, MaxFailures

ASSUME LuaPoolAssumption ==
    /\ N \in Nat \ {0}
    /\ MaxWrites \in Nat /\ MaxFailures \in Nat
    /\ Absent \notin Tables
    /\ NoRequest \notin Target

Content == Tables \cup {Absent}

VARIABLES
    file, mtime, last, watch, got, missed, failures,    \* see FileWatcher
    loads,          \* loads[g]: the routes of generation g
    config,         \* LuaPool.config: a generation
    vms,            \* LuaPool.vms: a generation
    rr,             \* LuaPool.rr, modulo N
    pc,             \* idle, select: it looks for its route, run: it has one
    call,           \* its call of a hook: no, scan, lock, call
    target,         \* what the request asks for
    cfg,            \* the generation of its configuration
    route,          \* the id of the route it looks at or has chosen, 0 for none
    gen,            \* pick: the generation of the VMs it looks at,
    start, off,     \*   where it started and how far it is
    vm,             \*   and the VM it returned
    misled          \* history: it asked a predicate of another generation, or one
                    \*   that was interrupted

lua == <<loads, config, vms>>
request == <<target, cfg, route>>
picking == <<gen, start, off, vm>>
tasks == <<rr, pc, call, request, picking, misled>>
watcher == <<file, mtime, last, watch, got, missed, failures>>
vars == <<watcher, lua, tasks>>

\* Any readable file is handed to reload.
W == INSTANCE FileWatcher WITH Usable <- Content \ {Absent}

Loads(c) == c \in Tables /\ IsConfig(c)

\* What a predicate can do: fail, or return a value that is nil or not.
Outcomes == {"true", "other", "false", "nil", "fails"}

\* Routes are a list, and values have their types.
ASSUME TablesAssumption ==
    /\ \A x \in Target : IsText(x.host) /\ IsText(x.path)
    /\ \A c \in Tables : IsConfig(c) =>
          /\ Len(c.routes) \in Nat /\ DOMAIN c.routes = 1..Len(c.routes)
          /\ HasNumbers(Get(c, "defaults", NoKeys))
          /\ \A i \in DOMAIN c.routes :
                /\ HasNumbers(c.routes[i]) /\ IsMatch(c.routes[i].match)
                /\ Get(c.routes[i].match, "predicate", "nil") \in Outcomes

\* The configurations the file can hold, and their routes for a target.
Config == [c \in {c \in Tables : IsConfig(c)} |-> ParseRouterConfig(c)]

Static == [c \in DOMAIN Config |-> [x \in Target |-> Candidates(Config[c], x)]]

\* The service starts with a file that loads, or not at all.
Init ==
    /\ W!WatcherInit /\ Loads(file)
    /\ loads = <<file>>
    /\ config = 1 /\ vms = 1
    /\ rr = 0
    /\ pc = [t \in Task |-> "idle"] /\ call = [t \in Task |-> "no"]
    /\ target = [t \in Task |-> NoRequest]
    /\ cfg = [t \in Task |-> 1]
    /\ route = [t \in Task |-> 0]
    /\ gen = cfg /\ start = route /\ off = route /\ vm = route
    /\ misled = [t \in Task |-> FALSE]

-----------------------------------------------------------------------------
(* Reload.  What new_vm builds is seen by nobody until it is stored.       *)

\* Every VM has been built: the configuration of the first one is stored.
ReloadConfig ==
    /\ watch = "apply" /\ config = vms
    /\ Loads(got)
    /\ loads' = Append(loads, got)
    /\ config' = Len(loads) + 1
    /\ UNCHANGED <<watcher, vms, tasks>>

\* Mutant of ReloadVms: the old VMs stay.
ReloadVmsForgets ==
    /\ watch = "apply" /\ config # vms
    /\ watch' = "sleep"
    /\ UNCHANGED <<file, mtime, last, got, missed, failures, lua, tasks>>

\* Then the VMs.
ReloadVms ==
    /\ watch = "apply" /\ config # vms
    /\ vms' = config
    /\ watch' = "sleep"
    /\ UNCHANGED <<file, mtime, last, got, missed, failures, loads, config, tasks>>

\* A VM cannot be built, or its table is no configuration: nothing is stored.
ReloadFails ==
    /\ watch = "apply" /\ ~Loads(got)
    /\ watch' = "sleep"
    /\ UNCHANGED <<file, mtime, last, got, missed, failures, lua, tasks>>

Reload == ReloadConfig \/ ReloadVms \/ ReloadFails

-----------------------------------------------------------------------------
(* A request.  A VM is locked by the task that calls it.                   *)

Locked(g, k) == \E t \in Task : call[t] = "call" /\ gen[t] = g /\ vm[t] = k

\* The next of the candidates behind route i, in the order of the file; 0 for none.
NextCandidate(candidates, i) ==
    LET behind == {j \in candidates : j > i} IN
    IF behind = {} THEN 0 ELSE CHOOSE j \in behind : \A k \in behind : j <= k

\* serve loads the configuration; select_route looks at the first candidate.
Arrive(t, x) ==
    /\ pc[t] = "idle"
    /\ pc' = [pc EXCEPT ![t] = "select"]
    /\ target' = [target EXCEPT ![t] = x]
    /\ cfg' = [cfg EXCEPT ![t] = config]
    /\ route' = [route EXCEPT ![t] = NextCandidate(Static[loads[config]][x], 0)]
    /\ misled' = [misled EXCEPT ![t] = FALSE]
    /\ UNCHANGED <<watcher, lua, rr, call, picking>>

\* By its configuration the route has a predicate.
HasPredicate(t) ==
    route[t] # 0 /\ Config[loads[cfg[t]]][route[t]].matcher.hasPredicate

\* The locals of the request are gone with it.
Leave(t) ==
    /\ pc' = [pc EXCEPT ![t] = "idle"]
    /\ target' = [target EXCEPT ![t] = NoRequest]
    /\ cfg' = [cfg EXCEPT ![t] = 1] /\ route' = [route EXCEPT ![t] = 0]
    /\ misled' = [misled EXCEPT ![t] = FALSE]

\* The candidate has no predicate and is the route; or there is no candidate,
\* and the request ends with an error.
Selected(t) ==
    /\ pc[t] = "select" /\ call[t] = "no"
    /\ ~HasPredicate(t)
    /\ IF route[t] = 0
       THEN Leave(t)
       ELSE pc' = [pc EXCEPT ![t] = "run"] /\ UNCHANGED <<request, misled>>
    /\ UNCHANGED <<watcher, lua, rr, call, picking>>

\* The response is complete.
Finish(t) ==
    /\ pc[t] = "run" /\ call[t] = "no"
    /\ Leave(t)
    /\ UNCHANGED <<watcher, lua, rr, call, picking>>

\* The predicate of the candidate or a hook of the route is wanted: pick loads
\* the VMs and takes a number.
Pick(t) ==
    /\ call[t] = "no"
    /\ pc[t] = "run" \/ (pc[t] = "select" /\ HasPredicate(t))
    /\ call' = [call EXCEPT ![t] = "scan"]
    /\ gen' = [gen EXCEPT ![t] = vms]
    /\ start' = [start EXCEPT ![t] = rr]
    /\ off' = [off EXCEPT ![t] = 0]
    /\ rr' = (rr + 1) % N
    /\ misled' = [misled EXCEPT ![t] = @ \/ (pc[t] = "select" /\ vms # cfg[t])]
    /\ UNCHANGED <<watcher, lua, pc, request, vm>>

\* Mutant of Scan: it goes round until a VM is free.
ScanOn(t) ==
    /\ call[t] = "scan"
    /\ LET k == (start[t] + off[t]) % N IN
       IF Locked(gen[t], k)
       THEN /\ off' = [off EXCEPT ![t] = (@ + 1) % N]
            /\ UNCHANGED <<start, vm, call>>
       ELSE /\ vm' = [vm EXCEPT ![t] = k]
            /\ call' = [call EXCEPT ![t] = "lock"]
            /\ start' = [start EXCEPT ![t] = 0] /\ off' = [off EXCEPT ![t] = 0]
    /\ UNCHANGED <<watcher, lua, rr, pc, request, gen, misled>>

\* pick tries the next VM, and lets it go again if it gets it; when all were
\* locked it settles for the first.
Scan(t) ==
    /\ call[t] = "scan"
    /\ LET k == (start[t] + off[t]) % N IN
       IF Locked(gen[t], k) /\ off[t] + 1 < N
       THEN /\ off' = [off EXCEPT ![t] = @ + 1]
            /\ UNCHANGED <<start, vm, call>>
       ELSE /\ vm' = [vm EXCEPT ![t] = IF Locked(gen[t], k) THEN start[t] ELSE k]
            /\ call' = [call EXCEPT ![t] = "lock"]
            /\ start' = [start EXCEPT ![t] = 0] /\ off' = [off EXCEPT ![t] = 0]
    /\ UNCHANGED <<watcher, lua, rr, pc, request, gen, misled>>

\* Mutant of Lock: pick has seen the VM free.
LockNever(t) ==
    /\ call[t] = "lock"
    /\ call' = [call EXCEPT ![t] = "call"]
    /\ UNCHANGED <<watcher, lua, rr, pc, request, picking, misled>>

\* The task waits for the VM it was given.
Lock(t) ==
    /\ call[t] = "lock"
    /\ ~Locked(gen[t], vm[t])
    /\ call' = [call EXCEPT ![t] = "call"]
    /\ UNCHANGED <<watcher, lua, rr, pc, request, picking, misled>>

\* What the predicate of route i returns in a VM of generation g: the hooks are
\* kept by the place of their route.
Predicate(g, i) ==
    LET routes == loads[g].routes IN
    IF i \in DOMAIN routes THEN Get(routes[i].match, "predicate", "none") ELSE "none"

\* Mutant of Accepts: a predicate that fails accepts.
AcceptsFailOpen(g, i) == Predicate(g, i) \notin {"false", "nil"}

\* eval_predicate: where the hook is missing it is true; what is neither false
\* nor nil is true; an error is false.
Accepts(g, i) == Predicate(g, i) \notin {"false", "nil", "fails"}

\* The predicate returns, and the route is chosen or the next candidate looked
\* at; any other hook returns.  The VM is free again.  The budget of instructions
\* may be used up, whoever has used it: the call ends with an error.
Return(t) ==
    /\ call[t] = "call"
    /\ call' = [call EXCEPT ![t] = "no"]
    /\ \E interrupted \in BOOLEAN :
          /\ IF pc[t] = "run" \/ (Accepts(gen[t], route[t]) /\ ~interrupted)
             THEN pc' = [pc EXCEPT ![t] = "run"] /\ UNCHANGED route
             ELSE /\ route' = [route EXCEPT
                          ![t] = NextCandidate(Static[loads[cfg[t]]][target[t]], @)]
                  /\ UNCHANGED pc
          /\ misled' = [misled EXCEPT ![t] = @ \/ (pc[t] = "select" /\ interrupted)]
    /\ gen' = [gen EXCEPT ![t] = 1]
    /\ vm' = [vm EXCEPT ![t] = 0]
    /\ UNCHANGED <<watcher, lua, rr, target, cfg, start, off>>

Works(t) == Selected(t) \/ Finish(t) \/ Pick(t) \/ Scan(t) \/ Return(t)

Next ==
    \/ (W!Script \/ W!Watch) /\ UNCHANGED <<lua, tasks>>
    \/ Reload
    \/ \E t \in Task : \/ \E x \in Target : Arrive(t, x)
                       \/ Works(t)
                       \/ Lock(t)

Spec == Init /\ [][Next]_vars

\* The watcher and the requests are tasks of the runtime, hooks have a budget of
\* instructions, and a parking_lot mutex passes over no one for ever.
FairSpec ==
    /\ Spec
    /\ WF_vars(W!Watch /\ UNCHANGED <<lua, tasks>>)
    /\ WF_vars(Reload)
    /\ \A t \in Task : WF_vars(Works(t)) /\ SF_vars(Lock(t))

-----------------------------------------------------------------------------
TypeOK ==
    /\ W!WatcherTypeOK
    /\ loads \in Seq(DOMAIN Config)
    /\ config \in DOMAIN loads /\ vms \in DOMAIN loads
    /\ rr \in 0..(N - 1)
    /\ pc \in [Task -> {"idle", "select", "run"}]
    /\ call \in [Task -> {"no", "scan", "lock", "call"}]
    /\ target \in [Task -> Target \cup {NoRequest}]
    /\ cfg \in [Task -> DOMAIN loads] /\ gen \in [Task -> DOMAIN loads]
    /\ route \in [Task -> Nat]
    /\ \A t \in Task : route[t] \in {0} \cup DOMAIN Config[loads[cfg[t]]]
    /\ start \in [Task -> 0..(N - 1)] /\ off \in [Task -> 0..(N - 1)]
    /\ vm \in [Task -> 0..(N - 1)]
    /\ misled \in [Task -> BOOLEAN]

\* A Lua state is used by one task at a time, although pick unlocks the VM that
\* it found free and old VMs are in use beside the new ones.
OneTaskPerVm ==
    \A t, u \in Task :
        call[t] = "call" /\ call[u] = "call" /\ gen[t] = gen[u] /\ vm[t] = vm[u] => t = u

\* The doc comment of select_route: the first route whose static matcher accepts
\* the request and whose predicate, if any, is true (an error is not), by the
\* configuration the request has loaded; no reload in the middle mixes it up,
\* except that a predicate may be that of the other generation, or interrupted.
FirstMatchWins ==
    \A t \in Task : pc[t] = "run" /\ ~misled[t] =>
        LET c == loads[cfg[t]]
            fitting == {i \in Static[c][target[t]] :
                            "predicate" \in DOMAIN c.routes[i].match =>
                                c.routes[i].match.predicate \in {"true", "other"}}
        IN  /\ route[t] \in fitting
            /\ \A i \in fitting : route[t] <= i

\* A stored route accepts the requests that fit its patterns, read as anchored
\* globs (Matcher), and beyond them only those that pass by one of the two short
\* cuts for paths: there are such requests, although matcher.rs documents
\* anchored globs (section 5 of the README here).  Whatever numbers are in the file, the route is one that
\* Dispatch and Plan can work with (their assumptions); a tag list of the route,
\* the empty one too, replaces that of the defaults (the comments in
\* examples/routes.lua).
RoutesAreRead ==
    LET c == loads[config] IN
    \A i \in DOMAIN Config[c] :
        LET r == Config[c][i]
            m == c.routes[i].match
            lists == {"prefer_tags", "exclude_tags"} IN
        /\ \A x \in Target : i \in Static[c][x] <=> Fits(m, x) \/ PassesByShortCut(m, x)
        /\ r.settings.max_attempts >= 1 /\ r.settings.hedge.max_parallel >= 1
        /\ r.settings.selector \in SelectorNames
        /\ \A k \in lists : r.settings[k] =
              Get(c.routes[i], k, Get(Get(c, "defaults", NoKeys), k, {}))

\* A call of a hook gets a VM and comes back, however many tasks want one.
CallsReturn == \A t \in Task : []<>(call[t] = "no")

\* README: routes.lua is hot-reloaded.  In the end its routes are in use in the
\* configuration and in the VMs, if it loads and the watcher has seen it.
RoutesAreApplied ==
    <>[](\/ missed \/ ~Loads(file)
         \/ loads[config] = file /\ loads[vms] = file)
=============================================================================
