---------------------------- MODULE LuaPoolProofs ----------------------------
(***************************************************************************)
(* Proofs about LuaPool, for any tasks, VMs, routes and targets: types, a  *)
(* VM runs one hook at a time, the first route that fits is chosen         *)
(* whatever the reloads, and the patterns and numbers of a route are read  *)
(* as they are meant, two short cuts for globs apart.                      *)
(***************************************************************************)
EXTENDS LuaPool, NaturalsInduction, WellFoundedInduction, SequenceTheorems, TLAPS

\* The routes of the table c that a request for x fits by patterns and predicate.
Fitting(c, x) ==
    {i \in Static[c][x] :
        "predicate" \in DOMAIN c.routes[i].match =>
            c.routes[i].match.predicate \in {"true", "other"}}

\* How far a request is: no route that fits is before the one it looks at, and
\* the one it has chosen fits.  A predicate it waits for is that of its candidate,
\* of the generation of its configuration unless the history says otherwise.
Walked(t) ==
    LET c == loads[cfg[t]] IN
    /\ pc[t] = "idle" => call[t] = "no"
    /\ pc[t] # "idle" =>
          /\ target[t] \in Target
          /\ route[t] # 0 => route[t] \in Static[c][target[t]]
          /\ ~misled[t] =>
                \A i \in Fitting(c, target[t]) : route[t] # 0 /\ route[t] <= i
    /\ pc[t] = "run" =>
          route[t] # 0 /\ (~misled[t] => route[t] \in Fitting(c, target[t]))
    /\ pc[t] = "select" /\ call[t] # "no" =>
          HasPredicate(t) /\ (~misled[t] => gen[t] = cfg[t])

IInv == TypeOK /\ OneTaskPerVm /\ \A t \in Task : Walked(t)

-----------------------------------------------------------------------------
(* The configurations.                                                     *)

\* A configuration is read route by route, and its candidates are routes of it.
LEMMA Configured ==
    ASSUME NEW c \in DOMAIN Config
    PROVE  /\ c \in Tables /\ IsConfig(c)
           /\ DOMAIN Config[c] = DOMAIN c.routes /\ DOMAIN c.routes \subseteq Nat \ {0}
           /\ \A i \in DOMAIN c.routes :
                 /\ Config[c][i].matcher.hasPredicate
                       <=> "predicate" \in DOMAIN c.routes[i].match
                 /\ "predicate" \in DOMAIN c.routes[i].match =>
                       c.routes[i].match.predicate \in Outcomes
           /\ \A x \in Target : Static[c][x] \subseteq DOMAIN c.routes
<1>1. c \in Tables /\ IsConfig(c)
    BY DEF Config
<1>2. Config[c] = ParseRouterConfig(c)
    BY <1>1 DEF Config
<1>3. DOMAIN c.routes = 1..Len(c.routes) /\ Len(c.routes) \in Nat
    BY <1>1, TablesAssumption
<1>4. \A i \in DOMAIN c.routes :
         /\ Config[c][i].matcher.hasPredicate
               <=> "predicate" \in DOMAIN c.routes[i].match
         /\ "predicate" \in DOMAIN c.routes[i].match =>
               c.routes[i].match.predicate \in Outcomes
    <2> SUFFICES ASSUME NEW i \in DOMAIN c.routes
                 PROVE  /\ Config[c][i].matcher.hasPredicate
                              <=> "predicate" \in DOMAIN c.routes[i].match
                        /\ "predicate" \in DOMAIN c.routes[i].match =>
                              c.routes[i].match.predicate \in Outcomes
        OBVIOUS
    <2>1. Config[c][i].matcher = ParseMatcher(c.routes[i].match)
        BY <1>2 DEF ParseRouterConfig, ParseRoute
    <2>2. Config[c][i].matcher.hasPredicate
              <=> "predicate" \in DOMAIN c.routes[i].match
        <3> DEFINE m == c.routes[i].match
        <3>1. ParseMatcher(m).hasPredicate = ("predicate" \in DOMAIN m)
            BY Zenon DEF ParseMatcher
        <3> QED
            BY <2>1, <3>1
    <2>3. "predicate" \in DOMAIN c.routes[i].match =>
              c.routes[i].match.predicate \in Outcomes
        BY <1>1, TablesAssumption DEF Get
    <2> QED
        BY <2>2, <2>3
<1>5. \A x \in Target : Static[c][x] = Candidates(Config[c], x)
    BY DEF Static
<1>6. DOMAIN Config[c] = DOMAIN c.routes
    BY <1>2 DEF ParseRouterConfig
<1>7. \A x \in Target : Static[c][x] \subseteq DOMAIN c.routes
    BY <1>5, <1>6 DEF Candidates
<1> QED
    BY <1>1, <1>3, <1>4, <1>6, <1>7

\* A set of routes has a first one.
LEMMA HasFirst ==
    ASSUME NEW S \in SUBSET Nat, S # {}
    PROVE  \E i \in S : \A j \in S : i <= j
<1>1. PICK i \in S : \A j \in S : <<j, i>> \notin OpToRel(<, Nat)
    BY NatLessThanWellFounded, WFMin
<1>2. \A j \in S : ~(j < i)
    BY <1>1 DEF OpToRel
<1> QED
    BY <1>2

\* The next candidate is a candidate behind the last one, and none is between.
LEMMA CandidateBehind ==
    ASSUME NEW S \in SUBSET (Nat \ {0}), NEW k \in Nat
    PROVE  /\ NextCandidate(S, k) \in {0} \cup S
           /\ \A j \in S : j > k => NextCandidate(S, k) # 0 /\ NextCandidate(S, k) <= j
<1> DEFINE behind == {j \in S : j > k}
<1>1. CASE behind = {}
    BY <1>1 DEF NextCandidate
<1>2. CASE behind # {}
    <2>1. behind \in SUBSET Nat
        OBVIOUS
    <2>2. \E i \in behind : \A j \in behind : i <= j
        BY <1>2, <2>1, HasFirst
    <2>3. NextCandidate(S, k) = CHOOSE j \in behind : \A n \in behind : j <= n
        BY <1>2 DEF NextCandidate
    <2>4. NextCandidate(S, k) \in behind /\ \A n \in behind : NextCandidate(S, k) <= n
        BY <2>2, <2>3
    <2> QED
        BY <2>4
<1> QED
    BY <1>1, <1>2
-----------------------------------------------------------------------------
(* Types.                                                                  *)

\* Initially a configuration is loaded, and no task has a request.
LEMMA InitIInv == Init => IInv
<1> SUFFICES ASSUME Init PROVE IInv
    OBVIOUS
<1> USE LuaPoolAssumption
<1>1. file \in Content /\ file \in DOMAIN Config
    BY DEF Init, W!WatcherInit, Loads, Config, Content
<1>2. loads \in Seq(DOMAIN Config) /\ DOMAIN loads = {1}
    <2>1. loads = <<file>>
        BY DEF Init
    <2>2. <<file>> \in Seq(DOMAIN Config)
        BY <1>1
    <2>3. DOMAIN <<file>> = {1}
        OBVIOUS
    <2> QED
        BY <2>1, <2>2, <2>3, Zenon
<1>3. W!WatcherTypeOK
    <2>1. W!WatcherInit
        BY DEF Init
    <2>2. /\ mtime = 1 /\ last = 0 /\ watch = "start" /\ got = file
          /\ failures = 0
        BY <2>1 DEF W!WatcherInit
    <2>3. missed \in BOOLEAN
        BY <2>1 DEF W!WatcherInit
    <2> QED
        BY <1>1, <2>2, <2>3 DEF W!WatcherTypeOK
<1>4. TypeOK
    BY <1>2, <1>3 DEF Init, TypeOK
<1>5. OneTaskPerVm /\ \A t \in Task : Walked(t)
    BY DEF Init, OneTaskPerVm, Walked
<1> QED
    BY <1>4, <1>5 DEF IInv

\* The next candidate of a request is 0 or a route of its configuration.
LEMMA NextIsRoute ==
    ASSUME NEW c \in DOMAIN Config, NEW x \in Target, NEW k \in Nat
    PROVE  /\ NextCandidate(Static[c][x], k) \in Nat
           /\ NextCandidate(Static[c][x], k) \in {0} \cup Static[c][x]
           /\ NextCandidate(Static[c][x], k) \in {0} \cup DOMAIN Config[c]
           /\ \A j \in Static[c][x] :
                 j > k => /\ NextCandidate(Static[c][x], k) # 0
                          /\ NextCandidate(Static[c][x], k) <= j
<1>1. Static[c][x] \subseteq DOMAIN Config[c] /\ Static[c][x] \in SUBSET (Nat \ {0})
    BY Configured
<1> QED
    BY <1>1, CandidateBehind

\* The loop of the watcher and the script keep the types of the watcher.
LEMMA WatcherTypes ==
    ASSUME W!WatcherTypeOK, W!Script \/ W!Watch
    PROVE  W!WatcherTypeOK'
<1> USE LuaPoolAssumption DEF W!WatcherTypeOK
<1>1. CASE W!Script
    BY <1>1 DEF W!Script, W!Write
<1>2. CASE W!Begin
    BY <1>2 DEF W!Begin
<1>3. CASE W!Poll
    BY <1>3 DEF W!Poll
<1>4. CASE W!Read
    BY <1>4 DEF W!Read
<1>5. CASE W!ReadFails
    BY <1>5 DEF W!ReadFails
<1> QED
    BY <1>1, <1>2, <1>3, <1>4, <1>5 DEF W!Watch

\* A reload appends a generation, and keeps those there are.
LEMMA ReloadKeeps ==
    ASSUME TypeOK, Reload
    PROVE  /\ loads' \in Seq(DOMAIN Config) /\ DOMAIN loads \subseteq DOMAIN loads'
           /\ \A g \in DOMAIN loads : loads'[g] = loads[g]
           /\ config' \in DOMAIN loads' /\ vms' \in DOMAIN loads'
           /\ W!WatcherTypeOK'
<1> USE DEF TypeOK
<1>1. CASE ReloadConfig
    <2>1. got \in DOMAIN Config
        BY <1>1 DEF ReloadConfig, Loads, Config
    <2>2. loads' = Append(loads, got) /\ config' = Len(loads) + 1
        BY <1>1 DEF ReloadConfig
    <2>3. /\ loads' \in Seq(DOMAIN Config) /\ DOMAIN loads' = 1..(Len(loads) + 1)
          /\ DOMAIN loads = 1..Len(loads) /\ Len(loads) \in Nat
          /\ \A g \in 1..Len(loads) : loads'[g] = loads[g]
        BY <2>1, <2>2
    <2>4. W!WatcherTypeOK'
        BY <1>1 DEF ReloadConfig, watcher, W!WatcherTypeOK
    <2> QED
        BY <1>1, <2>2, <2>3, <2>4 DEF ReloadConfig
<1>2. CASE ReloadVms
    BY <1>2 DEF ReloadVms, W!WatcherTypeOK
<1>3. CASE ReloadFails
    BY <1>3 DEF ReloadFails, lua, W!WatcherTypeOK
<1> QED
    BY <1>1, <1>2, <1>3 DEF Reload

\* The first generation is there.
LEMMA FirstGeneration == TypeOK => 1 \in DOMAIN loads /\ DOMAIN loads \subseteq Nat
BY DEF TypeOK

\* A step keeps the types.
LEMMA StepType == IInv /\ [Next]_vars => TypeOK'
<1> SUFFICES ASSUME IInv, [Next]_vars PROVE TypeOK'
    OBVIOUS
<1>0. TypeOK
    BY DEF IInv
<1> USE LuaPoolAssumption
<1>1. CASE UNCHANGED vars
    BY <1>0, <1>1 DEF TypeOK, W!WatcherTypeOK, vars, watcher, lua, tasks, request, picking
<1>2. CASE (W!Script \/ W!Watch) /\ UNCHANGED <<lua, tasks>>
    BY <1>0, <1>2, WatcherTypes DEF TypeOK, lua, tasks, request, picking
<1>3. CASE Reload
    <2>1. UNCHANGED tasks
        BY <1>3 DEF Reload, ReloadConfig, ReloadVms, ReloadFails
    <2>2. \A t \in Task : route[t] \in {0} \cup DOMAIN Config[loads'[cfg[t]]]
        BY <1>0, <1>3, ReloadKeeps DEF TypeOK
    <2> QED
        BY <1>0, <1>3, <2>1, <2>2, ReloadKeeps DEF TypeOK, tasks, request, picking
<1>4. ASSUME NEW t \in Task, NEW x \in Target, Arrive(t, x) PROVE TypeOK'
    <2> DEFINE n == NextCandidate(Static[loads[config]][x], 0)
    <2>1. n \in Nat /\ n \in {0} \cup DOMAIN Config[loads[config]]
        <3>1. loads[config] \in DOMAIN Config /\ 0 \in Nat
            BY <1>0 DEF TypeOK
        <3> QED
            BY <3>1, NextIsRoute
    <2> HIDE DEF n
    <2>2. /\ pc' = [pc EXCEPT ![t] = "select"] /\ target' = [target EXCEPT ![t] = x]
          /\ cfg' = [cfg EXCEPT ![t] = config] /\ route' = [route EXCEPT ![t] = n]
          /\ misled' = [misled EXCEPT ![t] = FALSE]
        BY <1>4 DEF Arrive, n
    <2>3. UNCHANGED <<watcher, lua, rr, call, picking>>
        BY <1>4 DEF Arrive
    <2>4. \A u \in Task : route'[u] \in {0} \cup DOMAIN Config[loads[cfg'[u]]]
        <3>1. route'[t] = n /\ cfg'[t] = config
            BY <1>0, <2>2 DEF TypeOK
        <3>2. \A u \in Task \ {t} : route'[u] = route[u] /\ cfg'[u] = cfg[u]
            BY <1>0, <2>2 DEF TypeOK
        <3> QED
            BY <1>0, <2>1, <3>1, <3>2 DEF TypeOK
    <2>5. W!WatcherTypeOK'
        BY <1>0, <2>3 DEF TypeOK, watcher, W!WatcherTypeOK
    <2>6. /\ pc' \in [Task -> {"idle", "select", "run"}]
          /\ target' \in [Task -> Target \cup {NoRequest}]
          /\ cfg' \in [Task -> DOMAIN loads] /\ route' \in [Task -> Nat]
          /\ misled' \in [Task -> BOOLEAN]
        BY <1>0, <2>1, <2>2 DEF TypeOK
    <2> QED
        BY <1>0, <2>3, <2>4, <2>5, <2>6 DEF TypeOK, lua, picking
<1>5. ASSUME NEW t \in Task, Leave(t), UNCHANGED <<watcher, lua, rr, call, picking>>
      PROVE  TypeOK'
    <2>1. \A u \in Task : route'[u] \in {0} \cup DOMAIN Config[loads[cfg'[u]]]
        <3>1. route'[t] = 0
            BY <1>0, <1>5 DEF Leave, TypeOK
        <3>2. \A u \in Task \ {t} : route'[u] = route[u] /\ cfg'[u] = cfg[u]
            BY <1>0, <1>5 DEF Leave, TypeOK
        <3> QED
            BY <1>0, <3>1, <3>2 DEF TypeOK
    <2> QED
        BY <1>0, <1>5, <2>1, FirstGeneration
           DEF TypeOK, W!WatcherTypeOK, Leave, watcher, lua, picking
<1>6. ASSUME NEW t \in Task, Selected(t) PROVE TypeOK'
    <2>1. CASE route[t] = 0
        BY <1>5, <1>6, <2>1 DEF Selected
    <2>2. CASE route[t] # 0
        BY <1>0, <1>6, <2>2 DEF Selected, TypeOK, W!WatcherTypeOK, watcher, lua, request, picking
    <2> QED
        BY <2>1, <2>2
<1>7. ASSUME NEW t \in Task, Finish(t) PROVE TypeOK'
    BY <1>5, <1>7 DEF Finish
<1>8. ASSUME NEW t \in Task, Pick(t) PROVE TypeOK'
    <2>1. rr' \in 0..(N - 1)
        BY <1>0, <1>8 DEF Pick, TypeOK
    <2>2. misled' \in [Task -> BOOLEAN]
        <3>1. misled[t] \in BOOLEAN
            BY <1>0 DEF TypeOK
        <3> QED
            BY <1>0, <1>8, <3>1, Zenon DEF Pick, TypeOK
    <2>3. W!WatcherTypeOK'
        BY <1>0, <1>8 DEF Pick, TypeOK, watcher, W!WatcherTypeOK
    <2>4. /\ call' \in [Task -> {"no", "scan", "lock", "call"}]
          /\ gen' \in [Task -> DOMAIN loads]
          /\ start' \in [Task -> 0..(N - 1)] /\ off' \in [Task -> 0..(N - 1)]
        BY <1>0, <1>8 DEF Pick, TypeOK
    <2> QED
        BY <1>0, <1>8, <2>1, <2>2, <2>3, <2>4 DEF Pick, TypeOK, lua, request
<1>9. ASSUME NEW t \in Task, Scan(t) PROVE TypeOK'
    <2> DEFINE k == (start[t] + off[t]) % N
    <2>1. k \in 0..(N - 1)
        BY <1>0 DEF TypeOK
    <2> HIDE DEF k
    <2>2. start[t] \in 0..(N - 1) /\ off[t] \in 0..(N - 1)
        BY <1>0 DEF TypeOK
    <2>3. off' \in [Task -> 0..(N - 1)] /\ start' \in [Task -> 0..(N - 1)]
        <3>1. CASE Locked(gen[t], k) /\ off[t] + 1 < N
            <4>1. off[t] + 1 \in 0..(N - 1)
                BY <2>2, <3>1
            <4>2. off' = [off EXCEPT ![t] = off[t] + 1] /\ UNCHANGED start
                BY <1>9, <3>1 DEF Scan, k
            <4> QED
                BY <1>0, <4>1, <4>2 DEF TypeOK
        <3>2. CASE ~(Locked(gen[t], k) /\ off[t] + 1 < N)
            <4>1. start' = [start EXCEPT ![t] = 0] /\ off' = [off EXCEPT ![t] = 0]
                BY <1>9, <3>2 DEF Scan, k
            <4> QED
                BY <1>0, <4>1 DEF TypeOK
        <3> QED
            BY <3>1, <3>2
    <2>4. vm' \in [Task -> 0..(N - 1)] /\ call' \in [Task -> {"no", "scan", "lock", "call"}]
        <3>1. \/ UNCHANGED <<vm, call>>
              \/ \E v \in {start[t], k} : /\ vm' = [vm EXCEPT ![t] = v]
                                         /\ call' = [call EXCEPT ![t] = "lock"]
            BY <1>9 DEF Scan, k
        <3>2. \A v \in {start[t], k} : v \in 0..(N - 1)
            BY <2>1, <2>2
        <3> QED
            BY <1>0, <3>1, <3>2 DEF TypeOK
    <2>5. W!WatcherTypeOK'
        BY <1>0, <1>9 DEF Scan, TypeOK, watcher, W!WatcherTypeOK
    <2> QED
        BY <1>0, <1>9, <2>3, <2>4, <2>5 DEF Scan, TypeOK, lua, request
<1>10. ASSUME NEW t \in Task, Lock(t) PROVE TypeOK'
    BY <1>0, <1>10 DEF Lock, TypeOK, W!WatcherTypeOK, watcher, lua, request, picking
<1>11. ASSUME NEW t \in Task, Return(t) PROVE TypeOK'
    <2>1. PICK interrupted \in BOOLEAN :
             /\ IF pc[t] = "run" \/ (Accepts(gen[t], route[t]) /\ ~interrupted)
                THEN pc' = [pc EXCEPT ![t] = "run"] /\ UNCHANGED route
                ELSE /\ route' = [route EXCEPT
                             ![t] = NextCandidate(Static[loads[cfg[t]]][target[t]], @)]
                     /\ UNCHANGED pc
             /\ misled' = [misled EXCEPT ![t] = @ \/ (pc[t] = "select" /\ interrupted)]
        BY <1>11 DEF Return
    <2>2. UNCHANGED <<watcher, lua, rr, target, cfg, start, off>>
        BY <1>11 DEF Return
    <2>3. pc' \in [Task -> {"idle", "select", "run"}]
        BY <1>0, <2>1 DEF TypeOK
    <2>4. misled' \in [Task -> BOOLEAN]
        BY <1>0, <2>1, Zenon DEF TypeOK
    <2>5. /\ route' \in [Task -> Nat]
          /\ \A u \in Task : route'[u] \in {0} \cup DOMAIN Config[loads[cfg[u]]]
        <3>1. CASE UNCHANGED route
            BY <1>0, <3>1 DEF TypeOK
        <3>2. CASE route' = [route EXCEPT
                      ![t] = NextCandidate(Static[loads[cfg[t]]][target[t]], @)]
            <4>1. /\ NextCandidate(Static[loads[cfg[t]]][target[t]], route[t]) \in Nat
                  /\ NextCandidate(Static[loads[cfg[t]]][target[t]], route[t])
                        \in {0} \cup DOMAIN Config[loads[cfg[t]]]
                <5>1. loads[cfg[t]] \in DOMAIN Config /\ route[t] \in Nat
                    BY <1>0 DEF TypeOK
                <5>2. target[t] \in Target
                    BY <1>11 DEF IInv, Walked, Return
                <5> QED
                    BY <5>1, <5>2, NextIsRoute
            <4> QED
                BY <1>0, <3>2, <4>1 DEF TypeOK
        <3> QED
            BY <2>1, <3>1, <3>2
    <2>6. W!WatcherTypeOK'
        BY <1>0, <2>2 DEF TypeOK, watcher, W!WatcherTypeOK
    <2>7. /\ call' \in [Task -> {"no", "scan", "lock", "call"}]
          /\ gen' \in [Task -> DOMAIN loads] /\ vm' \in [Task -> 0..(N - 1)]
        BY <1>0, <1>11, FirstGeneration DEF Return, TypeOK
    <2> QED
        BY <1>0, <2>2, <2>3, <2>4, <2>5, <2>6, <2>7 DEF TypeOK, lua
<1> QED
    BY <1>1, <1>2, <1>3, <1>4, <1>6, <1>7, <1>8, <1>9, <1>10, <1>11 DEF Next, Works

-----------------------------------------------------------------------------
(* One task per VM: only Lock lets a task call, and only into a free VM.   *)

\* A step that makes no task call a hook keeps the callers apart.
LEMMA NoNewCaller ==
    ASSUME OneTaskPerVm,
           \A u \in Task : call'[u] = "call" =>
               call[u] = "call" /\ gen'[u] = gen[u] /\ vm'[u] = vm[u]
    PROVE  OneTaskPerVm'
BY DEF OneTaskPerVm

\* A step keeps the callers of hooks in VMs of their own.
LEMMA StepOneTask == IInv /\ [Next]_vars => OneTaskPerVm'
<1> SUFFICES ASSUME IInv, [Next]_vars PROVE OneTaskPerVm'
    OBVIOUS
<1>0. TypeOK /\ OneTaskPerVm
    BY DEF IInv
<1> DEFINE Quiet == \A u \in Task : call'[u] = "call" =>
                        call[u] = "call" /\ gen'[u] = gen[u] /\ vm'[u] = vm[u]
<1>1. CASE UNCHANGED <<call, picking>>
    BY <1>0, <1>1 DEF picking, OneTaskPerVm
<1>2. ASSUME NEW t \in Task, Pick(t) \/ Scan(t) \/ Return(t) PROVE Quiet
    <2>1. CASE Pick(t)
        BY <1>0, <2>1 DEF Pick, TypeOK
    <2>2. CASE Scan(t)
        BY <1>0, <2>2 DEF Scan, TypeOK
    <2>3. CASE Return(t)
        BY <1>0, <2>3 DEF Return, TypeOK
    <2> QED
        BY <1>2, <2>1, <2>2, <2>3
<1>3. ASSUME NEW t \in Task, Lock(t) PROVE OneTaskPerVm'
    <2>1. /\ call' = [call EXCEPT ![t] = "call"] /\ UNCHANGED <<gen, vm>>
          /\ ~Locked(gen[t], vm[t])
        BY <1>3 DEF Lock, picking
    <2> QED
        BY <1>0, <2>1 DEF OneTaskPerVm, Locked, TypeOK
<1> QED
    BY <1>0, <1>1, <1>2, <1>3, NoNewCaller
       DEF Next, Works, Reload, ReloadConfig, ReloadVms, ReloadFails, Arrive, Selected,
           Finish, tasks, vars

-----------------------------------------------------------------------------
(* The choice of a route.                                                  *)

\* A request that does nothing has come as far as before.
LEMMA StandsStill ==
    ASSUME NEW t \in Task, Walked(t), loads'[cfg[t]] = loads[cfg[t]],
           pc'[t] = pc[t], call'[t] = call[t], target'[t] = target[t],
           cfg'[t] = cfg[t], route'[t] = route[t], gen'[t] = gen[t],
           misled'[t] = misled[t]
    PROVE  Walked(t)'
BY DEF Walked, HasPredicate

\* A request that has left has no call, and nothing else to keep.
LEMMA LeftIsWalked ==
    ASSUME NEW t \in Task, TypeOK, call[t] = "no", Leave(t), UNCHANGED call
    PROVE  Walked(t)'
BY DEF Walked, Leave, TypeOK

\* The predicate of its candidate has returned: the candidate is chosen, or what
\* fits is behind it.
LEMMA ReturnIsWalked ==
    ASSUME NEW t \in Task, TypeOK, Walked(t), Return(t)
    PROVE  Walked(t)'
<1> DEFINE c == loads[cfg[t]]
           n == NextCandidate(Static[c][target[t]], route[t])
<1>1. c \in DOMAIN Config /\ route[t] \in Nat /\ misled[t] \in BOOLEAN
    BY DEF TypeOK
<1>2. /\ pc[t] # "idle" /\ target[t] \in Target
      /\ call' = [call EXCEPT ![t] = "no"] /\ call'[t] = "no"
      /\ UNCHANGED <<target, cfg, loads>>
    BY DEF Return, Walked, TypeOK, lua
<1>3. CASE pc[t] = "run"
    <2>1. pc'[t] = "run" /\ route'[t] = route[t] /\ misled'[t] = misled[t]
        BY <1>1, <1>3 DEF Return, TypeOK
    <2> QED
        BY <1>2, <1>3, <2>1 DEF Walked
<1>4. CASE pc[t] = "select"
    <2>1. HasPredicate(t) /\ (~misled[t] => gen[t] = cfg[t])
        BY <1>4 DEF Walked, Return
    <2>2. /\ route[t] # 0 /\ route[t] \in Static[c][target[t]]
          /\ route[t] \in DOMAIN c.routes
          /\ "predicate" \in DOMAIN c.routes[route[t]].match
          /\ c.routes[route[t]].match.predicate \in Outcomes
        BY <1>1, <1>2, <1>4, <2>1, Configured DEF HasPredicate, Walked
    <2>3. ~misled[t] => (Accepts(gen[t], route[t]) <=> route[t] \in Fitting(c, target[t]))
        <3> SUFFICES ASSUME ~misled[t]
                     PROVE  Accepts(gen[t], route[t]) <=> route[t] \in Fitting(c, target[t])
            OBVIOUS
        <3>1. Predicate(gen[t], route[t]) = c.routes[route[t]].match.predicate
            BY <2>1, <2>2 DEF Predicate, Get
        <3> QED
            BY <2>2, <3>1 DEF Accepts, Fitting, Outcomes
    <2>4. /\ n \in Nat /\ (n # 0 => n \in Static[c][target[t]])
          /\ \A j \in Static[c][target[t]] : j > route[t] => n # 0 /\ n <= j
        BY <1>1, <1>2, NextIsRoute
    <2>5. ~misled[t] => \A i \in Fitting(c, target[t]) : route[t] <= i
        BY <1>4 DEF Walked
    <2>6. \A i \in Fitting(c, target[t]) : i \in Nat /\ i \in Static[c][target[t]]
        BY <1>1, <1>2, Configured DEF Fitting
    <2> HIDE DEF n
    <2>7. ~misled'[t] => ~misled[t]
        BY <1>1 DEF Return, TypeOK
    <2>8. \/ pc'[t] = "run" /\ route'[t] = route[t] /\ Accepts(gen[t], route[t])
          \/ /\ pc'[t] = "select" /\ route'[t] = n
             /\ ~misled'[t] => ~Accepts(gen[t], route[t])
        BY <1>4 DEF Return, TypeOK, n
    <2>9. CASE pc'[t] = "run" /\ route'[t] = route[t] /\ Accepts(gen[t], route[t])
        BY <1>2, <2>2, <2>3, <2>5, <2>7, <2>9 DEF Walked
    <2>10. CASE /\ pc'[t] = "select" /\ route'[t] = n
                /\ ~misled'[t] => ~Accepts(gen[t], route[t])
        <3>1. ~misled'[t] => \A i \in Fitting(c, target[t]) : n # 0 /\ n <= i
            <4> SUFFICES ASSUME ~misled'[t], NEW i \in Fitting(c, target[t])
                         PROVE  n # 0 /\ n <= i
                OBVIOUS
            <4>1. route[t] <= i /\ i # route[t]
                BY <2>3, <2>5, <2>7, <2>10
            <4> QED
                BY <1>1, <2>4, <2>6, <4>1
        <3> QED
            BY <1>2, <2>4, <2>10, <3>1 DEF Walked
    <2> QED
        BY <2>8, <2>9, <2>10
<1> QED
    BY <1>2, <1>3, <1>4 DEF TypeOK

\* A request that arrives looks at its first candidate.
LEMMA ArriveIsWalked ==
    ASSUME NEW t \in Task, TypeOK, NEW x \in Target, Walked(t), Arrive(t, x)
    PROVE  Walked(t)'
<1> DEFINE c == loads[config]
           n == NextCandidate(Static[c][x], 0)
<1>1. c \in DOMAIN Config /\ 0 \in Nat
    BY DEF TypeOK
<1>2. /\ n \in Nat /\ (n # 0 => n \in Static[c][x])
      /\ \A j \in Static[c][x] : j > 0 => n # 0 /\ n <= j
    BY <1>1, NextIsRoute
<1>3. \A i \in Fitting(c, x) : i \in Static[c][x] /\ i \in Nat \ {0}
    BY <1>1, Configured DEF Fitting
<1>4. \A i \in Fitting(c, x) : n # 0 /\ n <= i
    <2> HIDE DEF n
    <2> QED
        BY <1>2, <1>3
<1> HIDE DEF n
<1>5. /\ pc'[t] = "select" /\ call'[t] = "no" /\ target'[t] = x /\ route'[t] = n
      /\ loads'[cfg'[t]] = c
    BY DEF Arrive, TypeOK, Walked, lua, n
<1> QED
    BY <1>2, <1>4, <1>5 DEF Walked

\* A candidate without a predicate is chosen.
LEMMA SelectedIsWalked ==
    ASSUME NEW t \in Task, TypeOK, Walked(t), Selected(t)
    PROVE  Walked(t)'
<1>1. CASE route[t] = 0
    BY <1>1, LeftIsWalked DEF Selected, picking
<1>2. CASE route[t] # 0
    <2> DEFINE c == loads[cfg[t]]
    <2>1. c \in DOMAIN Config
        BY DEF TypeOK
    <2>2. target[t] \in Target /\ route[t] \in Static[c][target[t]] /\ ~HasPredicate(t)
        BY <1>2 DEF Selected, Walked
    <2>3. route[t] \in Fitting(c, target[t])
        BY <1>2, <2>1, <2>2, Configured DEF Fitting, HasPredicate
    <2>4. /\ pc'[t] = "run" /\ call'[t] = "no"
          /\ UNCHANGED <<loads, cfg, target, route, misled>>
        BY <1>2 DEF Selected, TypeOK, lua, request
    <2> QED
        BY <1>2, <2>2, <2>3, <2>4 DEF Walked, Selected
<1> QED
    BY <1>1, <1>2

\* On its way to a VM a request stays where it is; the VMs it has picked are
\* those of its configuration, or the history says so.
LEMMA CallIsWalked ==
    ASSUME NEW t \in Task, TypeOK, OneTaskPerVm, Walked(t), Pick(t) \/ Scan(t) \/ Lock(t)
    PROVE  Walked(t)'
<1>1. CASE Pick(t)
    <2>1. /\ UNCHANGED <<loads, cfg, pc, target, route>>
          /\ gen'[t] = vms /\ call'[t] = "scan"
          /\ misled'[t] = (misled[t] \/ (pc[t] = "select" /\ vms # cfg[t]))
        BY <1>1 DEF Pick, TypeOK, lua, request
    <2>2. /\ pc[t] = "run" \/ (pc[t] = "select" /\ HasPredicate(t))
          /\ ~misled'[t] => ~misled[t] /\ (pc[t] = "select" => vms = cfg[t])
        BY <1>1, <2>1 DEF Pick
    <2> QED
        BY <2>1, <2>2 DEF Walked, HasPredicate
<1>2. CASE Scan(t)
    <2>1. UNCHANGED <<loads, cfg, pc, target, route, gen, misled>> /\ call[t] = "scan"
        BY <1>2 DEF Scan, lua, request
    <2> QED
        BY <2>1 DEF Walked, HasPredicate
<1>3. CASE Lock(t)
    <2>1. UNCHANGED <<loads, cfg, pc, target, route, gen, misled>> /\ call[t] = "lock"
        BY <1>3 DEF Lock, lua, request, picking
    <2> QED
        BY <2>1 DEF Walked, HasPredicate
<1> QED
    BY <1>1, <1>2, <1>3

\* A step takes every request as far as it is.
LEMMA StepWalked == IInv /\ [Next]_vars => \A t \in Task : Walked(t)'
<1> SUFFICES ASSUME IInv, [Next]_vars, NEW t \in Task PROVE Walked(t)'
    OBVIOUS
<1>0. TypeOK /\ OneTaskPerVm /\ Walked(t)
    BY DEF IInv
<1>1. CASE UNCHANGED tasks /\ loads'[cfg[t]] = loads[cfg[t]]
    BY <1>0, <1>1, StandsStill DEF tasks, request, picking
<1>2. CASE Reload
    <2>1. UNCHANGED tasks
        BY <1>2 DEF Reload, ReloadConfig, ReloadVms, ReloadFails
    <2> QED
        BY <1>0, <1>1, <1>2, <2>1, ReloadKeeps DEF TypeOK
<1>3. ASSUME NEW u \in Task,
             (\E x \in Target : Arrive(u, x)) \/ Works(u) \/ Lock(u)
      PROVE  Walked(t)'
    <2>1. CASE t = u
        <3>1. ASSUME NEW x \in Target, Arrive(t, x) PROVE Walked(t)'
            BY <1>0, <3>1, ArriveIsWalked
        <3>2. CASE Finish(t)
            BY <1>0, <3>2, LeftIsWalked DEF Finish, picking
        <3> QED
            BY <1>0, <1>3, <2>1, <3>1, <3>2, SelectedIsWalked, CallIsWalked,
               ReturnIsWalked DEF Works
    <2>2. CASE t # u
        <3>1. UNCHANGED loads
            BY <1>3
               DEF Arrive, Works, Selected, Finish, Pick, Scan, Return, Lock, lua
        <3>2. /\ pc'[t] = pc[t] /\ call'[t] = call[t] /\ target'[t] = target[t]
              /\ cfg'[t] = cfg[t] /\ route'[t] = route[t] /\ gen'[t] = gen[t]
              /\ misled'[t] = misled[t]
            BY <1>0, <1>3, <2>2
               DEF Arrive, Works, Selected, Finish, Leave, Pick, Scan, Return, Lock,
                   TypeOK, request, picking
        <3> QED
            BY <1>0, <3>1, <3>2, StandsStill
    <2> QED
        BY <2>1, <2>2
<1> QED
    BY <1>1, <1>2, <1>3 DEF Next, vars, lua

-----------------------------------------------------------------------------
(* The patterns of a match table.                                          *)

\* What holds at 0 and goes from k to k + 1 holds up to n.
LEMMA Climb ==
    ASSUME NEW S, NEW n \in Nat, 0 \in S, \A k \in 0..(n - 1) : k \in S => k + 1 \in S
    PROVE  \A k \in 0..n : k \in S
<1> DEFINE out == {k \in 0..n : k \notin S}
<1> SUFFICES ASSUME out # {} PROVE FALSE
    OBVIOUS
<1>1. PICK k \in out : \A j \in out : k <= j
    <2>1. out \in SUBSET Nat
        OBVIOUS
    <2> HIDE DEF out
    <2> QED
        BY <2>1, HasFirst
<1>2. k # 0 /\ k \in 0..n /\ k \notin S
    OBVIOUS
<1>3. k - 1 \notin out /\ k - 1 \in 0..(n - 1)
    BY <1>1, <1>2
<1> QED
    BY <1>2, <1>3


\* A token that is no wildcard takes itself.
LEMMA PlainPiece ==
    ASSUME NEW p, IsText(p), NEW i \in 0..Len(p), NEW j \in 0..Len(p), i <= j,
           NEW token, token \notin Wildcards
    PROVE  TakesPiece(token, SubSeq(p, i + 1, j)) <=> i = j - 1 /\ p[j] = token
<1> DEFINE q == SubSeq(p, i + 1, j)
<1>0. p \in Seq(Range(p)) /\ i \in Int /\ j \in Int
    BY LenProperties DEF IsText
<1>1. /\ Len(q) = j - i /\ \A k \in 1..(j - i) : q[k] = p[i + k]
      /\ q \in Seq(Range(p))
    BY <1>0, SubSeqProperties
<1> HIDE DEF q
<1>2. TakesPiece(token, q) <=> q = <<token>>
    BY DEF TakesPiece, Wildcards
<1>3. ASSUME i = j - 1, p[j] = token PROVE q = <<token>>
    <2>1. i + 1 = j /\ j - i = 1 /\ 1 \in 1..(j - i)
        BY <1>0, <1>3
    <2>2. Len(q) = 1 /\ q[1] = token
        BY <1>1, <1>3, <2>1
    <2>3. \A k \in 1..Len(q) : q[k] = <<token>>[k]
        BY <2>2
    <2>4. token \in Range(p)
        <3>1. q \in [1..Len(q) -> Range(p)]
            BY <1>1, LenProperties
        <3>2. 1 \in 1..Len(q)
            BY <2>2
        <3> QED
            BY <2>2, <3>1, <3>2
    <2>5. <<token>> \in Seq(Range(p)) /\ Len(<<token>>) = 1
        BY <2>4
    <2> QED
        BY <1>1, <2>2, <2>3, <2>5, SeqEqual
<1>4. ASSUME q = <<token>> PROVE i = j - 1 /\ p[j] = token
    <2>1. Len(q) = 1 /\ q[1] = token
        BY <1>4
    <2>2. j - i = 1
        BY <1>1, <2>1
    <2>3. i = j - 1 /\ i + 1 = j /\ 1 \in 1..(j - i)
        BY <1>0, <2>2
    <2> QED
        BY <1>1, <2>1, <2>3
<1> QED
    BY <1>2, <1>3, <1>4 DEF q

\* The positions behind a token are the ends of the pieces it takes.
LEMMA ReachIsPiece ==
    ASSUME NEW p, IsText(p), NEW S \in SUBSET (0..Len(p)), NEW token, NEW j
    PROVE  j \in Reach(p, S, token) <=>
               /\ j \in 0..Len(p)
               /\ \E i \in S : i <= j /\ TakesPiece(token, SubSeq(p, i + 1, j))
<1>0. p \in Seq(Range(p)) /\ Len(p) \in Nat
    BY DEF IsText
<1>1. ASSUME NEW i \in 0..Len(p), j \in 0..Len(p), i <= j
      PROVE  /\ Len(SubSeq(p, i + 1, j)) = j - i
             /\ DOMAIN SubSeq(p, i + 1, j) = 1..(j - i)
             /\ \A k \in 1..(j - i) : SubSeq(p, i + 1, j)[k] = p[i + k]
    BY <1>0, <1>1, SubSeqProperties
<1>2. CASE token = "**"
    BY <1>2 DEF Reach, TakesPiece
<1>3. CASE token = "*"
    <2>1. ASSUME NEW i \in S, j \in 0..Len(p), i <= j
          PROVE  (\A k \in (i + 1)..j : p[k] # "/")
                     <=> TakesPiece(token, SubSeq(p, i + 1, j))
        <3>1. (\A k \in (i + 1)..j : p[k] # "/") <=> \A k \in 1..(j - i) : p[i + k] # "/"
            <4>1. ASSUME NEW k \in (i + 1)..j PROVE k - i \in 1..(j - i) /\ i + (k - i) = k
                BY <2>1, <4>1
            <4>2. ASSUME NEW k \in 1..(j - i) PROVE i + k \in (i + 1)..j
                BY <2>1, <4>2
            <4> QED
                BY <4>1, <4>2
        <3> QED
            BY <1>1, <1>3, <2>1, <3>1 DEF TakesPiece
    <2>2. Reach(p, S, token) = {m \in 0..Len(p) :
              \E i \in S : i <= m /\ \A k \in (i + 1)..m : p[k] # "/"}
        BY <1>3 DEF Reach
    <2> QED
        BY <2>1, <2>2
<1>4. CASE token = "?"
    <2>1. ASSUME NEW i \in S, j \in 0..Len(p), i <= j
          PROVE  TakesPiece(token, SubSeq(p, i + 1, j)) <=> i = j - 1 /\ p[j] # "/"
        <3> DEFINE q == SubSeq(p, i + 1, j)
        <3>1. Len(q) = j - i /\ \A k \in 1..(j - i) : q[k] = p[i + k]
            BY <1>1, <2>1
        <3> HIDE DEF q
        <3>2. TakesPiece(token, q) <=> j - i = 1 /\ q[1] # "/"
            BY <1>4, <3>1 DEF TakesPiece
        <3>3. ASSUME j - i = 1 PROVE i = j - 1 /\ q[1] = p[j]
            <4>1. i \in Int /\ j \in Int
                BY <1>0, <2>1
            <4>2. i = j - 1 /\ i + 1 = j /\ 1 \in 1..(j - i)
                BY <3>3, <4>1
            <4> QED
                BY <3>1, <4>2
        <3> QED
            BY <1>0, <2>1, <3>2, <3>3 DEF q
    <2>2. Reach(p, S, token) = {m \in 1..Len(p) : m - 1 \in S /\ p[m] # "/"}
        BY <1>4 DEF Reach
    <2> QED
        BY <1>0, <2>1, <2>2
<1>5. CASE token \notin Wildcards
    <2>1. ASSUME NEW i \in S, j \in 0..Len(p), i <= j
          PROVE  TakesPiece(token, SubSeq(p, i + 1, j)) <=> i = j - 1 /\ p[j] = token
        BY <1>0, <1>5, <2>1, PlainPiece
    <2>2. Reach(p, S, token) = {m \in 1..Len(p) : m - 1 \in S /\ p[m] = token}
        BY <1>5 DEF Reach, Wildcards
    <2> QED
        BY <1>0, <2>1, <2>2
<1> QED
    BY <1>2, <1>3, <1>4, <1>5 DEF Wildcards

\* What can be reached is defined: place by place, from the front.
Reaches(g, p, n, f) ==
    f = [i \in 0..n |-> IF i = 0 THEN {0} ELSE Reach(p, f[i - 1], g[i])]

LEMMA ReachedExists ==
    ASSUME NEW g, NEW p, NEW n \in Nat
    PROVE  \E f : Reaches(g, p, n, f)
<1> DEFINE S == {k \in Nat : \E f : Reaches(g, p, k, f)}
<1>1. 0 \in S
    <2> DEFINE f == [i \in 0..0 |-> {0}]
    <2>1. Reaches(g, p, 0, f)
        BY DEF Reaches
    <2> QED
        BY <2>1
<1>2. ASSUME NEW k \in Nat, k \in S PROVE k + 1 \in S
    <2>1. PICK f : Reaches(g, p, k, f)
        BY <1>2
    <2> DEFINE h == [i \in 0..(k + 1) |->
                        IF i = k + 1 THEN Reach(p, f[k], g[k + 1]) ELSE f[i]]
    <2>2. ASSUME NEW i \in 0..(k + 1)
          PROVE  h[i] = IF i = 0 THEN {0} ELSE Reach(p, h[i - 1], g[i])
        <3>1. CASE i = k + 1
            <4>1. h[k] = f[k]
                OBVIOUS
            <4> QED
                BY <3>1, <4>1
        <3>2. CASE i # k + 1 /\ i # 0
            <4>1. i \in 0..k /\ h[i] = f[i] /\ h[i - 1] = f[i - 1]
                BY <3>2
            <4>2. f[i] = Reach(p, f[i - 1], g[i])
                BY <2>1, <3>2, <4>1 DEF Reaches
            <4> QED
                BY <3>2, <4>1, <4>2
        <3>3. CASE i = 0
            <4>1. f[0] = {0}
                BY <2>1 DEF Reaches
            <4> QED
                BY <3>3, <4>1
        <3> QED
            BY <3>1, <3>2, <3>3
    <2>3. Reaches(g, p, k + 1, h)
        <3>1. h = [i \in 0..(k + 1) |-> h[i]]
            OBVIOUS
        <3> HIDE DEF h
        <3> QED
            BY <2>2, <3>1 DEF Reaches
    <2> QED
        BY <2>3
<1> HIDE DEF S
<1>3. \A k \in 0..n : k \in S
    BY <1>1, <1>2, Climb
<1> QED
    BY <1>3 DEF S

\* The text up to j is cut into pieces for the first k tokens of g.
CutsTo(g, p, k, j) ==
    \E cut \in [0..k -> 0..Len(p)] :
        /\ cut[0] = 0 /\ cut[k] = j
        /\ \A i \in 1..k :
              /\ cut[i - 1] <= cut[i]
              /\ TakesPiece(g[i], SubSeq(p, cut[i - 1] + 1, cut[i]))

\* One more token takes one more piece.
LEMMA CutOneMore ==
    ASSUME NEW g, NEW p, IsText(p), NEW k \in Nat, NEW j
    PROVE  CutsTo(g, p, k + 1, j) <=>
               /\ j \in 0..Len(p)
               /\ \E i \in 0..Len(p) :
                     /\ CutsTo(g, p, k, i)
                     /\ i <= j /\ TakesPiece(g[k + 1], SubSeq(p, i + 1, j))
<1> DEFINE Takes(n, a, b) == a <= b /\ TakesPiece(g[n], SubSeq(p, a + 1, b))
           Path(n, cut) == \A i \in 1..n : Takes(i, cut[i - 1], cut[i])
<1>0. \A n, m : CutsTo(g, p, n, m) <=>
          \E cut \in [0..n -> 0..Len(p)] : cut[0] = 0 /\ cut[n] = m /\ Path(n, cut)
    BY DEF CutsTo
<1> HIDE DEF Takes, Path
<1>1. ASSUME CutsTo(g, p, k + 1, j)
      PROVE  /\ j \in 0..Len(p)
             /\ \E i \in 0..Len(p) : CutsTo(g, p, k, i) /\ Takes(k + 1, i, j)
    <2>1. PICK cut \in [0..(k + 1) -> 0..Len(p)] :
              cut[0] = 0 /\ cut[k + 1] = j /\ Path(k + 1, cut)
        BY <1>0, <1>1
    <2> DEFINE less == [x \in 0..k |-> cut[x]]
    <2>2. less \in [0..k -> 0..Len(p)] /\ less[0] = 0
        BY <2>1
    <2>3. Path(k, less)
        BY <2>1 DEF Path
    <2>4. less[k] = cut[k] /\ cut[k] \in 0..Len(p) /\ j \in 0..Len(p)
        BY <2>1
    <2>5. Takes(k + 1, cut[k], j)
        BY <2>1 DEF Path
    <2>6. CutsTo(g, p, k, cut[k])
        BY <1>0, <2>2, <2>3, <2>4
    <2> QED
        BY <2>4, <2>5, <2>6
<1>2. ASSUME j \in 0..Len(p), NEW i \in 0..Len(p), CutsTo(g, p, k, i), Takes(k + 1, i, j)
      PROVE  CutsTo(g, p, k + 1, j)
    <2>1. PICK cut \in [0..k -> 0..Len(p)] : cut[0] = 0 /\ cut[k] = i /\ Path(k, cut)
        BY <1>0, <1>2
    <2> DEFINE more == [x \in 0..(k + 1) |-> IF x = k + 1 THEN j ELSE cut[x]]
    <2>2. /\ more \in [0..(k + 1) -> 0..Len(p)]
          /\ more[0] = 0 /\ more[k + 1] = j /\ more[k] = i
        BY <1>2, <2>1
    <2>3. ASSUME NEW m \in 1..(k + 1) PROVE Takes(m, more[m - 1], more[m])
        <3>1. CASE m = k + 1
            BY <1>2, <2>2, <3>1
        <3>2. CASE m # k + 1
            <4>1. m \in 1..k /\ more[m - 1] = cut[m - 1] /\ more[m] = cut[m]
                BY <3>2
            <4> QED
                BY <2>1, <4>1 DEF Path
        <3> QED
            BY <3>1, <3>2
    <2> HIDE DEF more
    <2> QED
        BY <1>0, <2>2, <2>3 DEF Path
<1> QED
    BY <1>1, <1>2 DEF Takes

\* The regular expression that the code makes of a glob accepts the paths that
\* can be cut into pieces for its tokens.
LEMMA GlobIsRead ==
    ASSUME NEW g, Len(g) \in Nat, NEW p, IsText(p)
    PROVE  GlobMatches(g, p) <=> Reads(g, p)
<1> DEFINE n == Len(g)
           f == CHOOSE r : Reaches(g, p, n, r)
           S == {k \in Nat : \A j : (j \in f[k]) <=> CutsTo(g, p, k, j)}
<1>0. Len(p) \in Nat
    BY LenProperties DEF IsText
<1>1. Reaches(g, p, n, f)
    BY ReachedExists
<1>2. GlobMatches(g, p) <=> Len(p) \in f[n]
    BY DEF GlobMatches, Reaches
<1>3. f[0] = {0} /\ \A k \in 0..(n - 1) : f[k + 1] = Reach(p, f[k], g[k + 1])
    <2> HIDE DEF f
    <2>1. f = [i \in 0..n |-> IF i = 0 THEN {0} ELSE Reach(p, f[i - 1], g[i])]
        BY <1>1 DEF Reaches
    <2>2. ASSUME NEW k \in 0..(n - 1) PROVE f[k + 1] = Reach(p, f[k], g[k + 1])
        <3>1. k + 1 \in 0..n /\ k + 1 # 0 /\ (k + 1) - 1 = k
            OBVIOUS
        <3> QED
            BY <2>1, <3>1
    <2>3. f[0] = {0}
        BY <2>1
    <2> QED
        BY <2>2, <2>3
<1> HIDE DEF f
<1>4. 0 \in S
    <2>1. ASSUME NEW j PROVE CutsTo(g, p, 0, j) <=> j = 0
        <3>1. ASSUME j = 0 PROVE CutsTo(g, p, 0, j)
            <4> DEFINE cut == [i \in 0..0 |-> 0]
            <4>1. cut \in [0..0 -> 0..Len(p)] /\ cut[0] = 0
                BY <1>0
            <4> HIDE DEF cut
            <4> QED
                BY <3>1, <4>1 DEF CutsTo
        <3> QED
            BY <3>1 DEF CutsTo
    <2> QED
        BY <1>3, <2>1
<1>5. ASSUME NEW k \in 0..(n - 1), k \in S PROVE k + 1 \in S
    <2>1. k \in Nat /\ k + 1 \in Nat /\ \A j : (j \in f[k]) <=> CutsTo(g, p, k, j)
        BY <1>5
    <2>2. f[k] \in SUBSET (0..Len(p))
        BY <2>1 DEF CutsTo
    <2>3. ASSUME NEW j PROVE (j \in f[k + 1]) <=> CutsTo(g, p, k + 1, j)
        <3>1. (j \in f[k + 1]) <=>
                  /\ j \in 0..Len(p)
                  /\ \E i \in f[k] : i <= j /\ TakesPiece(g[k + 1], SubSeq(p, i + 1, j))
            <4>1. f[k + 1] = Reach(p, f[k], g[k + 1])
                BY <1>3
            <4> DEFINE T == f[k]
                       w == g[k + 1]
            <4>2. T \in SUBSET (0..Len(p)) /\ IsText(p)
                BY <2>2
            <4> HIDE DEF T, w
            <4>3. j \in Reach(p, T, w) <=>
                      /\ j \in 0..Len(p)
                      /\ \E i \in T : i <= j /\ TakesPiece(w, SubSeq(p, i + 1, j))
                BY <4>2, ReachIsPiece
            <4> QED
                BY <4>1, <4>3 DEF T, w
        <3> QED
            BY <2>1, <2>2, <3>1, CutOneMore
    <2> QED
        BY <2>1, <2>3
<1>6. n \in S
    <2>1. n \in Nat /\ n \in 0..n
        OBVIOUS
    <2> HIDE DEF S
    <2> QED
        BY <1>4, <1>5, <2>1, Climb
<1>7. CutsTo(g, p, n, Len(p)) <=> Reads(g, p)
    BY DEF CutsTo, Reads
<1> QED
    BY <1>2, <1>6, <1>7

\* Pieces for tokens that are no wildcards are one character each.
LEMMA PlainFront ==
    ASSUME NEW g, Len(g) \in Nat, NEW p, IsText(p),
           NEW m \in 0..Len(g), \A i \in 1..m : g[i] \notin Wildcards,
           NEW cut \in [0..Len(g) -> 0..Len(p)], cut[0] = 0,
           \A i \in 1..Len(g) : /\ cut[i - 1] <= cut[i]
                                /\ TakesPiece(g[i], SubSeq(p, cut[i - 1] + 1, cut[i]))
    PROVE  /\ m <= Len(p)
           /\ \A i \in 1..m : p[i] = g[i]
<1> DEFINE S == {i \in 0..m : cut[i] = i /\ (i > 0 => p[i] = g[i])}
<1>1. 0 \in S
    OBVIOUS
<1>2. ASSUME NEW k \in 0..(m - 1), k \in S PROVE k + 1 \in S
    <2>1. /\ k + 1 \in 1..m /\ k + 1 \in 1..Len(g) /\ (k + 1) - 1 = k
          /\ cut[k] \in 0..Len(p) /\ cut[k + 1] \in 0..Len(p) /\ cut[k] = k
        BY <1>2
    <2>2. cut[k] <= cut[k + 1] /\ TakesPiece(g[k + 1], SubSeq(p, cut[k] + 1, cut[k + 1]))
        BY <2>1
    <2> DEFINE a == cut[k]
               b == cut[k + 1]
               w == g[k + 1]
    <2>3. w \notin Wildcards
        BY <2>1
    <2> HIDE DEF a, b, w
    <2>4. a \in 0..Len(p) /\ b \in 0..Len(p) /\ a <= b /\ a = k
          /\ TakesPiece(w, SubSeq(p, a + 1, b))
        BY <2>1, <2>2 DEF a, b, w
    <2>5. a = b - 1 /\ p[b] = w
        BY <2>3, <2>4, PlainPiece
    <2>6. Len(p) \in Nat
        BY LenProperties DEF IsText
    <2>7. b = k + 1
        BY <2>4, <2>5, <2>6
    <2> QED
        BY <2>1, <2>5, <2>7 DEF b, w
<1> HIDE DEF S
<1>3. \A i \in 0..m : i \in S
    <2>1. m \in Nat
        OBVIOUS
    <2> QED
        BY <1>1, <1>2, <2>1, Climb
<1>4. \A i \in 1..m : p[i] = g[i]
    BY <1>3 DEF S
<1>5. cut[m] = m
    <2>1. m \in S
        BY <1>3
    <2> QED
        BY <2>1 DEF S
<1> QED
    BY <1>4, <1>5

\* Two texts that begin with the same m characters.
LEMMA SameFront ==
    ASSUME NEW s, IsText(s), NEW t, IsText(t),
           NEW m \in Nat, m <= Len(s), m <= Len(t)
    PROVE  SubSeq(s, 1, m) = SubSeq(t, 1, m) <=> \A i \in 1..m : s[i] = t[i]
<1> DEFINE S == Range(s) \cup Range(t)
           a == SubSeq(s, 1, m)
           b == SubSeq(t, 1, m)
<1>0. s \in Seq(Range(s)) /\ t \in Seq(Range(t)) /\ Len(s) \in Nat /\ Len(t) \in Nat
    BY LenProperties DEF IsText
<1>1. \A i \in 1..m : s[i] \in S /\ t[i] \in S
    BY <1>0, LenProperties
<1> HIDE DEF S
<1>2. /\ a \in Seq(S) /\ Len(a) = m /\ \A i \in 1..m : a[i] = s[i]
      /\ b \in Seq(S) /\ Len(b) = m /\ \A i \in 1..m : b[i] = t[i]
    BY <1>1, SubSeqProperties
<1> HIDE DEF a, b
<1>3. (\A i \in 1..m : s[i] = t[i]) => a = b
    BY <1>2, SeqEqual
<1> QED
    BY <1>2, <1>3 DEF a, b

LEMMA PrefixIsFront ==
    ASSUME NEW s, IsText(s), NEW t, IsText(t)
    PROVE  IsPrefix(s, t) <=> Len(s) <= Len(t) /\ \A i \in 1..Len(s) : s[i] = t[i]
<1>1. Len(s) \in Nat
    BY LenProperties DEF IsText
<1> QED
    BY <1>1, SameFront DEF IsPrefix

\* The short cut for a prefix takes every path that the glob stands for (and
\* others).
LEMMA PrefixIsRead ==
    ASSUME NEW g, IsText(g), IsPlainPrefix(g), NEW p, IsText(p)
    PROVE  LET u == SubSeq(g, 1, Len(g) - 2) IN
           Reads(g, p) => IsPrefix(u, p)
<1> DEFINE m == Len(g) - 2
           u == SubSeq(g, 1, m)
           S == Range(g)
<1>0. Len(g) \in Nat /\ Len(p) \in Nat /\ g \in Seq(Range(g)) /\ p \in Seq(Range(p))
    BY LenProperties DEF IsText
<1>1. m \in Nat /\ \A i \in 1..m : g[i] \notin Wildcards
    <2>1. Len(Reverse(<<"/", "**">>)) = 2
        BY DEF Reverse
    <2>2. Len(Reverse(g)) = Len(g)
        BY <1>0 DEF Reverse
    <2>3. Len(g) >= 2
        BY <1>0, <2>1, <2>2 DEF IsPlainPrefix, IsSuffix, IsPrefix
    <2> QED
        BY <1>0, <2>3 DEF IsPlainPrefix
<1>2. u \in Seq(S) /\ Len(u) = m /\ \A i \in 1..m : u[i] = g[i]
    <2>1. \A i \in 1..m : g[i] \in S
        BY <1>0, <1>1, LenProperties
    <2> HIDE DEF S
    <2>2. /\ u \in Seq(S) /\ Len(u) = (IF 1 <= m THEN m - 1 + 1 ELSE 0)
          /\ \A i \in 1..(m - 1 + 1) : u[i] = g[1 + i - 1]
        <3> HIDE DEF m
        <3> QED
            BY <1>1, <2>1, SubSeqProperties
    <2> HIDE DEF u, m
    <2>3. m - 1 + 1 = m /\ (IF 1 <= m THEN m - 1 + 1 ELSE 0) = m
        BY <1>1
    <2>4. \A i \in 1..m : 1 + i - 1 = i
        BY <1>1
    <2> QED
        BY <2>2, <2>3, <2>4
<1>3. IsText(u)
    <2> HIDE DEF u
    <2>1. u \in [1..m -> Range(u)]
        BY <1>2, LenProperties DEF Range
    <2> QED
        BY <1>1, <2>1 DEF IsText
<1> HIDE DEF u, S
<1>4. IsPrefix(u, p) <=> m <= Len(p) /\ \A i \in 1..m : g[i] = p[i]
    BY <1>2, <1>3, PrefixIsFront
<1>5. ASSUME Reads(g, p) PROVE IsPrefix(u, p)
    <2>1. PICK cut \in [0..Len(g) -> 0..Len(p)] :
              /\ cut[0] = 0
              /\ \A i \in 1..Len(g) : /\ cut[i - 1] <= cut[i]
                                      /\ TakesPiece(g[i], SubSeq(p, cut[i - 1] + 1, cut[i]))
        BY <1>5 DEF Reads
    <2>2. m \in 0..Len(g)
        BY <1>0, <1>1
    <2> HIDE DEF m
    <2> QED
        BY <1>0, <1>1, <1>4, <2>1, <2>2, PlainFront
<1> QED
    BY <1>5 DEF u

\* What is read backwards is a text.
LEMMA ReverseIsText ==
    ASSUME NEW s, IsText(s)
    PROVE  /\ IsText(Reverse(s)) /\ Len(Reverse(s)) = Len(s)
           /\ \A i \in 1..Len(s) : Reverse(s)[i] = s[Len(s) - i + 1]
<1> DEFINE n == Len(s)
           r == [i \in 1..n |-> s[(n - i) + 1]]
<1>0. n \in Nat
    BY LenProperties DEF IsText
<1> HIDE DEF n
<1>1. r \in [1..n -> Range(r)] /\ \A i \in 1..n : r[i] = s[(n - i) + 1]
    BY DEF Range
<1> HIDE DEF r
<1>2. r \in Seq(Range(r)) /\ Len(r) = n
    BY <1>0, <1>1
<1>3. Reverse(s) = r
    BY DEF Reverse, r, n
<1> QED
    BY <1>0, <1>1, <1>2, <1>3 DEF IsText, n

\* A suffix is what is left behind some place.
LEMMA SuffixIsRest ==
    ASSUME NEW s, IsText(s), NEW t, IsText(t)
    PROVE  IsSuffix(s, t) <=> \E n \in 0..Len(t) : SubSeq(t, n + 1, Len(t)) = s
<1> DEFINE S == Range(s) \cup Range(t)
           ls == Len(s)
           lt == Len(t)
           Same == \A k \in 1..ls : s[k] = t[(lt - ls) + k]
<1>0. s \in Seq(Range(s)) /\ t \in Seq(Range(t)) /\ ls \in Nat /\ lt \in Nat
    BY LenProperties DEF IsText
<1>1. IsSuffix(s, t) <=>
          ls <= lt /\ \A i \in 1..ls : s[ls - i + 1] = t[lt - i + 1]
    <2>1. IsPrefix(Reverse(s), Reverse(t)) <=>
              ls <= lt /\ \A i \in 1..ls : Reverse(s)[i] = Reverse(t)[i]
        BY ReverseIsText, PrefixIsFront
    <2>2. \A i \in 1..ls : ls <= lt => i \in 1..lt
        BY <1>0
    <2>3. ls <= lt =>
              \A i \in 1..ls : /\ Reverse(s)[i] = s[ls - i + 1]
                               /\ Reverse(t)[i] = t[lt - i + 1]
        BY <2>2, ReverseIsText
    <2> QED
        BY <2>1, <2>3 DEF IsSuffix
<1>2. ASSUME ls <= lt
      PROVE  (\A i \in 1..ls : s[ls - i + 1] = t[lt - i + 1]) <=> Same
    <2>1. ASSUME NEW k \in 1..ls
          PROVE  /\ ls - k + 1 \in 1..ls /\ ls - (ls - k + 1) + 1 = k
                 /\ lt - (ls - k + 1) + 1 = (lt - ls) + k
                 /\ (lt - ls) + (ls - k + 1) = lt - k + 1
        BY <1>0
    <2>2. ASSUME \A i \in 1..ls : s[ls - i + 1] = t[lt - i + 1], NEW k \in 1..ls
          PROVE  s[k] = t[(lt - ls) + k]
        <3>1. s[ls - (ls - k + 1) + 1] = t[lt - (ls - k + 1) + 1]
            BY <2>1, <2>2
        <3> QED
            BY <2>1, <3>1
    <2>3. ASSUME Same, NEW i \in 1..ls PROVE s[ls - i + 1] = t[lt - i + 1]
        <3>1. s[ls - i + 1] = t[(lt - ls) + (ls - i + 1)]
            BY <2>1, <2>3
        <3> QED
            BY <2>1, <3>1
    <2> QED
        BY <2>2, <2>3
<1>3. ASSUME NEW n \in 0..lt
      PROVE  SubSeq(t, n + 1, lt) = s <=> ls <= lt /\ n = lt - ls /\ Same
    <2> DEFINE q == SubSeq(t, n + 1, lt)
    <2>1. q \in Seq(S) /\ Len(q) = lt - n /\ \A k \in 1..(lt - n) : q[k] = t[n + k]
        <3>1. \A k \in (n + 1)..lt : t[k] \in S
            BY <1>0, LenProperties
        <3>2. n + 1 \in Int /\ lt \in Int
            BY <1>0
        <3> HIDE DEF S, lt
        <3>3. /\ q \in Seq(S) /\ Len(q) = (IF n + 1 <= lt THEN lt - (n + 1) + 1 ELSE 0)
              /\ \A k \in 1..(lt - (n + 1) + 1) : q[k] = t[(n + 1) + k - 1]
            BY <3>1, <3>2, SubSeqProperties
        <3>4. /\ (IF n + 1 <= lt THEN lt - (n + 1) + 1 ELSE 0) = lt - n
              /\ lt - (n + 1) + 1 = lt - n
              /\ \A k \in 1..(lt - n) : (n + 1) + k - 1 = n + k
            BY <1>0
        <3> HIDE DEF q
        <3> QED
            BY <3>3, <3>4
    <2> HIDE DEF q
    <2>2. ASSUME q = s PROVE ls <= lt /\ n = lt - ls /\ Same
        <3>1. lt - n = ls
            BY <2>1, <2>2
        <3>2. ls <= lt /\ n = lt - ls
            BY <1>0, <3>1
        <3> QED
            BY <2>1, <2>2, <3>1, <3>2
    <2>3. ASSUME ls <= lt, n = lt - ls, Same PROVE q = s
        <3>1. lt - n = ls
            BY <1>0, <2>3
        <3>2. Len(q) = Len(s) /\ \A k \in 1..Len(q) : q[k] = s[k]
            BY <2>1, <2>3, <3>1
        <3>3. s \in Seq(S)
            BY <1>0, SeqMonotonic
        <3> HIDE DEF S
        <3> QED
            BY <2>1, <3>2, <3>3, SeqEqual
    <2> QED
        BY <2>2, <2>3 DEF q
<1>4. ls <= lt => lt - ls \in 0..lt
    BY <1>0
<1> HIDE DEF Same, S, ls, lt
<1>5. (\E n \in 0..lt : SubSeq(t, n + 1, lt) = s) <=> ls <= lt /\ Same
    BY <1>3, <1>4
<1> QED
    BY <1>1, <1>2, <1>5 DEF lt

\* The host of a request is taken exactly if the pattern stands for it.
LEMMA HostIsRead ==
    ASSUME NEW m, IsMatch(m), NEW host, IsText(host)
    PROVE  HostMatches(HostMatch(m), host) <=> HostFits(m, host)
<1> DEFINE rest == \E n \in 0..Len(host) : SubSeq(host, n + 1, Len(host)) = Tail(m.host)
<1>1. CASE "host_regex" \in DOMAIN m
    BY <1>1 DEF HostMatch, HostMatches, HostFits
<1>2. CASE "host_regex" \notin DOMAIN m /\ "host" \notin DOMAIN m
    BY <1>2 DEF HostMatch, HostMatches, HostFits
<1>3. CASE "host_regex" \notin DOMAIN m /\ "host" \in DOMAIN m
    <2> DEFINE g == m.host
    <2>0. IsText(g) /\ g # <<>> /\ g \in Seq(Range(g)) /\ Len(host) \in Nat
        BY <1>3, LenProperties DEF IsMatch, IsText
    <2>1. IsText(Tail(g)) /\ Tail(g) = SubSeq(g, 2, Len(g))
        <3>1. Tail(g) \in Seq(Range(g)) /\ Len(Tail(g)) \in Nat
            BY <2>0, HeadTailProperties, LenProperties
        <3> DEFINE t == Tail(g)
        <3> HIDE DEF g, t
        <3>2. t \in [1..Len(t) -> Range(t)]
            BY <3>1, LenProperties DEF Range, t
        <3>3. t \in Seq(Range(t))
            <4>1. Len(t) \in Nat
                BY <3>1 DEF t
            <4> QED
                BY <3>2, <4>1
        <3> QED
            BY <2>0, <3>3, TailIsSubSeq DEF IsText, t
    <2>2. rest <=> IsSuffix(Tail(g), host)
        BY <2>1, SuffixIsRest
    <2>3. CASE g = <<"*">>
        <3>1. Head(g) = "*" /\ Tail(g) = <<>>
            BY <2>3
        <3>2. SubSeq(host, Len(host) + 1, Len(host)) = <<>>
            BY <2>0, SubSeqEmpty
        <3>3. rest
            <4>1. Len(host) \in 0..Len(host)
                BY <2>0
            <4>2. SubSeq(host, Len(host) + 1, Len(host)) = Tail(g)
                BY <3>1, <3>2
            <4> QED
                BY <4>1, <4>2
        <3> QED
            BY <1>3, <2>3, <3>1, <3>3 DEF HostMatch, HostMatches, HostFits
    <2>4. CASE g # <<"*">> /\ Head(g) = "*"
        <3>1. HostMatches(HostMatch(m), host) <=> IsSuffix(Tail(g), host)
            BY <1>3, <2>4 DEF HostMatch, HostMatches
        <3>2. host = g => rest
            <4> SUFFICES ASSUME host = g PROVE rest
                OBVIOUS
            <4>1. Len(g) >= 1 /\ Len(g) \in Nat
                BY <2>0, LenProperties, EmptySeq
            <4>2. SubSeq(host, 1 + 1, Len(host)) = Tail(g)
                BY <2>1
            <4> QED
                BY <4>1, <4>2
        <3> QED
            BY <1>3, <2>2, <2>4, <3>1, <3>2 DEF HostFits
    <2>5. CASE g # <<"*">> /\ Head(g) # "*"
        BY <1>3, <2>5 DEF HostMatch, HostMatches, HostFits
    <2> QED
        BY <2>3, <2>4, <2>5
<1> QED
    BY <1>1, <1>2, <1>3

\* The path of a request is taken exactly if the pattern stands for it or a short
\* cut takes it.
LEMMA PathIsRead ==
    ASSUME NEW m, IsMatch(m), NEW path, IsText(path)
    PROVE  PathMatches(PathMatch(m), path) <=> PathFits(m, path) \/ PathShortCut(m, path)
<1>1. CASE "path_regex" \in DOMAIN m
    BY <1>1 DEF PathMatch, PathMatches, PathFits, PathShortCut
<1>2. CASE "path_regex" \notin DOMAIN m /\ "path" \notin DOMAIN m
    BY <1>2 DEF PathMatch, PathMatches, PathFits
<1>3. CASE "path_regex" \notin DOMAIN m /\ "path" \in DOMAIN m
    <2> DEFINE g == m.path
               u == SubSeq(g, 1, Len(g) - 2)
    <2>0. IsText(g) /\ Len(g) \in Nat /\ Len(path) \in Nat /\ g \in Seq(Range(g))
        BY <1>3, LenProperties DEF IsMatch, IsText
    <2>1. CASE g = <<"*">>
        BY <1>3, <2>1 DEF PathMatch, PathMatches, PathShortCut
    <2>2. CASE g = <<"/", "**">>
        <3>1. Len(g) = 2 /\ u = <<>>
            BY <2>2, SubSeqEmpty
        <3>2. IsPlainPrefix(g)
            <4>1. IsPrefix(Reverse(g), Reverse(g))
                BY <2>0, ReverseIsText, PrefixIsFront
            <4>2. Len(g) - 2 = 0
                BY <3>1
            <4> QED
                BY <2>2, <4>1, <4>2 DEF IsPlainPrefix, IsSuffix
        <3>3. IsPrefix(u, path)
            <4>1. Len(u) = 0 /\ SubSeq(u, 1, 0) = <<>> /\ SubSeq(path, 1, 0) = <<>>
                BY <3>1, SubSeqEmpty
            <4>2. 0 <= Len(path)
                BY <2>0
            <4> HIDE DEF u
            <4> QED
                BY <4>1, <4>2 DEF IsPrefix
        <3>4. PathShortCut(m, path)
            BY <1>3, <3>2, <3>3 DEF PathShortCut
        <3> QED
            BY <1>3, <2>2, <3>4 DEF PathMatch, PathMatches
    <2>3. CASE g \notin {<<"*">>, <<"/", "**">>} /\ IsPlainPrefix(g)
        <3>1. PathMatches(PathMatch(m), path) <=> IsPrefix(u, path)
            BY <1>3, <2>3 DEF PathMatch, PathMatches
        <3>2. Reads(g, path) => IsPrefix(u, path)
            BY <2>0, <2>3, PrefixIsRead
        <3>3. PathFits(m, path) <=> Reads(g, path)
            BY <1>3 DEF PathFits
        <3>4. PathShortCut(m, path) <=> IsPrefix(u, path)
            BY <1>3, <2>3 DEF PathShortCut
        <3> QED
            BY <3>1, <3>2, <3>3, <3>4
    <2>4. CASE g \notin {<<"*">>, <<"/", "**">>} /\ ~IsPlainPrefix(g)
        <3>1. PathMatches(PathMatch(m), path) <=> GlobMatches(g, path)
            BY <1>3, <2>4 DEF PathMatch, PathMatches
        <3>2. GlobMatches(g, path) <=> Reads(g, path)
            BY <2>0, GlobIsRead
        <3>3. PathFits(m, path) <=> Reads(g, path)
            BY <1>3 DEF PathFits
        <3>4. ~PathShortCut(m, path)
            BY <2>4 DEF PathShortCut
        <3> QED
            BY <3>1, <3>2, <3>3, <3>4
    <2> QED
        BY <2>1, <2>2, <2>3, <2>4
<1> QED
    BY <1>1, <1>2, <1>3

\* What the parsed table accepts is what fits the table as it is written, and the
\* paths of the short cuts: matches_static with parse_matcher, for any table and
\* request.
LEMMA MatchIsRead ==
    ASSUME NEW m, IsMatch(m), NEW x, IsText(x.host), IsText(x.path)
    PROVE  MatchesStatic(ParseMatcher(m), x) <=> Fits(m, x) \/ PassesByShortCut(m, x)
<1> DEFINE methods == IF "methods" \in DOMAIN m THEN m.methods ELSE {}
           host == HostMatches(HostMatch(m), x.host)
           path == PathMatches(PathMatch(m), x.path)
<1>1. /\ ParseMatcher(m).host = HostMatch(m) /\ ParseMatcher(m).path = PathMatch(m)
      /\ ParseMatcher(m).methods = methods
    BY DEF ParseMatcher
<1>2. MatchesStatic(ParseMatcher(m), x) <=>
          host /\ path /\ (methods # {} => x.method \in methods)
    BY <1>1 DEF MatchesStatic
<1>3. (methods # {} => x.method \in methods) <=> MethodFits(m, x.method)
    BY DEF MethodFits
<1>4. host <=> HostFits(m, x.host)
    BY HostIsRead
<1>5. path <=> PathFits(m, x.path) \/ PathShortCut(m, x.path)
    BY PathIsRead
<1> HIDE DEF host, path, methods
<1> QED
    BY <1>2, <1>3, <1>4, <1>5 DEF Fits, PassesByShortCut

-----------------------------------------------------------------------------
(* The settings of a route.                                                *)

LEMMA NumberIsNatural ==
    ASSUME NEW t, NEW k, k \in DOMAIN t => t[k] \in Int, NEW default \in Int
    PROVE  Number(t, k, default) \in Nat
BY DEF Number, Get

\* Settings that Dispatch and Plan can work with.
Workable(s) ==
    /\ s.max_attempts \in Nat \ {0}
    /\ s.hedge.max_parallel \in Nat \ {0} /\ s.hedge.delay_ms \in Nat
    /\ s.selector \in SelectorNames

\* A table takes settings that work to such; a list it has replaces the other.
LEMMA SettingsWork ==
    ASSUME NEW t, HasNumbers(t), NEW d, Workable(d)
    PROVE  /\ Workable(Settings(t, d))
           /\ \A k \in {"prefer_tags", "exclude_tags"} :
                 Settings(t, d)[k] = Get(t, k, d[k])
<1> DEFINE s == Settings(t, d)
<1>1. s.max_attempts \in Nat \ {0}
    <2>1. "max_attempts" \in DOMAIN t => t["max_attempts"] \in Int
        BY DEF HasNumbers
    <2>2. Number(t, "max_attempts", d.max_attempts) \in Nat
        BY <2>1, NumberIsNatural DEF Workable
    <2>3. s.max_attempts = AtLeastOne(Number(t, "max_attempts", d.max_attempts))
        BY DEF Settings
    <2> QED
        BY <2>2, <2>3 DEF AtLeastOne
<1>2. s.hedge.max_parallel \in Nat \ {0} /\ s.hedge.delay_ms \in Nat
    <2>1. s.hedge = Hedge(t, d.hedge)
        BY DEF Settings
    <2>2. CASE "hedge" \notin DOMAIN t
        BY <2>1, <2>2 DEF Hedge, Workable
    <2>3. CASE "hedge" \in DOMAIN t
        <3> DEFINE h == t.hedge
        <3>1. \A k \in {"max_parallel", "delay_ms"} : k \in DOMAIN h => h[k] \in Int
            BY <2>3 DEF HasNumbers
        <3> HIDE DEF h
        <3>2. /\ Number(h, "max_parallel", d.hedge.max_parallel) \in Nat
              /\ Number(h, "delay_ms", d.hedge.delay_ms) \in Nat
            BY <3>1, NumberIsNatural DEF Workable
        <3>3. s.hedge = [max_parallel |->
                             AtLeastOne(Number(h, "max_parallel", d.hedge.max_parallel)),
                         delay_ms |-> Number(h, "delay_ms", d.hedge.delay_ms)]
            BY <2>1, <2>3 DEF Hedge, h
        <3>4. /\ s.hedge.max_parallel
                     = AtLeastOne(Number(h, "max_parallel", d.hedge.max_parallel))
              /\ s.hedge.delay_ms = Number(h, "delay_ms", d.hedge.delay_ms)
            BY <3>3
        <3> QED
            BY <3>2, <3>4 DEF AtLeastOne
    <2> QED
        BY <2>2, <2>3
<1>3. s.selector \in SelectorNames
    <2>1. s.selector = Selector(t, d.selector)
        BY DEF Settings
    <2>2. CASE Get(t, "selector", "") \in SelectorNames
        <3>1. "selector" \in DOMAIN t
            BY <2>2 DEF Get, SelectorNames
        <3> QED
            BY <2>1, <2>2, <3>1 DEF Selector, Get
    <2>3. CASE Get(t, "selector", "") \notin SelectorNames
        BY <2>1, <2>3 DEF Selector, Workable
    <2> QED
        BY <2>2, <2>3
<1>4. /\ s.prefer_tags = Get(t, "prefer_tags", d.prefer_tags)
      /\ s.exclude_tags = Get(t, "exclude_tags", d.exclude_tags)
    BY DEF Settings
<1> HIDE DEF s
<1>5. Workable(s)
    BY <1>1, <1>2, <1>3 DEF Workable
<1> QED
    BY <1>4, <1>5 DEF s

\* A route of a configuration is what its table says, on top of the defaults.
LEMMA RouteIsRead ==
    ASSUME NEW c \in DOMAIN Config, NEW i \in DOMAIN Config[c]
    PROVE  /\ \A x \in Target : i \in Static[c][x] <=>
                 LET m == c.routes[i].match IN Fits(m, x) \/ PassesByShortCut(m, x)
           /\ Workable(Config[c][i].settings)
           /\ \A k \in {"prefer_tags", "exclude_tags"} : Config[c][i].settings[k] =
                 Get(c.routes[i], k, Get(Get(c, "defaults", NoKeys), k, {}))
<1> DEFINE t == c.routes[i]
           d == Get(c, "defaults", NoKeys)
           Taken(m, x) == Fits(m, x) \/ PassesByShortCut(m, x)
<1>1. c \in Tables /\ IsConfig(c) /\ i \in DOMAIN c.routes
    BY Configured
<1>2. HasNumbers(d) /\ HasNumbers(t) /\ IsMatch(t.match)
    BY <1>1, TablesAssumption
<1>3. /\ Config[c][i].matcher = ParseMatcher(t.match)
      /\ Config[c][i].settings = Settings(t, Defaults(c))
    <2>1. Config[c][i] = ParseRoute(t, i, Defaults(c))
        BY <1>1 DEF Config, ParseRouterConfig
    <2> HIDE DEF t
    <2> QED
        BY <2>1 DEF ParseRoute
<1>4. \A x \in Target : i \in Static[c][x] <=> Taken(t.match, x)
    <2> SUFFICES ASSUME NEW x \in Target
                 PROVE  i \in Static[c][x] <=> Taken(t.match, x)
        OBVIOUS
    <2>1. i \in Static[c][x] <=> MatchesStatic(ParseMatcher(t.match), x)
        BY <1>3 DEF Static, Candidates
    <2>2. IsText(x.host) /\ IsText(x.path)
        BY TablesAssumption
    <2> HIDE DEF t
    <2> QED
        BY <1>2, <2>1, <2>2, MatchIsRead
<1>5. Workable(Literals) /\ Literals.prefer_tags = {} /\ Literals.exclude_tags = {}
    BY DEF Workable, Literals, SelectorNames
<1> HIDE DEF t, d
<1>6. /\ Workable(Defaults(c))
      /\ \A k \in {"prefer_tags", "exclude_tags"} : Defaults(c)[k] = Get(d, k, {})
    <2>1. Defaults(c) = Settings(d, Literals)
        BY DEF Defaults, d
    <2>2. /\ Workable(Settings(d, Literals))
          /\ \A k \in {"prefer_tags", "exclude_tags"} :
                Settings(d, Literals)[k] = Get(d, k, Literals[k])
        BY <1>2, <1>5, SettingsWork
    <2> QED
        BY <1>5, <2>1, <2>2
<1>7. /\ Workable(Settings(t, Defaults(c)))
      /\ \A k \in {"prefer_tags", "exclude_tags"} :
            Settings(t, Defaults(c))[k] = Get(t, k, Defaults(c)[k])
    BY <1>2, <1>6, SettingsWork
<1> QED
    BY <1>3, <1>4, <1>6, <1>7 DEF t, d

-----------------------------------------------------------------------------
\* The invariant that the others follow from holds of every reachable state.
THEOREM Inductive == Spec => []IInv
<1>1. IInv /\ [Next]_vars => IInv'
    BY StepType, StepOneTask, StepWalked DEF IInv
<1> QED
    BY InitIInv, <1>1, PTL DEF Spec

\* The types, among them that a request has a route of the configuration it has
\* loaded, however many reloads ago.
THEOREM TypeCorrect == Spec => []TypeOK
<1>1. IInv => TypeOK
    BY DEF IInv
<1> QED
    BY <1>1, Inductive, PTL

\* No two tasks are in one Lua state at a time, for any number of VMs, tasks and
\* generations, although pick (lua/mod.rs) lets go of the VM it found free.
THEOREM VmsAreExclusive == Spec => []OneTaskPerVm
<1>1. IInv => OneTaskPerVm
    BY DEF IInv
<1> QED
    BY <1>1, Inductive, PTL

\* select_route chooses the first route that fits by the configuration the request
\* has loaded, whatever is stored while it asks the predicates.
THEOREM FirstFittingRoute == Spec => []FirstMatchWins
<1>1. IInv => FirstMatchWins
    <2> SUFFICES ASSUME IInv, NEW t \in Task, pc[t] = "run", ~misled[t]
                 PROVE  /\ route[t] \in Fitting(loads[cfg[t]], target[t])
                        /\ \A i \in Fitting(loads[cfg[t]], target[t]) : route[t] <= i
        BY DEF FirstMatchWins, Fitting
    <2> QED
        BY DEF IInv, Walked
<1> QED
    BY <1>1, Inductive, PTL

\* Whatever table is in use and however it came to be, a route takes the requests
\* that its patterns stand for, and beyond them only the paths that the two short
\* cuts of parse_matcher take: the globs and suffixes of parse_matcher and
\* matches_static for patterns and requests of any length, and the settings of
\* parse_defaults and parse_route for any numbers.
THEOREM RoutesReadRight == Spec => []RoutesAreRead
<1>1. TypeOK => RoutesAreRead
    <2> SUFFICES ASSUME TypeOK PROVE RoutesAreRead
        OBVIOUS
    <2> DEFINE c == loads[config]
    <2>1. c \in DOMAIN Config
        BY DEF TypeOK
    <2> HIDE DEF c
    <2>2. ASSUME NEW i \in DOMAIN Config[c]
          PROVE  LET r == Config[c][i]
                     m == c.routes[i].match
                     lists == {"prefer_tags", "exclude_tags"} IN
                 /\ \A x \in Target : i \in Static[c][x] <=> Fits(m, x) \/ PassesByShortCut(m, x)
                 /\ r.settings.max_attempts >= 1 /\ r.settings.hedge.max_parallel >= 1
                 /\ r.settings.selector \in SelectorNames
                 /\ \A k \in lists : r.settings[k] =
                       Get(c.routes[i], k, Get(Get(c, "defaults", NoKeys), k, {}))
        <3> DEFINE s == Config[c][i].settings
        <3>1. Workable(s)
            BY <2>1, RouteIsRead
        <3> HIDE DEF s
        <3>2. s.max_attempts >= 1 /\ s.hedge.max_parallel >= 1 /\ s.selector \in SelectorNames
            BY <3>1 DEF Workable
        <3> QED
            BY <2>1, <3>2, RouteIsRead DEF s
    <2> QED
        BY <2>2 DEF RoutesAreRead, c
<1> QED
    BY <1>1, TypeCorrect, PTL
=============================================================================
