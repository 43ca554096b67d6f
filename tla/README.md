# Proxy-Systems: a TLA+ development

This directory specifies, model-checks and partly proves the stateful core of
Proxy-Systems, a set of Rust HTTP proxies. The code is the reference: every definition
listed under `map` in `PROJECT.json` names the lines it stands for.

Contents: [the system](#1-the-system), [modules](#2-modules), [runs](#3-runs),
[fairness](#4-fairness), [divergences](#5-where-the-code-and-its-documents-differ),
[proofs](#6-proofs), [what is not modelled](#7-what-is-not-modelled),
[plan](#8-plan), [how to run it](#9-running).

## 1. The system

Four programs share a small library (`proxy-common`).

* **intermediate-proxy** forwards a client's request through one of many upstream
  proxies. Routes are Lua tables; hooks judge every response.
* **tor-proxy** sends requests through a pool of Tor nodes and changes their circuits.
* **simple-ipv6-proxy** sends each request from a random address of an IPv6 subnet.
* **simple-proxy** forwards one request directly.

### Components

**Proxy list** (`proxy/mod.rs`, `loader.rs`, `watcher.rs`). State: an `ArcSwap` with the list
of entries; an entry keeps its tags, a global `transport_fatal` flag and one `RouteState` per
route. Operations: parse the file, reload it (keeping live entries and giving them their new
tags), watch its mtime. Hard: requests plan while a reload replaces tags one entry at a time,
and a reload may not come to its end; the watcher races the writer. Correct when no live
entry loses its health and the last version of the file is in the end the one in use. A url
that is none ends the whole process, at the start and in the middle of a reload.

**Route health** (`proxy/entry.rs`). State per (route, proxy): `banned_until_ms`,
`consecutive_failures`, `consecutive_successes`, `avg_latency_ms`, all separate relaxed
atomics. Operations: `record_success`, `record_failure`, `ban_for`, `clear_ban`,
`observe_*`. Hard: none of them is atomic and all run on a multi-threaded runtime.
Correct when the average stays within what was measured, only slow answers make a proxy
slow, and no ban outlives the longest one asked for.

**Attempt plan** (`route/state.rs`). State: the round-robin cursor of the route.
Operations: `build_plan` (tags, tier, latency, selector, reserve, prefer,
`max_attempts`), `fallback_pool`. Hard: three stable sorts, a rotation and a cut in a
certain order over a list that changes between requests. Correct when no proxy is lost
or planned twice, better tiers and non-reserve proxies come first, round robin is fair,
and plan and fallback pool together are the eligible proxies.

**Dispatch** (`dispatch/mod.rs`). State per request: plan, tried urls, buffered
failures, hard rounds. Operations: `dispatch_sequential`, `dispatch_hedged`,
`try_proxy` with every verdict, `on_exhausted` rounds, the last resort. Interacts with
health (records), plan (reads), hooks (verdicts). Hard: hedged attempts run in parallel
and are dropped at any await when one wins; rounds repeat while health changes. Correct
when the parallelism and the number of attempts are bounded, the route's policy is
asked only after every candidate, a dropped attempt records nothing, and every request is
answered unless an upstream holds a body back.

**Probers** (`route/prober.rs`). State: two semaphores, `last_probe_ms` per pair.
Operations: the walk of the route prober over all pairs each second, the walk of the
transport prober over fatal proxies, probe tasks. Hard: walks use a clock and tiers read
before the wait for a permit; probes overlap with requests. Correct when no permit is
lost, no walk stops for ever, and a proxy that answers again is restored.

**Stream recovery** (`stream.rs`). State per response: bytes delivered, proxies tried, a
bounded channel to the client. Operations: pipe a chunk; on an error ask the next proxy
for the rest, skip what was delivered when it sends the whole. Hard: a break at any byte,
also while recovering; chunk boundaries; the client leaving. Correct when the client
gets the bytes in order without gap or repetition, and the task ends or waits for an
upstream or for the client.

**Lua** (`lua/mod.rs`, `lua/api.rs`). State: two `ArcSwap`s, the configuration and the
VMs; a round-robin counter; a lock per VM. Operations: `pick` a VM, lock it and call a
hook, reload. Hard: the two stores of a reload, with requests between and across them;
`pick` unlocks the VM it has found. Correct when a VM runs one hook at a time, every call
comes back, a reload is in the end complete, and a request is given the route its
configuration says.

**Route matching and configuration** (`route/config.rs`, `matcher.rs`, `mod.rs`). Pure: the
table of `routes.lua` becomes routes, with defaults, casts and clamps; a request gets the
first one whose method, host and path patterns match and whose predicate is true. Correct
when a pattern accepts what it says and every route is one dispatch can work with.

**DNS check** (`dns.rs`). State: a table of found and missing hosts with expiry. Operation:
`missing`, with a lookup between reading and writing the table. Hard: lookups of one host
race, finish in any order and long after the host has changed. Correct when no request is
refused for a host that has long been back, none passed for one long gone, and the table is
bounded.

**Upstream clients** (`forward.rs`, `upstream/*`) and **front** (`handler.rs`,
`health.rs`, `main.rs`, `tls.rs`, `util.rs`). I/O around reqwest and hyper.

**Tor pool** (`tor-proxy/src/pool.rs`, `handler.rs`, `control.rs`). State under one
lock: per node errors in a row, `last_newnym`, `cooldown_until`; a round-robin index.
Operations: order the nodes for a request, count its errors and successes, rotate a node
(control port), rotate every node on schedule. Hard: the lock is released while the
control port answers; requests are dropped when the client leaves; the number of usable
nodes changes under the index; some waits have a timeout and some have none. Correct when
every usable node is asked before a request is refused, a node is kept out only after a
rotation, rotations keep their distance, and nothing hangs where a timeout is meant.

**Tor tunnel** (`tunnel.rs`, `socks5.rs`). The connection through a node: SOCKS5 handshake,
then the request. Hard: how much of the node's answer is read depends on its address type.
Correct when the tunnel begins behind the answer.

**IPv6 requests** (`simple-ipv6-proxy/src/handler.rs`). State of a request: the addresses of
the target, the attempt. Operations: resolve, read the body, send from a random address,
retry. **Subnet** (`subnet.rs`). Pure: clear the host part of a prefix, draw an address.
Correct when exactly the addresses of the subnet can be drawn, the addresses of the target
take turns and no good answer is dropped for a retry.

**IPv6 services** (`neighbor.rs`, …), **simple-proxy**, **proxy-common**: packets, headers
and I/O.

### Interactions

```
   client --> handler --> dispatch --(plan)--> route/state --> proxy list, route health
                           |   ^                                  ^   ^   ^
              hooks (Lua) -+   |                                  |   |   |
                           v   +-- records results ---------------+   |   |
                         stream (recovery) ---- records results ------+   |
                         probers (two tasks) -- clear bans and flags -----+
```

Route health is the state everything shares. All else of a request is local to its task.

## 2. Modules

| module | models | abstractions |
|---|---|---|
| `Health` | tiers, EWMA, ban expiry (pure) | milliseconds are small numbers |
| `RouteHealth` | the atomic accesses of every operation on one pair, interleaved | counters that are only reported are left out |
| `Plan` | `build_plan`, `order`, `fallback_pool` as operators | a stable sort is described by its result |
| `Selection` | one route planning request after request in a changing world | standing of a proxy = a tier and a latency |
| `Dispatch` | one request: both dispatchers, all verdicts, rounds, last resort | health of the one route, reduced to banned / fatal / failures; bodies by status |
| `FileWatcher` | the task that polls a file's mtime, beside the script that rewrites the file | mtimes are numbers, one per write |
| `ProxyPool` | parsing, loading and reload of the proxy list, the end of the process over a bad url; instantiates `FileWatcher` | a line is a url (or none) and a set of tags |
| `Probers` | both background loops, semaphores and probe tasks | a health operation is one step (its interleaving is in `RouteHealth`) |
| `ClientBody` | the promise of a streamed body (abstract specification) | |
| `StreamRecovery` | the piping and recovery task, its channel and its client, reloads of the pool; implements `ClientBody` | bytes are numbers; a proxy is its url |
| `Matcher` | static matching of host, path and method (pure), and what patterns mean (reference) | a host is a list of labels, a path one of characters; a regular expression is the set of texts it matches |
| `RouteConfig` | parsing of the table `routes.lua` returns (pure); extends `Matcher` | a Lua table is a record; names, urls, headers left out |
| `LuaPool` | loads of `routes.lua`, the choice of a route, `pick`, locks and calls; extends `RouteConfig`, instantiates `FileWatcher` | a predicate answers or fails; a hook is a call that returns or is interrupted |
| `DnsCheck` | `missing`, by any number of requests, beside hosts that come and go | a clock of small numbers |
| `Subnet` | prefixes and random addresses (pure) | number of bytes and of bits are parameters |
| `Ipv6Attempts` | one request of simple-ipv6-proxy; extends `Subnet` | an outcome is a status to retry, another one, or an error |
| `Socks5` | how much of a SOCKS5 answer is read (pure) | an answer is the type of its address and a length |
| `TorPool` | nodes, requests with their tunnels, and schedulers of tor-proxy; extends `Socks5` | node and control port answer, fail or stay silent |
| `SelectionProofs`, `DispatchProofs`, `ProxyPoolProofs`, `StreamProofs`, `LuaPoolProofs`, `DnsCheckProofs`; `HealthProofs` (of `RouteHealth` and `Probers`), `EgressProofs` (of `TorPool`, `Subnet` and `Ipv6Attempts`) | theorems (section 6) | |
| `MC*` | constants of the runs; `MCHealthPlans` and `MCEgress` check two modules each (section 3) | |

How state and actions correspond to the code:

**RouteHealth.** `bannedUntil`, `fails`, `succs`, `avg`, `transportFatal` are the atomics. An operation
gives its task a program `todo`, the list of loads and stores of the Rust function in
their order; `Step` executes one. `newAvg` and `newUntil` are the locals between a load
and its store (`blend_latency`, `ban_for`). So every interleaving of any number of
operations is a behaviour. `seen` and `samples` are histories for the properties: which kinds of
result there have been, and which latencies were blended in. The specification
is called `PairSpec`, and that of `Ipv6Attempts` `AttemptsSpec`, because a proof module extends
each of them together with another one.

**Plan / Selection.** `BuildPlans` is `build_plan` line by line: filter by tags and tier,
order by selector, reserve behind, preferred in front, truncate. The operators return
*sets* of plans because `random` has many results. `Selection` calls them with the
cursor; `Observe` and `SetTags` are everything that changes a proxy in between.

**Dispatch.** `pc` is where `run` stands; `phase[p]` is the await at which the attempt on `p`
stands (sending, capturing the body, the delay of `retry_same_proxy`, buffering a failed
body). The verdict actions are the match arms of `try_proxy`. `AttemptFailed` and `AttemptOk`
are how both dispatchers react. `Elsewhere` changes any proxy's health at any moment, as
other requests and probers do. `ClientGone` is the disconnect of the client, which drops the
request at whatever await it stands; `Over` is an answer or that.

**FileWatcher / ProxyPool.** `watch` is where `run_proxy_watcher` stands: before its first
`metadata`, asleep, between `metadata` and `read_to_string`, or with a content to apply.
`Write` may come between any two of these, and writes what it likes, a truncated file
included. An entry is a place in `heap`, as an `Arc<Entry>` is an address; `list` and
`byUrl` are the two `ArcSwap`s. `ReloadItem`, `ReloadList` and `ReloadMap` are the stores
of `reload` in their order (`set_tags` per entry, the list, the map), so every invariant
says what a request may see between them. `ReloadAborts` is `parse_upstream` at a socks5 or
forward url that reqwest does not take: the panic is the end of the process, as the release
profile says `panic = "abort"`. `Parsed` is the list `parse_proxies` returns, stated by what
is in it (the first lines of each url, in their order, with all tags of the url) instead of
line by line; it is a set with one member, so that the proofs need no induction over files.
Two writes never leave the same mtime.

**Probers.** `routeWalk` and `tickNow` are what the walk read at its tick; `routeWants` is
the pair that waits for a permit, and `spent` counts the probes launched for a pair.
`ClockTick` is not enabled while the route prober could go on, because a walk that waits for
nothing takes far less than a unit of the clock; it is enabled while the prober waits for a
permit, which is where stale reads come from. The sleep of the transport prober is not tied
to the clock: it may tick at any time.

**StreamRecovery.** `pc` is the await: `read`, `ask`, `skip`; `look` is the loop over the
snapshot (`list`, taken from `live` when the stream breaks), one proxy per step so that
health can change in between. `Reload` replaces `live` by another list of `Pools`. `Send` is
`tx.send(...).await` with its wait for room and its failure when the client is gone.

**Matcher / RouteConfig.** One operator per parsing or matching function; `Get` is a lookup
that counts a value of the wrong type as absent, `Number` the cast of a Lua number. `Fits`
(`HostFits`, `PathFits`, `MethodFits`) says what the patterns of a route mean, a glob being
anchored at both ends as `matcher.rs` documents it, and is the reference for `MatchesStatic`.
`PathShortCut` names what the two short cuts of `parse_matcher` take; it is no part of `Fits`,
and a request that is accepted by it alone is one that `PassesByShortCut`.

**LuaPool.** A *generation* is a successful load: the configuration in use is generation
`config`, the VMs are of generation `vms`, and `loads` says which table each generation
holds. `ReloadConfig` and `ReloadVms` are the two stores of `reload`. A request loads the
configuration once (`Arrive`) and keeps it (`cfg`); `route` is the candidate whose predicate
`select_route` is about to ask, or the route it has chosen. Every call of a hook loads the
VMs anew (`Pick`), scans them (`Scan` is one `try_lock`), waits (`Lock`) and calls (`Return`
ends it, perhaps because the instruction budget ran out). The instant for which another
`pick` holds the lock it tries is left out.

**DnsCheck.** `Ask` reads the clock and the table, `Lookup` is the moment at which the
resolver's answer is true, `MakeRoom` and `Insert` are the two accesses to the `DashMap`
afterwards. Any time may pass between them. The cache inside the resolver library is left
out: with it, answers may be older than the properties say by the lifetime of the record.

**Ipv6Attempts.** `CheckTarget` is the front of `proxy_handler`; `Resolve`, `ReadBody`, `Send`
and `Ends` are its awaits. `ClientLeaves` drops the request at any of them.

**TorPool.** `step` is the await of a request or a scheduler (`Actor`). A request goes through
a tunnel (`connect`, `handshake`, `head`, `body`); `eaten` counts how far its handshake has
read into the tunnel. A rotation is `check` (the cooldown is read under the lock), `dial` and
`auth` at the control port, and `signalled` (the NEWNYM is out, its answer is not in);
`Rotated` is the write lock after the answer. `Dropped` is a request cancelled at any await.
`signal`, `open` and `alone` are histories: when a node last took a NEWNYM, whether that is
unconfirmed, and whether a rotation began with none unconfirmed.

Each module carries, next to an operation, the **mutant** definitions (marked "Mutant of")
that `PROJECT.json` lists: plausible bugs each of which one property detects. They are
not part of any specification.

## 3. Runs

`lua_pool` and `dns_check` check for deadlocks. The other runs set `CHECK_DEADLOCK FALSE`:
requests end, clocks and event counts are bounded, so a behaviour may stop. Where something
must go on, properties say so.

| run | states | properties and what they show |
|---|---|---|
| `health_and_plans` | 1.9 M | `RouteHealth`: two tasks, three operations. `AvgWithinSamples`: with lost and late updates of the EWMA too, the average lies between two samples that were blended in. `SlowNeedsEvidence`: a measured average passes `slow_ms` only through a slow answer (the penalty sample `slow_ms + 1` rounds away). `BanWithinHorizon`: no late store makes a ban longer. `Selection`: `PlanIsFull`, `BetterTierFirst`, `ReserveAfterAllOthers`, `RoundRobinIsFair`, `FallbackIsTheRest` for seven routes, every selector among them. |
| `dispatch` | 1.5 M | `ParallelWithinLimit`, `AttemptBudget`, `ExhaustedMeansTried`, `RecordsOnlyWhileRunning`: an attempt that lost, or whose client left, records nothing. `OnlyBodiesHoldTheAnswer`: a request that is never answered waits for the bodies of upstreams, and for as many as it may. |
| `probers` | 227 k | `PermitsAreConserved`, `RouteWalkEnds`, `ReachableIsRestored`; `ProbesFollowTheInterval`: stale stamps bring two probes close together but no more probes over time. |
| `proxy_pool` | 5.3 k | `OneEntryPerUrl`: at every moment list and map agree on the entry of a url. `TagsOldOrNew`: during a reload, and in one that ends the process, a proxy has its old or its new tags. `StatsAreKept`: an entry lives as long as its url; `FileIsApplied`: the last version of the file is in the end in use, but for the cases named in section 5. |
| `stream_recovery` | 965 k | `BlamedAtMostOnce`; `GivesUpOnlyWhenNoneIsLeft`: a response is closed early only when every proxy of the snapshot was tried or down, or behind a stream that broke while it was skipped; `OnlySilenceHoldsTheResponse`: the task ends unless an upstream owes it bytes or the client does not read; and `KeepsClientBody`: `StreamRecovery` implements `ClientBody`. |
| `egress` | 677 k | `TorPool`: `AllFailedMeansAllAsked`, `CoolingMeansRotated`; `NewnymsAreSpaced`: the cooldown lies between two NEWNYMs of a node unless the rotations overlap or a confirmation was lost; `TunnelBeginsBehindTheReply`, for every kind of answer; `OnlySilenceHoldsARequest`: what hangs, hangs where there is no timeout. `Ipv6Attempts`: `SourcesAreTheSubnet`: for every prefix of every length, the addresses that can be drawn are those with its first bits; `GivesUpOnlyAtTheEnd`: no good answer is thrown away, and no address is left out before the client gets 502 or a status to retry. |
| `lua_pool` | 389 k | `OneTaskPerVm`; `CallsReturn`: with more calls than VMs too; `FirstMatchWins`: reloads do not mix up the routes of a request, unless a predicate is asked of another generation than its configuration's or interrupted (`misled`); `RoutesAreRead`: patterns accept what they say, two short cuts for globs apart, and a stored route meets the assumptions of `Dispatch` and `Plan`; `RoutesAreApplied`. |
| `dns_check` | 6.7 M | `RefusedOnlyIfMissing`, `PassedOnlyIfFound`: in whatever order lookups end; `TableIsBounded`: by `MAX_HOSTS` and the number of tasks. |
| `client_range_is_lost`, `recovery_ignores_exclude_tags`, `skip_break_ends_the_response`, `last_retry_status_is_passed_on` | | one violated statement each, section 5 |

A behaviour of `health_and_plans` is one of `RouteHealth` or one of `Selection`, and one of
`egress` is of `TorPool` or of `Ipv6Attempts`, chosen in the first state while the other module
does not move: these modules share no state, so their states add up and every behaviour of each
is checked.

No run checks a type invariant: the proof modules prove those of all these modules for every
instance.

Bounds, and why they are enough:

* `RouteHealth`: `Worker` two tasks and `MaxOps` three operations (a lost update or a stale
  store needs two tasks; a third operation sets the scene). `Sample` has 0, a fast, the
  threshold and a slow latency. `LastInstant` two clock units, as long as a ban (`MaxBan`).
  For any numbers the same invariants are proved (section 6).
* `Selection`: three proxies, because a rotation of two is its own inverse; plans of two and
  three, so that the cut cuts and does not cut; `MaxTurn` four, so that the cursor wraps.
* `Dispatch`: three proxies, plans of two and three, two hedged attempts in parallel,
  `MaxHardAttempts` two rounds, one change of health from elsewhere (`MaxElsewhere`, which may
  come first: no proxy of `StartDown` is down at the start), one failure status. The hard cap
  of the code is larger; two rounds show both "another round" and "no more rounds".
* `Probers`: one permit each (`Cap`), two proxies, so one waits; `Horizon` three units with
  `Interval` two, `MaxEvents` two events of requests and network.
* `ProxyPool`: two urls and a bad one (`Bad`), two tags, six contents: no file, a truncated
  one, one proxy, two with other tags, one with a comment that names a proxy twice, and one
  that changes a tag in front of the bad url. `MaxWrites` three (a
  write before, during and after a reload), `MaxFailures` one read that fails.
* `StreamRecovery`: four bytes in chunks of up to three, so a chunk can end before, at and
  behind the resumption point; a channel of one (`Buffer`), so that sending blocks; three
  proxies, each of which may have been tried or be down at the start; a pool that loses one and
  moves another to the front (`Pools`); two later changes of pool or health.
* `LuaPool`: two tasks and two VMs, so that a task finds a VM locked, finds all locked, and
  waits; two tables with every kind of host and path pattern, every kind of predicate, and
  numbers below, at and above what the fields hold (`U16` and `U32` are small moduli), in
  which the same ids mean other routes, and one that is no configuration; two targets, one of
  which has no route in the second table. `MaxWrites` one rewrite, before, during or after a
  poll; a read fails when the file has been deleted (`MaxFailures` none otherwise). With a
  second rewrite the watcher repeats what it does with the first.
* `DnsCheck`: two tasks, three hosts in a table for one (`MaxHosts`), so that tasks clear and
  overfill it; `FoundTtl` two, `MissingTtl` one of `Horizon` three units, `MaxChanges` two,
  so that a host can go and come back.
* `Ipv6Attempts`: addresses of two bytes (`Bytes`) of two bits (`Bits`), so a prefix ends
  before, in and behind either byte; three addresses for `MaxAttempts` four.
* `TorPool`: two nodes, two tasks, error threshold one (the count is capped there, as larger
  counts act alike), `Cooldown` two and `Interval` three of `MaxTime` three units,
  `MaxRequests` two requests, and answers shorter than, as long as and longer than what is
  read at once. The rotation state of a fresh node is "longer ago than the cooldown"
  (`LongAgo`); in the code that is an hour, so a configured cooldown above an hour is outside
  the model.

`FailStreak`, `SlowMs` and `Forever` (the `u64::MAX` of a permanent ban) are parameters.

## 4. Fairness

Invariants and action properties are checked without fairness wherever a specification
has both. Liveness uses:

* `Dispatch!FairSpec`: weak fairness of `Prompt`, what the runtime, the clock and the
  timeouts bring about. The wait for a body is not in it: `timeout_ms` covers the response
  head only and the upstream client has no read timeout. `OnlyBodiesHoldTheAnswer` says that
  nothing else can hold a request.
* `Probers!FairSpec`: weak fairness of each loop and of each probe task (all probes have
  timeouts). A probe task may end in vain while the proxy is down; that it sees the proxy
  when it is up is in the action, not in fairness.
* `ProxyPool!FairSpec`: weak fairness of the watcher, a task of the runtime whose sleeps and
  file operations end. The script owes nothing.
* `LuaPool!FairSpec`: weak fairness of the watcher and of each request; hooks end, by their
  budget of instructions. Strong fairness of `Lock`: the mutexes are parking_lot's, which
  hand a lock over fairly from time to time, so a waiter is not passed over for ever.
* `StreamRecovery!FairSpec`: weak fairness of `Prompt`: the end of a stream that has ended or
  broken, the search for a proxy, a request that is refused or times out. Nothing is assumed
  of upstreams that owe bytes, nor of the client.
* `TorPool!FairSpec`: weak fairness of `Prompt`: the ticks of the schedulers, the lock, and
  the waits with a timeout (connect, response head, dialling the control port). Handshake,
  body and control port have none (`control.rs:19`, `:34`), and nothing is assumed of them.
* `DnsCheck` and `Ipv6Attempts` have none: their properties are invariants.

## 5. Where the code and its documents differ

Shown by a run:

| run | code | documents |
|---|---|---|
| `client_range_is_lost` | `stream.rs:181`: `bytes={total_bytes}-` replaces the client's own range | README:100-101, `stream.rs:68`: resumed via `Range` |
| `recovery_ignores_exclude_tags` | `stream.rs:174`: recovery looks at the tier of a proxy only | config.rs:72-73: such proxies are "never eligible for this route"; README:97-98 |
| `skip_break_ends_the_response` | `stream.rs:240`: a stream that breaks while it is skipped is adopted without its error, and its end (`:281`) closes the response with live proxies left | README:100-101, `stream.rs:109-110`: mid-stream failures resume from the next proxy |
| `last_retry_status_is_passed_on` | `simple-ipv6-proxy/src/handler.rs:151-152`: a status to retry is the answer of the last attempt | README:36, :32: 502 if all attempts fail, so that the caller fails over |

Beside the last two a property of a passing run says what does hold: `GivesUpOnlyWhenNoneIsLeft`
watches every early end of a resumable response and excepts only a stream that broke while it was
skipped; `GivesUpOnlyAtTheEnd` leaves open whether the client gets 502 or a status to retry.

Seen while modelling, and contained in the models as the code has them:

* The streaming path marks the proxy fatal for every route on any `hard_fail`
  (`dispatch/mod.rs:423`; the capture path looks at the reason), whatever the connection was;
  README:67: "Only a connect-class failure … marks the proxy fatal globally".
* A request in flight replaces a permanent ban by its own, shorter one (`entry.rs:93`);
  `prober.rs:46` and `:111` call the ban permanent, lifted by a classifier only.
* With `round_robin` or `sticky_by_header` the rotation may put failed proxies in front, and
  the cut to `max_attempts` then drops healthy ones (`state.rs:194`, `:130`), where
  `state.rs:81-82` has failed ones backfill *if not enough healthy ones exist*.
* The hedge timer starts a reserve proxy of the plan while others still work
  (`dispatch/mod.rs:609`; README:99 keeps reserve for when the others are down).
* `retry_same_proxy` sleeps, records a failure and goes to the *next* proxy
  (`dispatch/mod.rs:438`; README:75).
* A probe is stamped with the clock of the tick and launched when a permit is there
  (`prober.rs:53`), so two probes of a pair may be launched closer together than
  `interval_ms`; `prober.rs:14-16` reads otherwise. `ProbesFollowTheInterval` states what holds.
* The watcher remembers an mtime before it reads the file (`watcher.rs:30`): a change whose
  read fails is not seen until the next change, and neither is one between `load_initial`
  and the first `metadata`. `FileIsApplied` excepts exactly these (`missed`), and the end of
  the process over a url that is none (`upstream/mod.rs:49`, `:58`; README:88 promises "Hot
  reload, no restart", and the comment on `load_initial` a service that answers "instead of
  crash-looping"). Replacing the
  proxies by the same ones in another order changes nothing (`proxy/mod.rs:79`).
* When no proxy is left to resume a stream, the channel is closed without an error and,
  as `content-length` is not forwarded, the client cannot tell (`stream.rs:276-279`).
  `ClientBody` therefore allows an early end of a resumable body, and only of such a one.
* A predicate is called in a VM of the generation in use, by the route's position in the
  file (`lua/mod.rs:201`): right after a reload, or between its two stores, a request asks
  the predicate of another route. `lua/mod.rs:339-340` ("never a half-applied state") holds
  for loads that fail. `FirstMatchWins` excepts such requests (`misled`).
* The instruction budget of a VM is not reset between calls (`lua/mod.rs:111`), where
  README:122 calls it per call: the call that crosses the limit is interrupted, however short
  it is. A predicate that is interrupted turns its request away (`misled` too).
* Two short cuts for path patterns take more than the anchored globs of `matcher.rs:16` and
  `:73-74`: `/a/**` becomes the prefix `/a` and so accepts `/ax` (`config.rs:210`), and `*`
  accepts every path, slashes included (`:208`). `RoutesAreRead` holds a route to the anchored
  globs and names as its only exception what these two take (`PassesByShortCut`).
* The cooldown of a Tor node is checked before a NEWNYM and stamped after its confirmation
  (`pool.rs:180`): two rotations that overlap both send one, and one whose confirmation is lost
  is not counted; README:179 has the cooldown as the minimum time between NEWNYMs per node.
  `NewnymsAreSpaced` excepts exactly these (`alone`).
* `MAX_CONCURRENT_PROBES` is "global" in README:120, but there are two semaphores
  (`prober.rs:24`, `:154`); `ProbesWithinTwiceCap` states what holds and is proved.

## 6. Proofs

TLAPS checks the following for every value of the constants that satisfies the named
assumptions (the `ASSUME`s of the modules). For each specification there is an inductive
invariant `IInv`, which theorem `Inductive` shows to hold, and its `TypeOK` is proved as
`TypeCorrect` (`Pair…` for `RouteHealth`, `Attempts…` for `Ipv6Attempts`). Every invariant and
action property that a passing run checks is proved; the paragraphs say what `IInv` adds to them.

The assumptions are what the code or its types guarantee: counts that are at least one,
finite sets of tasks, nodes and addresses, a dummy value that is no real one, texts and
numbers of `routes.lua` that have the types of Lua. Two deserve a word. `SelectionAssumption`
has average latencies below `Forever`: the code sorts an unmeasured proxy behind all others by
giving it `u64::MAX` (`state.rs:162`), which no average of milliseconds reaches. And the lifetimes
of `DnsCheck` are positive, see there.

**`SelectionProofs`** (`PlansAreFull`, `BetterTiersFirst`, `ReserveBehind`,
`RoundRobinGoesRound`, `FallbackIsRest`, `SelectionIsDetermined`): for any proxy list, tags,
standings, selector, limit and cursor. The lemmas follow `build_plan` from step to step with
one notion, `Lists(s, S)`, "`s` has every element of `S` once": filtering, each stable sort,
the rotation and the cut pass it on (`FilterLists`, `SortLists`, `RotateLists`, `PlanShape`),
and each sort keeps the order of the sort before it within its own groups (`ArrangedOrder`), so
that the cut takes from the end of the last group (`CutFront`). Round robin needs a history:
`Turns` says that the last plans began at consecutive cursors of one list, and `TurnsDiffer`
that fewer than `n` consecutive numbers are different modulo `n`. The model describes a stable
sort by its result; `SelectionIsDetermined` is the justification: there is such a result, and
only one, unless the proxies are shuffled.

**`HealthProofs`, RouteHealth** (`PairInductive`, `PairTypeCorrect`, `AverageBounded`,
`SlowIsEarned`, `BanBounded`): for any number of tasks, samples and operations. The properties
are about the shared fields, but what breaks them is a value computed long ago and still in a
register, or an access still in a program. The invariant `PairIInv` therefore has

* `TodoSound`: the operand of every access still to be made is one that some operation
  started so far (`seen`) accounts for;
* `RegistersSound`: a computed average is between two samples blended in (`samples`) and above
  `slow_ms` only with evidence; a computed expiry is no longer than the longest ban from now;
* `FieldsSound`: the properties themselves.

`FieldsSound` alone is not inductive: a store may carry anything a register holds. A blended
average lies between the old one and the sample, the integer division included
(`BlendBetween`), so between two of the samples so far and the new one (`BlendWithin`). The
arithmetic lemma behind `SlowIsEarned` is that `(3(s+1) + 7a) div 10 <= s` whenever `a <= s`.

**`DispatchProofs`** (`ParallelBounded`, `AttemptsBounded`, `ExhaustionIsTrue`,
`OnlyRunningAttemptsRecord`): for any proxies, routes, overrides and round limit. First the
lemmas on `Plan`: sorting, rotating and cutting give lists of proxies (`PlanIsList`: of at most
`max_attempts`), and a last-resort list has no proxy that was tried. The invariant adds

* `Staged`: which phases of attempts go with which place of `run`, and that the forced proxy
  is used by the first plan;
* `PassedIsTried`: what a dispatcher has passed in its plan was tried;
* `WithinBudget`: the attempts made together with what is left of the plan are within the
  allowance of the rounds so far. The bound on the attempts alone is not inductive in the
  middle of a round.

**`HealthProofs`, Probers** (`PermitsConserved`, `LaunchesBounded`, `ProbesBounded`): "free permits
+ running probes = Cap", since the number of busy tasks changes by exactly one at a launch
and at an end; and `Paid`: the launches for a pair, one that still waits for its permit
included, are at most the time of its last stamp plus one interval.

**`ProxyPoolProofs`** (`OneEntry`, `OldOrNewTags`, `StatsStay`): for any files and any script.
The properties say what a request sees between two assignments of a reload; what makes them
so is what the reload holds in its locals:

* `Mapped`: the map leads to an entry of the url it is asked for, and covers the list unless
  the reload is between its two stores;
* `Kept`: the new list has the map's entry of every url the map has, no url twice, and what
  is still to be looked at is in neither;
* `Tagged`: the entries of the list have the tags of one of two files, those of the new list
  of the new one. When a reload ends without a store because no proxy came or went, both
  lists have the same entries (`SameProxies`).

**`StreamProofs`** (`BytesInOrder`, `BlamedOnce`, `GivesUpLast`, `ImplementsClientBody`), for a
client without a range (`Offset = 0`; with one, `ResumesWhereItBroke` is false, section 5),
whatever lists the pool is reloaded with. The invariant adds to the types:

* `Position`: what was sent is as long as `total_bytes`, a healthy stream that is read
  stands exactly there, one that is skipped stands before. That makes the next chunk the
  continuation of the prefix.
* `Blame`: only tried proxies have failures, and neither the one that delivers nor the one
  being asked has any, so the next failure of either is its first.
* `Covered`: a proxy of the snapshot that is no longer in the list was tried or has been
  down; with an empty list that is what giving up needs. `GivesUpLast` excepts a stream that
  broke while it was skipped, whose end nobody searches behind.
* `Ending`: without recovery a response that is done without an error is complete.

`ImplementsClientBody` is a step simulation: `sent` maps to `body`; `Chunk` and the last
chunk skipped map to `More`, learning of the end to `Eof` or `Error`, the client's leaving
to `Leave`, all else to a stutter.

**`LuaPoolProofs`** (`VmsAreExclusive`, `FirstFittingRoute`, `RoutesReadRight`): for any tables,
targets, tasks and number of VMs. `Walked` says how far the choice of a route is: no route
that fits is before the candidate looked at, and the predicate that is asked belongs to the
request's own generation unless the history says otherwise. That the next candidate is the
first one behind is the well-ordering of the naturals (`WellFoundedInduction`).

`RoutesReadRight` is about texts of any length. `config.rs` turns a glob into a prefix, a
suffix or an exact text where it can, and runs the others through a matcher that walks over the
text; the reference (`Fits`) says that the pieces between the stars occur one after the other.
The walk is a recursive function on the pieces of the pattern. Induction over them (`Climb`:
what holds at 0 and goes from `k` to `k + 1` holds up to `n`) shows that the recursion has a
solution (`ReachedExists`), that one step reaches exactly the places where its piece ends
(`ReachIsPiece`), and so that the walk says what the reference says (`GlobIsRead`);
`PrefixIsRead`, `SuffixIsRest`, `HostIsRead` and `PathIsRead` are the shortcuts: those for hosts
agree with the reference, those for paths take all it takes, and what they take beyond it is
`PathShortCut`. `NumberIsNatural` and
`SettingsWork` follow the casts and clamps of the numbers.

**`DnsCheckProofs`** (`RefusalsAreFresh`, `PassesAreFresh`, `TableBounded`).
`lastTime[h]` is a history of when host `h` last was found and last was missing; an answer
is fresh if that is not further back than its lifetime. A lookup reads the clock first and
the truth later, so the invariant follows one result through its stations: `Found` (a
result not yet stored was so after the clock was read), `Fresh` (an entry runs out a
lifetime after it was so, since its lifetime counts from that reading of the clock), `Right`
(so does the answer). `Room` counts the entries together with the tasks that have checked
the size and not inserted yet; the table alone is not inductive. The lifetimes must be
positive: with none, what a lookup found may have changed before it returns.

**`EgressProofs`, TorPool** (`RefusalIsTrue`, `CooldownIsEarned`, `SignalsAreSpaced`,
`HandshakeEnds`): for any number of nodes and tasks, any threshold, cooldown and interval and
any well-formed answers. `RequestOK`: what was available when a request ordered the nodes is
in its list or was asked, which starts from the fact that cycle, skip and take keep all
members (`OrderFrom`). `Cooled`: a cooldown in the future was stamped with a NEWNYM.
`Spaced`: the last NEWNYM is not newer than its stamp unless it is unconfirmed, and a rotation
that found none unconfirmed still has the cooldown behind it when it sends its own.

**`EgressProofs`, Subnet and Ipv6Attempts** (`AttemptsInductive`, `AttemptsTypeCorrect`,
`DrawsTheSubnet`, `GivesUpLate`): for addresses of any number of bytes and bits, prefixes of any
length, any addresses of the target and any number of attempts.

`DrawsTheSubnet` relates two ways to read an address. The code works on bytes, with a mask for
the byte in which the prefix ends; the property speaks of numbers, an address divided by a
power of two. `Agree` is the bridge: the whole bytes are equal, and of the byte in which the
prefix ends the high bits. `SamePrefix` is that two addresses have equal first bits as numbers
exactly if they agree: `Splits` and `PrefixOfPart` cut the number of an address behind any bit,
by induction over its bytes, and `TwoDigits` compares the parts. `SourcesAgree` is that
`random_addr` draws exactly what agrees with the prefix: it keeps the high bits (`MixedByte`),
and an address that agrees is drawn when the random bytes are its own.

`GivesUpLate`: `InTurns` says of every moment between the lookup and the answer that after
`q * n + r` attempts at `n` addresses all have been asked `q` times and the first `r` once more;
that is what `attempt % n` keeps up. Whether the client gets 502 or a status to retry at the end
is not part of the theorem (section 5).

What stays with TLC is all liveness (`OnlyBodiesHoldTheAnswer`, `FileIsApplied`,
`RoutesAreApplied`, `CallsReturn`, `RouteWalkEnds`, `ReachableIsRestored`,
`OnlySilenceHoldsTheResponse`, `OnlySilenceHoldsARequest`): the prover does not cover `ENABLED`
and so no fairness. Recursion over data that is not counted by a number (trees, sets) would
need an induction principle that the prover cannot instantiate; here there is none: recursive
functions of these modules run over positions and bytes, and the lemmas `Climb`, `ReachedExists`
and `Recursion`, which rest on the well-ordering of the naturals, replace it. The divergences shown by runs
are no theorems, of course.

## 7. What is not modelled

* Atomicity inside `RouteState` in `Dispatch` and `Probers`; `RouteHealth` covers it.
* What hooks compute: every verdict is possible at every time.
* Route health across a reload of `routes.lua`: it is kept by route id, so a route may inherit
  the bans of the one that had its place before (`entry.rs:172`). Nothing in the code or its
  documents bounds what is inherited, so there is nothing to state.
* simple-ipv6-proxy: CONNECT tunnels, the rewriting of redirects, how the resolver's answers
  are filtered (only what is left counts), neighbour discovery and client emulation.
* The syntax of regular expressions, urls and Lua; names, urls and headers of routes.
* HTTP parsing, TLS, header filtering, raw sockets, packaging: I/O or stateless code.
  `simple-proxy` is a straight line from a request to its answer: it keeps nothing between
  requests and tries nothing twice. `PROJECT.json` lists each part with its reason.
* Upstream bodies without framing: an HTTP/1.0 body that ends with the connection could be
  cut without an error; here an upstream body ends at its last byte or with an error.

## 8. Plan

Done: the core (`Health`, `RouteHealth`, `Plan`, `Selection`, `Dispatch`, `Probers`),
`ProxyPool` and `LuaPool` on `FileWatcher`, `Matcher` and `RouteConfig` below `LuaPool`,
`StreamRecovery` with its abstract `ClientBody`, `DnsCheck`, `TorPool` on `Socks5`,
`Ipv6Attempts` on `Subnet`, and the proofs of all their invariants and action properties in
eight modules.

Left, in this order:

1. A specification of what a route's health promises across reloads, once the code has one,
   and `LuaPool` composed with `RouteHealth` to check it.
2. Further theorems that no run states yet: that `FileWatcher` gives each of its two users the
   same promise, stated once; that the plan `Dispatch` draws is one that `Selection` proves
   things about.
3. The CONNECT tunnel of simple-ipv6-proxy.

## 9. Running

```
tlc -workers 2 -config MCDispatch.cfg MCDispatch      # any run of section 3
tlapm StreamProofs.tla                                 # any proof module
```
