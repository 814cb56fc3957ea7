----------------------------- MODULE VpnSession -----------------------------
(***************************************************************************)
(* One instance of vpn/AdwardenVpnService.kt and the native sessions it    *)
(* starts, updates and stops through the handle of core/NativeCore.kt and  *)
(* rust/core/src/ffi.rs: start, stop, revocation and destruction on the    *)
(* main thread; on a pool of threads the coroutines of serviceScope: the   *)
(* two that rebuild the tunnel under v6Mutex, and the collectors that push *)
(* settings and rules to the core.                                         *)
(*                                                                         *)
(* A step is what a thread does up to its next call that blocks, suspends  *)
(* or reads a field another thread writes.  The settings stand for what    *)
(* the start configuration carries and nativeUpdateConfig updates, the     *)
(* rules for what it does not and reapplyNativeState pushes.               *)
(*                                                                         *)
(* nativeHandle is a plain field.  Launching a coroutine and taking the    *)
(* lock order its accesses within a scope, so a read here is exact; only   *)
(* against stopEverything and by the collectors is it not, and there a     *)
(* stale read sees what an earlier one would have.                         *)
(***************************************************************************)
EXTENDS Integers, FiniteSets

CONSTANTS
    Events,     \* what happens to the service
    MaxEvents   \* bound on how often

AllEvents == {"start", "stop", "net", "proxy", "settings", "rules"}

ASSUME SessionAssumption == Events \subseteq AllEvents /\ MaxEvents \in Nat \ {0}

\* One event builds one tunnel at most, and the first onAvailable after a start one more.
Sessions == 1..(2 * MaxEvents)
Scopes == 1..MaxEvents
Versions == 0..MaxEvents
Rebuilds == {"v6", "proxy"}
Pushed == {"settings", "rules"}

VARIABLES
    running, nativeHandle, tunnelHasV6,
    scope,      \* serviceScope, by number; 0: null, and every other one cancelled
    scopes,     \* the scopes made so far
    holder,     \* sessionHolder
    callback,   \* the network callback: off, owing a call, or quiet
    leaving,    \* stopSelf() was called since the last start
    gone,       \* onDestroy has begun
    met,        \* a start has met a rebuild of an earlier scope (kept for the properties)
    main,       \* what the main thread does
    request,    \* per rebuild, the scope in which it was asked for, or 0
    work,       \* the coroutines that rebuild the tunnel
    collector,  \* per scope, the coroutines that push settings and rules
    session,    \* the native sessions
    by,         \* the scope each was built in
    given,      \* the settings and rules each was given last
    tunnels,    \* the open TUN descriptors; session n owns descriptor n
    built,      \* the tunnels built so far
    misuse,     \* calls made with the handle of a freed session
    link,       \* the best network: none, without or with global IPv6
    stored,     \* the versions of settings and rules the user has stored
    events

service == <<running, nativeHandle, tunnelHasV6, scope, scopes, holder, callback>>
life == <<leaving, gone, met>>
native == <<session, by, given, tunnels, built, misuse>>
user == <<link, stored, events>>
vars == <<service, life, main, request, work, collector, native, user>>

Idle == [pc |-> "idle", v6 |-> FALSE, n |-> 0, settings |-> 0]
Resting == [pc |-> "none", scope |-> 0, old |-> 0, v6 |-> FALSE, n |-> 0,
            settings |-> 0, rules |-> 0]
Quiet == [pc |-> "none", seen |-> -1, h |-> 0]

Init ==
    /\ running = FALSE /\ nativeHandle = 0 /\ tunnelHasV6 = FALSE
    /\ scope = 0 /\ scopes = 0 /\ holder = 0 /\ callback = "off"
    /\ leaving = FALSE /\ gone = FALSE /\ met = FALSE
    /\ main = Idle
    /\ request = [k \in Rebuilds |-> 0]
    /\ work = [k \in Rebuilds |-> Resting]
    /\ collector = [s \in Scopes |-> [c \in Pushed |-> Quiet]]
    /\ session = [n \in Sessions |-> "none"]
    /\ by = [n \in Sessions |-> 0]
    /\ given = [n \in Sessions |-> [settings |-> -1, rules |-> -1]]
    /\ tunnels = {} /\ built = 0 /\ misuse = {}
    /\ link \in {"none", "v4", "v6"}
    /\ stored = [c \in Pushed |-> 0] /\ events = 0

Happens(e) == e \in Events /\ events < MaxEvents /\ events' = events + 1

-----------------------------------------------------------------------------
(* The native calls *)

\* nativeStart, when it does not answer 0: the core owns the descriptor from here
\* on.  The rules of a fresh session are empty.
nativeStart(n, s, settings) ==
    /\ session' = [session EXCEPT ![n] = "live"]
    /\ by' = [by EXCEPT ![n] = s]
    /\ given' = [given EXCEPT ![n].settings = settings]
    /\ UNCHANGED <<tunnels, built, misuse>>

\* nativeStop: takes the box back, ends the loop, which closes the descriptor,
\* and joins it.  On a freed box: undefined, here recorded.
nativeStop(n) ==
    /\ IF session[n] = "live"
       THEN /\ session' = [session EXCEPT ![n] = "freed"]
            /\ tunnels' = tunnels \ {n}
            /\ UNCHANGED misuse
       ELSE misuse' = misuse \cup {"stop"} /\ UNCHANGED <<session, tunnels>>
    /\ UNCHANGED <<by, given, built>>

\* nativeUpdateConfig, nativeUpdateFirewall: queue a command for the session.
nativeUpdate(n, c, version) ==
    /\ IF session[n] = "live"
       THEN given' = [given EXCEPT ![n][c] = version] /\ UNCHANGED misuse
       ELSE misuse' = misuse \cup {"update"} /\ UNCHANGED given
    /\ UNCHANGED <<session, by, tunnels, built>>

\* establishTunnel and detachFd, when the builder answers a descriptor.
establishTunnel ==
    /\ built < 2 * MaxEvents
    /\ built' = built + 1 /\ tunnels' = tunnels \cup {built + 1}
    /\ UNCHANGED <<session, by, given, misuse>>

\* Mutant: the descriptor of a session that did not start is forgotten.
adoptFdForgotten(n) == UNCHANGED tunnels

\* adoptFd(rawFd).close()
adoptFd(n) == tunnels' = tunnels \ {n}

-----------------------------------------------------------------------------
(* stopEverything, on the main thread or on the worker that failed *)

\* Up to the read of nativeHandle.
stopService ==
    /\ running' = FALSE /\ tunnelHasV6' = FALSE
    /\ callback' = "off"
    /\ scope' = 0
    /\ holder' = 0
    /\ UNCHANGED <<nativeHandle, scopes>>

\* The read, and nativeStop; "s3" is where the handle is zeroed.
stopNative == nativeHandle # 0 /\ nativeStop(nativeHandle) /\ UNCHANGED life

\* With no handle that was all.
stopNothing == nativeHandle = 0 /\ leaving' = TRUE /\ UNCHANGED <<gone, met, native>>

\* What it writes last: whatever the handle is by now.  stopSelf() follows.
stopHandle ==
    /\ nativeHandle' = 0
    /\ leaving' = TRUE
    /\ UNCHANGED <<running, tunnelHasV6, scope, scopes, holder, callback, gone, met>>

-----------------------------------------------------------------------------
(* The main thread *)

mainGoes(pc) == main' = [main EXCEPT !.pc = pc]

\* startCapture up to the configuration: the tunnel is there, or it gives up.
StartCommand ==
    /\ main.pc = "idle" /\ ~gone
    /\ Happens("start")
    /\ \/ running /\ UNCHANGED <<main, native>>
       \/ /\ ~running /\ establishTunnel
          /\ main' = [Idle EXCEPT !.pc = "config", !.v6 = (link = "v6"), !.n = built + 1]
       \/ ~running /\ mainGoes("s1") /\ UNCHANGED native
    /\ leaving' = FALSE
    /\ UNCHANGED <<service, gone, met, request, work, collector, link, stored>>

\* buildConfigJson.
StartConfig ==
    /\ main.pc = "config"
    /\ main' = [main EXCEPT !.pc = "start", !.settings = stored["settings"]]
    /\ UNCHANGED <<service, life, request, work, collector, native, user>>

\* nativeStart, what is published of it, startObservers and the registration of
\* the callback, whose first call is still to come.
StartNative ==
    /\ main.pc = "start"
    /\ \/ /\ nativeStart(main.n, scopes + 1, main.settings)
          /\ running' = TRUE /\ nativeHandle' = main.n /\ holder' = main.n
          /\ tunnelHasV6' = main.v6
          /\ scopes' = scopes + 1 /\ scope' = scopes + 1
          /\ callback' = "owing"
          /\ met' = (met \/ \E k \in Rebuilds : work[k].pc # "none")
          /\ collector' = [collector EXCEPT ![scopes + 1] =
                             [c \in Pushed |-> [Quiet EXCEPT !.pc = "idle"]]]
          /\ main' = Idle
       \/ /\ adoptFd(main.n) /\ mainGoes("s1")
          /\ UNCHANGED <<session, by, given, built, misuse, service, met, collector>>
    /\ UNCHANGED <<leaving, gone, request, work, user>>

\* ACTION_STOP and onRevoke.
StopCommand ==
    /\ main.pc = "idle" /\ ~gone
    /\ Happens("stop")
    /\ mainGoes("s1")
    /\ UNCHANGED <<service, life, request, work, collector, native, link, stored>>

onDestroy ==
    /\ main.pc = "idle" /\ leaving /\ ~gone
    /\ gone' = TRUE /\ mainGoes("s1")
    /\ UNCHANGED <<service, leaving, met, request, work, collector, native, user>>

MainStops ==
    \/ /\ main.pc = "s1" /\ stopService /\ mainGoes("s2")
       /\ UNCHANGED <<life, native, request, work, collector, user>>
    \/ /\ main.pc = "s2"
       /\ (stopNative /\ mainGoes("s3")) \/ (stopNothing /\ main' = Idle)
       /\ UNCHANGED <<service, request, work, collector, user>>
    \/ /\ main.pc = "s3" /\ stopHandle /\ main' = Idle
       /\ UNCHANGED <<native, request, work, collector, user>>

\* Mutant: a network change is not followed by a reconcile.
NetworkCallbackIgnored ==
    /\ main.pc = "idle" /\ callback = "owing"
    /\ callback' = "quiet"
    /\ UNCHANGED <<running, nativeHandle, tunnelHasV6, scope, scopes, holder, request,
                   life, main, work, collector, native, user>>

\* onAvailable and onLinkPropertiesChanged schedule a reconcile, onLost does not.
\* currentUnderlying is the link itself: a change it has not seen yet still owes
\* a call, and so a reconcile of its own.
NetworkCallback ==
    /\ main.pc = "idle" /\ callback = "owing"
    /\ callback' = "quiet"
    /\ request' = IF link = "none" \/ scope = 0 THEN request
                  ELSE [request EXCEPT !["v6"] = scope]
    /\ UNCHANGED <<running, nativeHandle, tunnelHasV6, scope, scopes, holder,
                   life, main, work, collector, native, user>>

-----------------------------------------------------------------------------
(* The coroutines that rebuild the tunnel *)

goes(k, pc) == work' = [work EXCEPT ![k].pc = pc]
ends(k) == work' = [work EXCEPT ![k] = Resting]
cancelled(s) == s # scope

\* A coroutine cancelled before it is dispatched does not run; the proxy's
\* collector looks at running before it asks for the lock.
WorkBegins(k) ==
    /\ work[k].pc = "none" /\ request[k] # 0
    /\ request' = [request EXCEPT ![k] = 0]
    /\ IF cancelled(request[k]) \/ (k = "proxy" /\ ~running) THEN UNCHANGED work
       ELSE work' = [work EXCEPT ![k] = [Resting EXCEPT !.pc = "wait", !.scope = request[k]]]
    /\ UNCHANGED <<service, life, main, collector, native, user>>

\* Mutant: no lock.
v6MutexNone(k) == TRUE

\* v6Mutex: free, while every other rebuild is over or waits.
v6Mutex(k) == \A j \in Rebuilds \ {k} : work[j].pc \in {"none", "wait"}

\* withLock, and what comes before the handle is read.  A waiter whose scope is
\* cancelled is thrown out, unless it finds the lock free.
WorkLocks(k) ==
    /\ work[k].pc = "wait" /\ v6Mutex(k)
    /\ \/ cancelled(work[k].scope) /\ ends(k)
       \/ LET withV6 == IF k = "v6" THEN link = "v6" ELSE tunnelHasV6
          IN  IF k = "v6" /\ (~running \/ withV6 = tunnelHasV6) THEN ends(k)
              ELSE work' = [work EXCEPT ![k].pc = "old", ![k].v6 = withV6]
    /\ UNCHANGED <<service, life, main, request, collector, native, user>>

handleCleared == nativeHandle' = 0 /\ holder' = 0

oldStopped(k) == work[k].pc = "stop" /\ nativeStop(work[k].old) /\ goes(k, "clear")

\* reestablishTunnel: read the handle; stop its session; forget it.
WorkTakesDown(k) ==
    /\ \/ /\ work[k].pc = "old"
          /\ work' = [work EXCEPT ![k].old = nativeHandle,
                                  ![k].pc = IF nativeHandle = 0 THEN "clear" ELSE "stop"]
          /\ UNCHANGED <<service, native>>
       \/ oldStopped(k) /\ UNCHANGED service
       \/ /\ work[k].pc = "clear" /\ handleCleared /\ goes(k, "establish")
          /\ UNCHANGED <<running, tunnelHasV6, scope, scopes, callback, native>>
    /\ UNCHANGED <<life, main, request, collector, user>>

\* establishTunnel, buildConfigJson, nativeStart: to the new session or to the stop.
WorkBuilds(k) ==
    /\ \/ /\ work[k].pc = "establish"
          /\ \/ /\ establishTunnel
                /\ work' = [work EXCEPT ![k].pc = "config", ![k].n = built + 1]
             \/ goes(k, "s1") /\ UNCHANGED native
       \/ /\ work[k].pc = "config"
          /\ work' = [work EXCEPT ![k].pc = "start", ![k].settings = stored["settings"]]
          /\ UNCHANGED native
       \/ /\ work[k].pc = "start"
          /\ \/ nativeStart(work[k].n, work[k].scope, work[k].settings) /\ goes(k, "publish")
             \/ /\ adoptFd(work[k].n) /\ goes(k, "s1")
                /\ UNCHANGED <<session, by, given, built, misuse>>
    /\ UNCHANGED <<service, life, main, request, collector, user>>

WorkPublishes(k) ==
    /\ work[k].pc = "publish"
    /\ nativeHandle' = work[k].n /\ holder' = work[k].n
    /\ tunnelHasV6' = work[k].v6
    /\ goes(k, "first")
    /\ UNCHANGED <<running, scope, scopes, callback, life, main, request, collector, native,
                   user>>

\* Mutant: the new session is left with empty rules.
nothingReapplied(k) ==
    /\ work[k].pc = "first" /\ ends(k) /\ UNCHANGED native

\* The rules are read, which suspends, and pushed with the handle of the build.
reapplyNativeState(k) ==
    \/ /\ work[k].pc = "first"
       /\ IF cancelled(work[k].scope) THEN ends(k)
          ELSE work' = [work EXCEPT ![k].pc = "push", ![k].rules = stored["rules"]]
       /\ UNCHANGED native
    \/ /\ work[k].pc = "push"
       /\ nativeUpdate(work[k].n, "rules", work[k].rules) /\ ends(k)

WorkReapplies(k) ==
    /\ reapplyNativeState(k)
    /\ UNCHANGED <<service, life, main, request, collector, user>>

WorkStops(k) ==
    \/ /\ work[k].pc = "s1" /\ stopService /\ goes(k, "s2")
       /\ UNCHANGED <<life, main, request, collector, native, user>>
    \/ /\ work[k].pc = "s2"
       /\ (stopNative /\ goes(k, "s3")) \/ (stopNothing /\ ends(k))
       /\ UNCHANGED <<service, main, request, collector, user>>
    \/ /\ work[k].pc = "s3" /\ stopHandle /\ ends(k)
       /\ UNCHANGED <<main, request, collector, native, user>>

Work(k) ==
    \/ WorkBegins(k) \/ WorkLocks(k) \/ WorkTakesDown(k) \/ WorkBuilds(k)
    \/ WorkPublishes(k) \/ WorkReapplies(k) \/ WorkStops(k)

-----------------------------------------------------------------------------
(* The coroutines that push what changes *)

\* A value it has not seen, and the handle it will be pushed with; with none it is
\* dropped.  The settings resolve a name first, which suspends.
Collects(s, c) ==
    /\ collector[s][c].pc = "idle" /\ ~cancelled(s) /\ collector[s][c].seen # stored[c]
    /\ collector' = [collector EXCEPT ![s][c] =
         [seen |-> stored[c], h |-> nativeHandle,
          pc |-> IF nativeHandle = 0 THEN "idle" ELSE IF c = "settings" THEN "resolve" ELSE "push"]]
    /\ UNCHANGED <<service, life, main, request, work, native, user>>

Resolves(s, c) ==
    /\ collector[s][c].pc = "resolve"
    /\ collector' = [collector EXCEPT ![s][c].pc = IF cancelled(s) THEN "none" ELSE "push"]
    /\ UNCHANGED <<service, life, main, request, work, native, user>>

Pushes(s, c) ==
    /\ collector[s][c].pc = "push"
    /\ nativeUpdate(collector[s][c].h, c, collector[s][c].seen)
    /\ collector' = [collector EXCEPT ![s][c].pc = "idle", ![s][c].h = 0]
    /\ UNCHANGED <<service, life, main, request, work, user>>

-----------------------------------------------------------------------------
(* The device and its user *)

NetworkChanges ==
    /\ Happens("net")
    /\ link' \in {"none", "v4", "v6"} \ {link}
    /\ callback' = IF callback = "off" THEN "off" ELSE "owing"
    /\ UNCHANGED <<running, nativeHandle, tunnelHasV6, scope, scopes, holder, life, main,
                   request, work, collector, native, stored>>

ProxyChanges ==
    /\ Happens("proxy")
    /\ request' = IF scope = 0 THEN request ELSE [request EXCEPT !["proxy"] = scope]
    /\ UNCHANGED <<service, life, main, work, collector, native, link, stored>>

Stores(c) ==
    /\ Happens(c)
    /\ stored' = [stored EXCEPT ![c] = @ + 1]
    /\ UNCHANGED <<service, life, main, request, work, collector, native, link>>

MainContinues == StartConfig \/ StartNative \/ MainStops \/ NetworkCallback
Collector(s, c) == Collects(s, c) \/ Resolves(s, c) \/ Pushes(s, c)

System ==
    \/ MainContinues
    \/ \E k \in Rebuilds : Work(k)
    \/ \E s \in Scopes, c \in Pushed : Collector(s, c)

Next ==
    \/ System
    \/ StartCommand \/ StopCommand \/ onDestroy
    \/ NetworkChanges \/ ProxyChanges \/ \E c \in Pushed : Stores(c)

\* A looper and a thread pool run what is ready.  Every thread's work ends, so
\* that one of them is always run is all it takes.
Fairness == WF_vars(System)

Spec == Init /\ [][Next]_vars /\ Fairness

-----------------------------------------------------------------------------
Live == {n \in Sessions : session[n] = "live"}
Handles == Sessions \cup {0}

TypeOK ==
    /\ running \in BOOLEAN /\ tunnelHasV6 \in BOOLEAN /\ leaving \in BOOLEAN /\ gone \in BOOLEAN
    /\ {nativeHandle, holder} \subseteq Handles
    /\ scope \in {0, scopes} /\ scopes \in 0..MaxEvents
    /\ callback \in IF running THEN {"owing", "quiet"} ELSE {"off"}
    /\ running <=> scope # 0
    /\ \A k \in Rebuilds :
         /\ request[k] \in 0..scopes /\ work[k].scope \in 0..scopes
         /\ work[k].n \in 0..built /\ work[k].old \in 0..built
    /\ \A s \in Scopes, c \in Pushed : collector[s][c].pc # "none" => s <= scopes
    /\ tunnels \subseteq 1..built /\ Live \subseteq 1..built
    /\ misuse \subseteq {"stop", "update"}

\* While a scope lasts there is one native session of it at most, whatever network
\* changes, proxy edits and failures rebuild the tunnel (reestablishTunnel: "Stop the
\* native session, rebuild the TUN").  A rebuild that goes on from an earlier scope takes
\* the new one's handle away, and then there may be two.
OneSession == \A n, m \in Live : by[n] = scope /\ by[m] = scope => n = m

\* A rebuild of a scope that lasts stops the session it found once: the handle
\* it read under the lock is not another's leftover.
StoppedOnce ==
    \A k \in Rebuilds : work[k].pc = "stop" /\ ~cancelled(work[k].scope) => work[k].old \in Live

\* Sessions are exclusive: one per scope, each stopped by the one rebuild that found
\* it, however v6Mutex, cancellation and the main thread's stops interleave, as long
\* as no start met a rebuild of an earlier scope.
SessionsExclusive == TypeOK /\ (~met => OneSession /\ StoppedOnce)

\* An open TUN descriptor belongs to a live session or to the build under way:
\* none is left open with nobody to read it.
FdOwned ==
    tunnels = Live \cup {work[k].n : k \in {k \in Rebuilds : work[k].pc \in {"config", "start"}}}
              \cup IF main.pc \in {"config", "start"} THEN {main.n} ELSE {}

\* The tunnel comes to advertise IPv6 just when the network carries it: it never
\* stays at odds with the network, however changes and rebuilds overlap.
V6Follows == []<>(running /\ link # "none" => tunnelHasV6 = (link = "v6"))

\* A session that stays published in the scope it was built in is given the rules:
\* no rebuild leaves the firewall of the new session empty.
RulesReach ==
    []<>(\A n \in Live : by[n] = scope /\ nativeHandle = n => given[n].rules # -1)

\* stopEverything: "The core is gone": nothing is left of it once the service has
\* stopped and no thread of it has work to do.
CoreGone ==
    leaving /\ ~running /\ main.pc = "idle" /\ (\A k \in Rebuilds : work[k].pc = "none")
      => Live = {}

\* "block-DNS changes are pushed live": the published session comes to have the
\* settings the user stored.
SettingsPushed ==
    []<>(running => nativeHandle # 0 /\ given[nativeHandle].settings = stored["settings"])

\* "Push per-app firewall rules whenever they change": likewise for the rules.
RulesPushed == []<>(running => nativeHandle # 0 /\ given[nativeHandle].rules = stored["rules"])

\* NativeCore.kt: the handle is "an opaque pointer to the native session", which
\* nativeStop takes back: no call is made with it after that.
NoUseAfterStop == misuse = {}
=============================================================================
