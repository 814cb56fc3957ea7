-------------------------- MODULE VpnSessionProofs --------------------------
(***************************************************************************)
(* Proofs about VpnSession: its descriptors have owners, and its sessions  *)
(* are exclusive.                                                          *)
(*                                                                         *)
(* Rebuilds of one scope exclude each other by the lock and hand the one   *)
(* session on through nativeHandle: Phase says, for each point of a        *)
(* rebuild, which session of the scope is live and what the handle holds.  *)
(***************************************************************************)
EXTENDS VpnSession, TLAPS

-----------------------------------------------------------------------------
(* The inductive invariant *)

WorkPcs == {"none", "wait", "old", "stop", "clear", "establish", "config", "start", "publish",
            "first", "push", "s1", "s2", "s3"}
MainPcs == {"idle", "config", "start", "s1", "s2", "s3"}
Works == [pc : WorkPcs, scope : Nat, old : Nat, v6 : BOOLEAN, n : Nat, settings : Int, rules : Int]
Mains == [pc : MainPcs, v6 : BOOLEAN, n : Nat, settings : Int]
Collecting == [pc : {"none", "idle", "resolve", "push"}, seen : Int, h : Nat]

Building == {"config", "start"}
Built == Building \cup {"publish", "first", "push"}

\* The fields of the service, and what goes with its being up.
ServiceOK ==
    /\ running \in BOOLEAN /\ tunnelHasV6 \in BOOLEAN
    /\ leaving \in BOOLEAN /\ gone \in BOOLEAN /\ met \in BOOLEAN
    /\ nativeHandle \in 0..built /\ holder \in 0..built
    /\ scopes \in Nat /\ scope \in {0, scopes} /\ (running <=> scope # 0)
    /\ callback \in IF running THEN {"owing", "quiet"} ELSE {"off"}

\* The events so far, which bound the scopes, and the versions stored.
UserOK ==
    /\ events \in 0..MaxEvents /\ scopes <= events
    /\ stored \in [Pushed -> Nat]

MainOK ==
    /\ main \in Mains /\ main.n <= built
    /\ main.pc \in Building => main.n >= 1 /\ ~running /\ scopes < events
    /\ main.pc \in {"s2", "s3"} => ~running

\* What a rebuild holds at each point.
WorkOK ==
    /\ request \in [Rebuilds -> Nat] /\ work \in [Rebuilds -> Works]
    /\ \A k \in Rebuilds :
         /\ request[k] <= scopes /\ work[k].scope <= scopes
         /\ work[k].n <= built /\ work[k].old <= built
         /\ work[k].pc # "none" => work[k].scope >= 1
         /\ work[k].pc = "stop" => work[k].old >= 1
         /\ work[k].pc \in Built => work[k].n >= 1

CollectorOK ==
    /\ collector \in [Scopes -> [Pushed -> Collecting]]
    /\ \A s \in Scopes, c \in Pushed : collector[s][c].pc # "none" => s <= scopes

NativeOK ==
    /\ session \in [Sessions -> {"none", "live", "freed"}] /\ by \in [Sessions -> Nat]
    /\ built \in 0..(2 * MaxEvents) /\ tunnels \subseteq 1..built
    /\ \A n \in Sessions : by[n] <= scopes
    /\ \A n \in Sessions : session[n] = "live" => n <= built /\ by[n] >= 1
    /\ misuse \subseteq {"stop", "update"}

Typed == ServiceOK /\ UserOK /\ MainOK /\ WorkOK /\ CollectorOK /\ NativeOK

\* A tunnel being built into a session is nobody else's.
Apart ==
    /\ main.pc \in Building => main.n \notin Live
    /\ \A k \in Rebuilds : work[k].pc \in Building =>
         /\ work[k].n \notin Live
         /\ main.pc \in Building => work[k].n # main.n
         /\ \A j \in Rebuilds \ {k} : work[j].pc \in Building => work[k].n # work[j].n

Busy(k) == work[k].pc \notin {"none", "wait"}
Alone == \A k, j \in Rebuilds : Busy(k) /\ Busy(j) => k = j

\* The sessions of the scope that lasts.
Own == {n \in Live : by[n] = scope}
\* Which of them there are while a rebuild of that scope is under way.
Phase(k) ==
    CASE work[k].pc = "stop" -> nativeHandle # 0 /\ work[k].old = nativeHandle /\ Own = {nativeHandle}
      [] work[k].pc = "clear" -> Own = {}
      [] work[k].pc \in {"establish", "config", "start", "s1"} -> Own = {} /\ nativeHandle = 0
      [] work[k].pc = "publish" -> Own = {work[k].n} /\ nativeHandle = 0
      [] OTHER -> nativeHandle # 0 /\ Own = {nativeHandle}

Exclusive ==
    ~met /\ scope # 0 =>
        /\ \A k \in Rebuilds :
             /\ work[k].pc # "none" => work[k].scope = scope
             /\ work[k].pc \notin {"s2", "s3"}
             /\ Busy(k) => Phase(k)
        /\ (\A k \in Rebuilds : ~Busy(k)) => nativeHandle # 0 /\ Own = {nativeHandle}

IInv == Typed /\ FdOwned /\ Apart /\ Alone /\ Exclusive

-----------------------------------------------------------------------------
(* What the helpers do to a rebuild *)

\* Rebuild k comes to pc, at rest once it ends; the other one stays as it is.
Moved(k, pc) ==
    /\ work' \in [Rebuilds -> Works]
    /\ work'[k].pc = pc /\ (pc = "none" => work'[k] = Resting)
    /\ \A j \in Rebuilds \ {k} : work'[j] = work[j]
\* And keeps what it holds.
Kept(k) ==
    work'[k].scope = work[k].scope /\ work'[k].old = work[k].old /\ work'[k].n = work[k].n

\* Fields a rebuild's record has.
LEMMA Fields ==
    ASSUME work \in [Rebuilds -> Works], NEW k \in Rebuilds
    PROVE  /\ work[k].pc \in WorkPcs /\ work[k].scope \in Nat /\ work[k].old \in Nat
           /\ work[k].n \in Nat
  BY DEF Works

LEMMA Goes ==
    ASSUME work \in [Rebuilds -> Works], NEW k \in Rebuilds, NEW pc \in WorkPcs \ {"none"},
           goes(k, pc)
    PROVE  Moved(k, pc) /\ Kept(k)
  <1>1. work' = [work EXCEPT ![k].pc = pc]
    BY DEF goes
  <1>2. [work[k] EXCEPT !.pc = pc] \in Works
    BY DEF Works
  <1> QED
    BY <1>1, <1>2 DEF Moved, Kept, Works

LEMMA Ends ==
    ASSUME work \in [Rebuilds -> Works], NEW k \in Rebuilds, ends(k)
    PROVE  Moved(k, "none")
  <1>1. Resting \in Works /\ Resting.pc = "none"
    BY DEF Resting, Works, WorkPcs
  <1> QED
    BY <1>1 DEF ends, Moved

\* The numbers that bound the others.
LEMMA Numbers ==
    ASSUME Typed
    PROVE  /\ MaxEvents \in Nat /\ scopes \in Nat /\ built \in Nat /\ nativeHandle \in Nat
           /\ events \in Nat /\ scopes <= events /\ events <= MaxEvents
           /\ built <= 2 * MaxEvents
  BY SessionAssumption DEF Typed, ServiceOK, UserOK, NativeOK

-----------------------------------------------------------------------------
(* The steps of a rebuild, each by what it does to the rebuild's record *)

LEMMA Begins ==
    ASSUME Typed, NEW k \in Rebuilds, WorkBegins(k)
    PROVE  /\ work[k].pc = "none"
           /\ \/ UNCHANGED work
              \/ /\ Moved(k, "wait") /\ work'[k].n = 0 /\ work'[k].old = 0
                 /\ work'[k].scope = request[k] /\ request[k] = scope
                 /\ request[k] \in Nat \ {0}
  <1>1. request[k] \in Nat \ {0} /\ work \in [Rebuilds -> Works]
    BY DEF WorkBegins, Typed, WorkOK
  <1>2. ASSUME work' = [work EXCEPT ![k] =
                          [Resting EXCEPT !.pc = "wait", !.scope = request[k]]]
        PROVE  /\ Moved(k, "wait") /\ work'[k].n = 0 /\ work'[k].old = 0
               /\ work'[k].scope = request[k]
    <2>1. Resting \in Works /\ "wait" \in WorkPcs
      BY DEF Resting, Works, WorkPcs
    <2>2. [Resting EXCEPT !.pc = "wait", !.scope = request[k]] \in Works
      BY <1>1, <2>1 DEF Works
    <2>3. Moved(k, "wait")
      BY <1>1, <1>2, <2>2 DEF Moved, Resting
    <2> QED
      BY <1>1, <1>2, <2>3 DEF Resting
  <1> QED
    BY <1>1, <1>2 DEF WorkBegins, cancelled

LEMMA Locks ==
    ASSUME Typed, NEW k \in Rebuilds, WorkLocks(k)
    PROVE  /\ work[k].pc = "wait" /\ v6Mutex(k)
           /\ Moved(k, "none") \/ (Moved(k, "old") /\ Kept(k))
  <1>1. work \in [Rebuilds -> Works] /\ work[k] \in Works
    BY DEF Typed, WorkOK
  <1>2. ASSUME ends(k) PROVE Moved(k, "none")
    BY <1>1, <1>2, Ends
  <1>3. ASSUME NEW w \in BOOLEAN, work' = [work EXCEPT ![k].pc = "old", ![k].v6 = w]
        PROVE  Moved(k, "old") /\ Kept(k)
    <2>1. [work[k] EXCEPT !.pc = "old", !.v6 = w] \in Works
      BY <1>1 DEF Works, WorkPcs
    <2> QED
      BY <1>1, <1>3, <2>1 DEF Moved, Kept, Works
  <1>4. ends(k) \/ \E w \in BOOLEAN : work' = [work EXCEPT ![k].pc = "old", ![k].v6 = w]
    <2>1. (link = "v6") \in BOOLEAN /\ tunnelHasV6 \in BOOLEAN
      BY DEF Typed, ServiceOK
    <2>2. (IF k = "v6" THEN link = "v6" ELSE tunnelHasV6) \in BOOLEAN
      BY <2>1
    <2> QED
      BY <2>2 DEF WorkLocks
  <1>5. work[k].pc = "wait" /\ v6Mutex(k)
    BY DEF WorkLocks
  <1>6. CASE \E w \in BOOLEAN : work' = [work EXCEPT ![k].pc = "old", ![k].v6 = w]
    BY <1>3, <1>5, <1>6, Zenon
  <1>7. CASE ends(k)
    BY <1>2, <1>5, <1>7
  <1> QED
    BY <1>4, <1>6, <1>7

LEMMA TakesDown ==
    ASSUME Typed, NEW k \in Rebuilds, WorkTakesDown(k)
    PROVE  /\ work'[k].scope = work[k].scope /\ work'[k].n = work[k].n
           /\ \/ /\ work[k].pc = "old" /\ UNCHANGED <<service, native>>
                 /\ Moved(k, IF nativeHandle = 0 THEN "clear" ELSE "stop")
                 /\ work'[k].old = nativeHandle
              \/ /\ work[k].pc = "stop" /\ nativeStop(work[k].old) /\ UNCHANGED service
                 /\ Moved(k, "clear") /\ Kept(k)
              \/ /\ work[k].pc = "clear" /\ handleCleared
                 /\ UNCHANGED <<running, tunnelHasV6, scope, scopes, callback, native>>
                 /\ Moved(k, "establish") /\ Kept(k)
  <1>1. work \in [Rebuilds -> Works] /\ work[k] \in Works /\ nativeHandle \in Nat
    BY Numbers DEF Typed, WorkOK
  <1>2. CASE /\ work[k].pc = "old" /\ UNCHANGED <<service, native>>
             /\ work' = [work EXCEPT ![k].old = nativeHandle,
                           ![k].pc = IF nativeHandle = 0 THEN "clear" ELSE "stop"]
    <2> DEFINE pc == IF nativeHandle = 0 THEN "clear" ELSE "stop"
    <2>1. pc \in WorkPcs \ {"none"}
      BY DEF WorkPcs
    <2>2. work' = [work EXCEPT ![k].old = nativeHandle, ![k].pc = pc]
      BY <1>2
    <2> HIDE DEF pc
    <2>3. [work[k] EXCEPT !.old = nativeHandle, !.pc = pc] \in Works
      BY <1>1, <2>1 DEF Works
    <2>4. /\ Moved(k, pc) /\ work'[k].scope = work[k].scope /\ work'[k].n = work[k].n
          /\ work'[k].old = nativeHandle
      BY <1>1, <2>1, <2>2, <2>3 DEF Moved, Works
    <2> QED
      BY <1>2, <2>4 DEF pc
  <1>3. ASSUME goes(k, "clear") PROVE Moved(k, "clear") /\ Kept(k)
    BY <1>1, <1>3, Goes DEF WorkPcs
  <1>4. ASSUME goes(k, "establish") PROVE Moved(k, "establish") /\ Kept(k)
    BY <1>1, <1>4, Goes DEF WorkPcs
  <1> QED
    BY <1>2, <1>3, <1>4 DEF WorkTakesDown, oldStopped, Kept

LEMMA Builds ==
    ASSUME Typed, NEW k \in Rebuilds, WorkBuilds(k)
    PROVE  /\ work'[k].scope = work[k].scope /\ work'[k].old = work[k].old
           /\ \/ /\ work[k].pc = "establish" /\ establishTunnel
                 /\ Moved(k, "config") /\ work'[k].n = built + 1
              \/ work[k].pc = "establish" /\ UNCHANGED native /\ Moved(k, "s1") /\ Kept(k)
              \/ work[k].pc = "config" /\ UNCHANGED native /\ Moved(k, "start") /\ Kept(k)
              \/ /\ work[k].pc = "start"
                 /\ nativeStart(work[k].n, work[k].scope, work[k].settings)
                 /\ Moved(k, "publish") /\ Kept(k)
              \/ /\ work[k].pc = "start" /\ adoptFd(work[k].n)
                 /\ UNCHANGED <<session, by, given, built, misuse>>
                 /\ Moved(k, "s1") /\ Kept(k)
  <1>1. work \in [Rebuilds -> Works] /\ work[k] \in Works /\ built \in Nat
    BY Numbers DEF Typed, WorkOK
  <1>2. ASSUME work' = [work EXCEPT ![k].pc = "config", ![k].n = built + 1]
        PROVE  /\ Moved(k, "config") /\ work'[k].n = built + 1
               /\ work'[k].scope = work[k].scope /\ work'[k].old = work[k].old
    <2>1. "config" \in WorkPcs /\ built + 1 \in Nat
      BY <1>1 DEF WorkPcs
    <2>2. [work[k] EXCEPT !.pc = "config", !.n = built + 1] \in Works
      BY <1>1, <2>1 DEF Works
    <2> QED
      BY <1>1, <1>2, <2>2 DEF Moved, Works
  <1>3. ASSUME work' = [work EXCEPT ![k].pc = "start", ![k].settings = stored["settings"]]
        PROVE  Moved(k, "start") /\ Kept(k)
    <2>1. stored["settings"] \in Int /\ "start" \in WorkPcs
      BY DEF Typed, UserOK, Pushed, WorkPcs
    <2>2. [work[k] EXCEPT !.pc = "start", !.settings = stored["settings"]] \in Works
      BY <1>1, <2>1 DEF Works
    <2> QED
      BY <1>1, <1>3, <2>2 DEF Moved, Kept, Works
  <1>4. ASSUME goes(k, "publish") PROVE Moved(k, "publish") /\ Kept(k)
    BY <1>1, <1>4, Goes DEF WorkPcs
  <1>5. ASSUME goes(k, "s1") PROVE Moved(k, "s1") /\ Kept(k)
    BY <1>1, <1>5, Goes DEF WorkPcs
  <1> QED
    BY <1>2, <1>3, <1>4, <1>5 DEF WorkBuilds, Kept

LEMMA Publishes ==
    ASSUME Typed, NEW k \in Rebuilds, WorkPublishes(k)
    PROVE  Moved(k, "first") /\ Kept(k)
  BY Goes DEF Typed, WorkOK, WorkPublishes, WorkPcs

LEMMA Reapplies ==
    ASSUME Typed, NEW k \in Rebuilds, WorkReapplies(k)
    PROVE  /\ work[k].pc \in {"first", "push"}
           /\ \/ Moved(k, "none")
              \/ work[k].pc = "first" /\ Moved(k, "push") /\ Kept(k)
           /\ UNCHANGED <<session, by, tunnels, built>>
  <1>1. work \in [Rebuilds -> Works] /\ work[k] \in Works
    BY DEF Typed, WorkOK
  <1>2. ASSUME ends(k) PROVE Moved(k, "none")
    BY <1>1, <1>2, Ends
  <1>3. ASSUME work' = [work EXCEPT ![k].pc = "push", ![k].rules = stored["rules"]]
        PROVE  Moved(k, "push") /\ Kept(k)
    <2>1. stored["rules"] \in Int /\ "push" \in WorkPcs
      BY DEF Typed, UserOK, Pushed, WorkPcs
    <2>2. [work[k] EXCEPT !.pc = "push", !.rules = stored["rules"]] \in Works
      BY <1>1, <2>1 DEF Works
    <2> QED
      BY <1>1, <1>3, <2>2 DEF Moved, Kept, Works
  <1>4. UNCHANGED <<session, by, tunnels, built>>
    BY DEF WorkReapplies, reapplyNativeState, nativeUpdate, native
  <1> QED
    BY <1>2, <1>3, <1>4 DEF WorkReapplies, reapplyNativeState

LEMMA Stops ==
    ASSUME Typed, NEW k \in Rebuilds, WorkStops(k)
    PROVE  \/ work[k].pc = "s1" /\ stopService /\ UNCHANGED native /\ Moved(k, "s2") /\ Kept(k)
           \/ /\ work[k].pc = "s2" /\ stopNative /\ UNCHANGED service
              /\ Moved(k, "s3") /\ Kept(k)
           \/ work[k].pc = "s2" /\ stopNothing /\ UNCHANGED service /\ Moved(k, "none")
           \/ work[k].pc = "s3" /\ stopHandle /\ UNCHANGED native /\ Moved(k, "none")
  <1>1. work \in [Rebuilds -> Works]
    BY DEF Typed, WorkOK
  <1>2. ASSUME ends(k) PROVE Moved(k, "none")
    BY <1>1, <1>2, Ends
  <1>3. ASSUME NEW pc \in {"s2", "s3"}, goes(k, pc) PROVE Moved(k, pc) /\ Kept(k)
    BY <1>1, <1>3, Goes DEF WorkPcs
  <1> QED
    BY <1>2, <1>3 DEF WorkStops

-----------------------------------------------------------------------------
(* Types: what a rebuild holds *)

\* A step that leaves the rebuilds alone.
LEMMA WorkFrame ==
    ASSUME WorkOK, UNCHANGED <<request, work>>,
           scopes \in Nat, scopes' \in Nat, scopes' >= scopes,
           built \in Nat, built' \in Nat, built' >= built
    PROVE  WorkOK'
  <1> USE DEF WorkOK
  <1>1. \A k \in Rebuilds :
          /\ request[k] \in Nat /\ work[k].scope \in Nat
          /\ work[k].n \in Nat /\ work[k].old \in Nat
    BY Fields
  <1> QED
    BY <1>1

\* A step of rebuild k.
LEMMA WorkFrameOf ==
    ASSUME WorkOK, NEW k \in Rebuilds, NEW pc, Moved(k, pc),
           request' \in [Rebuilds -> Nat],
           \A j \in Rebuilds : request'[j] = request[j] \/ request'[j] = 0,
           UNCHANGED scopes, scopes \in Nat,
           built \in Nat, built' \in Nat, built' >= built,
           pc # "none" => /\ work'[k].scope <= scopes /\ work'[k].n <= built'
                          /\ work'[k].old <= built /\ work'[k].scope >= 1,
           pc = "stop" => work'[k].old >= 1,
           pc \in Built => work'[k].n >= 1
    PROVE  WorkOK'
  <1> USE DEF WorkOK, Moved
  <1>1. \A j \in Rebuilds :
          /\ request[j] \in Nat /\ work[j].scope \in Nat
          /\ work[j].n \in Nat /\ work[j].old \in Nat
    BY Fields
  <1>2. work'[k].old \in Nat
    BY DEF Works
  <1>3. /\ work'[k].scope <= scopes /\ work'[k].n <= built' /\ work'[k].old <= built
    BY DEF Resting
  <1>4. ASSUME NEW j \in Rebuilds
        PROVE  /\ request'[j] <= scopes' /\ work'[j].scope <= scopes'
               /\ work'[j].n <= built' /\ work'[j].old <= built'
               /\ work'[j].pc # "none" => work'[j].scope >= 1
               /\ work'[j].pc = "stop" => work'[j].old >= 1
               /\ work'[j].pc \in Built => work'[j].n >= 1
    <2>1. request'[j] <= scopes'
      BY <1>1
    <2>2. CASE j = k
      BY <2>1, <2>2, <1>2, <1>3
    <2>3. CASE j # k
      BY <2>1, <2>3, <1>1
    <2> QED
      BY <2>2, <2>3
  <1> QED
    BY <1>4

LEMMA WorkOKNext ==
    ASSUME Typed, Next
    PROVE  WorkOK'
  <1>1. WorkOK /\ request \in [Rebuilds -> Nat]
    BY DEF Typed, WorkOK
  <1> USE <1>1, Numbers
  <1>2. \A k \in Rebuilds :
          /\ request[k] <= scopes /\ work[k].scope <= scopes /\ work[k].n <= built
          /\ work[k].old <= built /\ work[k].n \in Nat /\ work[k].old \in Nat
          /\ work[k].pc # "none" => work[k].scope >= 1
          /\ work[k].pc \in Built => work[k].n >= 1
    BY Fields DEF WorkOK
  <1>3. CASE \/ StartCommand \/ StartConfig \/ StartNative \/ StopCommand \/ onDestroy
             \/ MainStops \/ \E s \in Scopes, c \in Pushed : Collector(s, c)
             \/ NetworkChanges \/ \E c \in Pushed : Stores(c)
    <2>1. UNCHANGED <<request, work>>
      BY <1>3 DEF StartCommand, StartConfig, StartNative, StopCommand, onDestroy, MainStops,
                  Collector, Collects, Resolves, Pushes, NetworkChanges, Stores
    <2>2. scopes' \in {scopes, scopes + 1} /\ built' \in {built, built + 1}
      BY <1>3 DEF StartCommand, StartConfig, StartNative, StopCommand, onDestroy, MainStops,
                  Collector, Collects, Resolves, Pushes, NetworkChanges, Stores, establishTunnel,
                  nativeStart, adoptFd, nativeStop, nativeUpdate, stopService, stopNative,
                  stopNothing, stopHandle, service, native
    <2> QED
      BY <2>1, <2>2, WorkFrame
  <1>4. ASSUME NetworkCallback \/ ProxyChanges
        PROVE  WorkOK'
    <2>1. UNCHANGED <<work, scopes, built>>
      BY <1>4 DEF NetworkCallback, ProxyChanges, service, native
    <2>2. scope \in 0..scopes
      BY DEF Typed, ServiceOK
    <2>3. request' = request \/ \E k \in Rebuilds : request' = [request EXCEPT ![k] = scope]
      BY <1>4 DEF NetworkCallback, ProxyChanges, Rebuilds
    <2> QED
      BY <2>1, <2>2, <2>3, Fields DEF WorkOK
  <1>5. ASSUME NEW k \in Rebuilds, WorkBegins(k)
        PROVE  WorkOK'
    <2>1. /\ UNCHANGED <<scopes, built>> /\ request' \in [Rebuilds -> Nat]
          /\ \A j \in Rebuilds : request'[j] = request[j] \/ request'[j] = 0
      BY <1>5 DEF WorkBegins, service, native
    <2>2. CASE UNCHANGED work
      BY <2>1, <2>2, <1>2, Fields DEF WorkOK
    <2>3. CASE /\ Moved(k, "wait") /\ work'[k].n = 0 /\ work'[k].old = 0
               /\ work'[k].scope = request[k] /\ request[k] \in Nat \ {0}
      BY <1>2, <2>1, <2>3, WorkFrameOf DEF Built, Building
    <2> QED
      BY <1>5, <2>2, <2>3, Begins
  <1>6. ASSUME NEW k \in Rebuilds, WorkLocks(k)
        PROVE  WorkOK'
    <2>1. UNCHANGED <<request, scopes, built>>
      BY <1>6 DEF WorkLocks, service, native
    <2> QED
      BY <1>2, <1>6, <2>1, Locks, WorkFrameOf DEF Kept, Built, Building
  <1>7. ASSUME NEW k \in Rebuilds, WorkTakesDown(k)
        PROVE  WorkOK'
    <2>1. UNCHANGED <<request, scopes, built>>
      BY <1>7 DEF WorkTakesDown, oldStopped, nativeStop, service, native
    <2>2. nativeHandle <= built
      BY DEF Typed, ServiceOK
    <2> QED
      BY <1>2, <1>7, <2>1, <2>2, TakesDown, WorkFrameOf DEF Kept, Built, Building
  <1>8. ASSUME NEW k \in Rebuilds, WorkBuilds(k)
        PROVE  WorkOK'
    <2>1. UNCHANGED <<request, scopes>>
      BY <1>8 DEF WorkBuilds, service
    <2>2. CASE /\ work[k].pc = "establish" /\ establishTunnel
               /\ Moved(k, "config") /\ work'[k].n = built + 1
      BY <1>2, <1>8, <2>1, <2>2, Builds, WorkFrameOf DEF establishTunnel
    <2>3. CASE \E pc \in {"s1", "start", "publish"} : Moved(k, pc) /\ Kept(k) /\ UNCHANGED built
               /\ work[k].pc # "none" /\ (pc # "s1" => work[k].pc \in Building)
      BY <1>2, <2>1, <2>3, WorkFrameOf DEF Kept, Built, Building
    <2> QED
      BY <1>8, <2>2, <2>3, Builds DEF nativeStart, adoptFd, native, Building
  <1>9. ASSUME NEW k \in Rebuilds, WorkPublishes(k)
        PROVE  WorkOK'
    BY <1>2, <1>9, Publishes, WorkFrameOf DEF WorkPublishes, Kept, Built, native
  <1>10. ASSUME NEW k \in Rebuilds, WorkReapplies(k)
         PROVE  WorkOK'
    <2>1. UNCHANGED <<request, scopes>>
      BY <1>10 DEF WorkReapplies, service
    <2>2. UNCHANGED built
      BY <1>10, Reapplies
    <2>3. CASE Moved(k, "none")
      BY <1>2, <2>1, <2>2, <2>3, WorkFrameOf DEF Built, Building
    <2>4. CASE work[k].pc = "first" /\ Moved(k, "push") /\ Kept(k)
      BY <1>2, <2>1, <2>2, <2>4, WorkFrameOf DEF Kept, Built
    <2> QED
      BY <1>10, <2>3, <2>4, Reapplies
  <1>11. ASSUME NEW k \in Rebuilds, WorkStops(k)
         PROVE  WorkOK'
    <2>1. UNCHANGED <<request, scopes, built>>
      BY <1>11 DEF WorkStops, stopService, stopNative, nativeStop, stopNothing, stopHandle,
                   service, native
    <2> QED
      BY <1>2, <1>11, <2>1, Stops, WorkFrameOf DEF Kept, Built, Building
  <1> QED
    BY <1>3, <1>4, <1>5, <1>6, <1>7, <1>8, <1>9, <1>10, <1>11
    DEF Next, System, MainContinues, Work

-----------------------------------------------------------------------------
(* Types: the service, its main thread, the user *)

LEMMA ServiceOKNext ==
    ASSUME Typed, Next
    PROVE  ServiceOK'
  <1> USE Numbers DEF ServiceOK
  <1>0. ServiceOK
    BY DEF Typed
  <1>1. CASE UNCHANGED service /\ UNCHANGED life /\ built' >= built /\ built' \in Nat
    BY <1>0, <1>1 DEF service, life
  <1>2. ASSUME StartCommand PROVE ServiceOK'
    <2>1. UNCHANGED <<service, gone, met>> /\ leaving' = FALSE
      BY <1>2 DEF StartCommand
    <2>2. built' \in Nat /\ built' >= built
      BY <1>2 DEF StartCommand, establishTunnel, native
    <2>3. leaving' \in BOOLEAN /\ gone' \in BOOLEAN /\ met' \in BOOLEAN
      BY <1>0, <2>1
    <2>4. nativeHandle' \in 0..built' /\ holder' \in 0..built'
      BY <1>0, <2>1, <2>2 DEF service
    <2> QED
      BY <1>0, <2>1, <2>3, <2>4 DEF service
  <1>3. ASSUME StartNative PROVE ServiceOK'
    <2>1. CASE UNCHANGED service
      BY <1>0, <1>3, <2>1 DEF StartNative, nativeStart, adoptFd, service
    <2>2. CASE /\ running' = TRUE /\ nativeHandle' = main.n /\ holder' = main.n
               /\ tunnelHasV6' = main.v6 /\ scopes' = scopes + 1 /\ scope' = scopes + 1
               /\ callback' = "owing" /\ UNCHANGED built
      <3>1. main.n \in 0..built /\ main.v6 \in BOOLEAN
        BY DEF Typed, MainOK, Mains
      <3>2. met' \in BOOLEAN /\ leaving' \in BOOLEAN /\ gone' \in BOOLEAN
        BY <1>0, <1>3 DEF StartNative, adoptFd
      <3> QED
        BY <1>0, <2>2, <3>1, <3>2
    <2> QED
      BY <1>3, <2>1, <2>2 DEF StartNative, nativeStart, adoptFd
  <1>4. ASSUME onDestroy PROVE ServiceOK'
    BY <1>0, <1>4 DEF onDestroy, service, native
  <1>5. ASSUME stopService, UNCHANGED <<life, built>> PROVE ServiceOK'
    <2>1. running' \in BOOLEAN /\ tunnelHasV6' \in BOOLEAN
      BY <1>5 DEF stopService
    <2>2. nativeHandle' \in 0..built' /\ holder' \in 0..built'
      BY <1>0, <1>5 DEF stopService
    <2>3. running' = FALSE /\ callback' = "off" /\ scope' = 0 /\ UNCHANGED <<scopes, life>>
      BY <1>5 DEF stopService
    <2> QED
      BY <1>0, <2>1, <2>2, <2>3 DEF life
  <1>6. ASSUME stopNothing, UNCHANGED service PROVE ServiceOK'
    BY <1>0, <1>6 DEF stopNothing, service, native
  <1>7. ASSUME stopNative, UNCHANGED service PROVE ServiceOK'
    BY <1>1, <1>7 DEF stopNative, nativeStop
  <1>8. ASSUME stopHandle, UNCHANGED built PROVE ServiceOK'
    BY <1>0, <1>8 DEF stopHandle
  <1>9. ASSUME MainStops PROVE ServiceOK'
    BY <1>5, <1>6, <1>7, <1>8, <1>9 DEF MainStops, native
  <1>10. ASSUME NEW k \in Rebuilds, WorkStops(k) PROVE ServiceOK'
    BY <1>5, <1>6, <1>7, <1>8, <1>10 DEF WorkStops, native
  <1>11. ASSUME NetworkCallback PROVE ServiceOK'
    BY <1>0, <1>11 DEF NetworkCallback, life, native
  <1>12. ASSUME NEW k \in Rebuilds, WorkTakesDown(k) PROVE ServiceOK'
    BY <1>0, <1>1, <1>12 DEF WorkTakesDown, oldStopped, nativeStop, handleCleared, life, native
  <1>13. ASSUME NEW k \in Rebuilds, WorkPublishes(k) PROVE ServiceOK'
    <2>1. work[k].n \in 0..built /\ work[k].v6 \in BOOLEAN
      <3>1. WorkOK /\ work[k].n \in Nat
        BY Fields DEF Typed, WorkOK
      <3>2. work[k] \in Works
        BY <3>1 DEF WorkOK
      <3> QED
        BY <3>1, <3>2 DEF WorkOK, Works
    <2> QED
      BY <1>0, <1>13, <2>1 DEF WorkPublishes, life, native
  <1>14. ASSUME NetworkChanges PROVE ServiceOK'
    BY <1>0, <1>14 DEF NetworkChanges, life, native
  <1>15. ASSUME NEW k \in Rebuilds,
                WorkBegins(k) \/ WorkLocks(k) \/ WorkBuilds(k) \/ WorkReapplies(k)
         PROVE  ServiceOK'
    BY <1>1, <1>15 DEF WorkBegins, WorkLocks, WorkBuilds, WorkReapplies, establishTunnel,
                       nativeStart, adoptFd, reapplyNativeState, nativeUpdate, native
  <1>16. ASSUME NEW s \in Scopes, NEW c \in Pushed, Collector(s, c) PROVE ServiceOK'
    BY <1>1, <1>16 DEF Collector, Collects, Resolves, Pushes, nativeUpdate, native
  <1>17. ASSUME StartConfig \/ StopCommand \/ ProxyChanges \/ \E c \in Pushed : Stores(c)
         PROVE  ServiceOK'
    BY <1>1, <1>17 DEF StartConfig, StopCommand, ProxyChanges, Stores, native
  <1> QED
    BY <1>2, <1>3, <1>4, <1>9, <1>10, <1>11, <1>12, <1>13, <1>14, <1>15, <1>16, <1>17
    DEF Next, System, MainContinues, Work

LEMMA UserOKNext ==
    ASSUME Typed, Next
    PROVE  UserOK'
  <1> USE Numbers, SessionAssumption DEF UserOK
  <1>0. UserOK
    BY DEF Typed
  <1>1. ASSUME NEW c \in Pushed, Stores(c) PROVE UserOK'
    BY <1>0, <1>1 DEF Stores, Happens, service
  <1>2. ASSUME StartNative PROVE UserOK'
    <2>1. main.pc = "start" => scopes < events
      BY DEF Typed, MainOK, Building
    <2> QED
      BY <1>0, <1>2, <2>1 DEF StartNative, adoptFd, user, service
  <1>3. ASSUME StartCommand \/ StopCommand \/ NetworkChanges \/ ProxyChanges
        PROVE  UserOK'
    BY <1>0, <1>3 DEF StartCommand, StopCommand, NetworkChanges, ProxyChanges, Happens, service
  <1>4. CASE UNCHANGED user /\ UNCHANGED scopes
    BY <1>0, <1>4 DEF user
  <1>5. ASSUME NEW k \in Rebuilds, Work(k) PROVE UserOK'
    BY <1>4, <1>5 DEF Work, WorkBegins, WorkLocks, WorkTakesDown, oldStopped, WorkBuilds,
                      WorkPublishes, WorkReapplies, WorkStops, stopService, stopNative, stopNothing,
                      stopHandle, service
  <1>6. ASSUME NEW s \in Scopes, NEW c \in Pushed, Collector(s, c) PROVE UserOK'
    BY <1>4, <1>6 DEF Collector, Collects, Resolves, Pushes, service
  <1>7. ASSUME StartConfig \/ onDestroy \/ MainStops \/ NetworkCallback PROVE UserOK'
    BY <1>4, <1>7 DEF StartConfig, onDestroy, MainStops, NetworkCallback, stopService, stopHandle,
                      service
  <1> QED
    BY <1>1, <1>2, <1>3, <1>5, <1>6, <1>7 DEF Next, System, MainContinues

\* The main thread's step and what a build of it needs.
LEMMA MainOKNext ==
    ASSUME Typed, Next
    PROVE  MainOK'
  <1> USE Numbers DEF Building
  <1>0. MainOK /\ main \in Mains /\ main.n \in Nat /\ main.n <= built
    BY DEF Typed, MainOK, Mains
  <1>1. Idle \in Mains /\ Idle.n = 0 /\ Idle.pc = "idle"
    BY DEF Idle, Mains, MainPcs
  <1>2. ASSUME NEW pc \in MainPcs, mainGoes(pc),
               built' \in Nat, built' >= built,
               pc \in Building => main.n >= 1 /\ ~running' /\ scopes' < events',
               pc \in {"s2", "s3"} => ~running'
        PROVE  MainOK'
    <2>1. main' = [main EXCEPT !.pc = pc]
      BY <1>2 DEF mainGoes
    <2>2. main' \in Mains /\ main'.pc = pc /\ main'.n = main.n
      BY <1>0, <2>1 DEF Mains
    <2> QED
      BY <1>0, <1>2, <2>2 DEF MainOK
  <1>3. ASSUME main' = Idle, built' \in Nat, built' >= built PROVE MainOK'
    BY <1>1, <1>3 DEF MainOK
  <1>4. ASSUME UNCHANGED main, built' \in Nat, built' >= built, UNCHANGED scopes, events' >= events,
               events' \in Nat, ~running => ~running'
        PROVE  MainOK'
    BY <1>0, <1>4 DEF MainOK
  <1>5. ASSUME StartCommand PROVE MainOK'
    <2>1. events' = events + 1 /\ UNCHANGED service
      BY <1>5 DEF StartCommand, Happens
    <2>2. CASE UNCHANGED <<main, native>>
      BY <2>1, <2>2, <1>4 DEF native, service
    <2>3. CASE ~running /\ built' = built + 1
               /\ main' = [Idle EXCEPT !.pc = "config", !.v6 = (link = "v6"), !.n = built + 1]
      <3>1. main' \in Mains /\ main'.pc = "config" /\ main'.n = built + 1
        <4>1. "config" \in MainPcs /\ (link = "v6") \in BOOLEAN /\ built + 1 \in Nat
          BY DEF MainPcs
        <4>2. ASSUME NEW v \in BOOLEAN, NEW n \in Nat
              PROVE  LET m == [Idle EXCEPT !.pc = "config", !.v6 = v, !.n = n]
                     IN  m \in Mains /\ m.pc = "config" /\ m.n = n
          BY <4>1, <1>1 DEF Mains
        <4> QED
          BY <2>3, <4>1, <4>2
      <3> QED
        BY <2>1, <2>3, <3>1 DEF MainOK, service
    <2>4. CASE mainGoes("s1") /\ UNCHANGED native
      BY <2>4, <1>2 DEF MainPcs, native
    <2> QED
      BY <1>5, <2>2, <2>3, <2>4 DEF StartCommand, establishTunnel
  <1>6. ASSUME StartConfig PROVE MainOK'
    <2>1. stored["settings"] \in Int
      BY DEF Typed, UserOK, Pushed
    <2>2. main' = [main EXCEPT !.pc = "start", !.settings = stored["settings"]]
      BY <1>6 DEF StartConfig
    <2>3. main' \in Mains /\ main'.pc = "start" /\ main'.n = main.n
      <3>1. "start" \in MainPcs
        BY DEF MainPcs
      <3> QED
        BY <1>0, <2>1, <2>2, <3>1 DEF Mains
    <2>4. main.n >= 1 /\ ~running /\ scopes < events
      BY <1>0, <1>6 DEF StartConfig, MainOK
    <2> QED
      BY <1>0, <1>6, <2>3, <2>4 DEF StartConfig, MainOK, service, native, user
  <1>7. ASSUME StartNative PROVE MainOK'
    BY <1>2, <1>3, <1>7 DEF StartNative, nativeStart, adoptFd, MainPcs
  <1>8. ASSUME StopCommand \/ onDestroy PROVE MainOK'
    BY <1>2, <1>8 DEF StopCommand, onDestroy, MainPcs, native
  <1>9. ASSUME MainStops PROVE MainOK'
    <2>1. main.pc \in {"s2", "s3"} => ~running
      BY <1>0 DEF MainOK
    <2> QED
      BY <1>2, <1>3, <1>9, <2>1
      DEF MainStops, MainPcs, stopService, stopNative, nativeStop, stopNothing, service, native
  <1>10. ASSUME NetworkCallback \/ NetworkChanges \/ ProxyChanges \/ \E c \in Pushed : Stores(c)
         PROVE  MainOK'
    BY <1>4, <1>10 DEF NetworkCallback, NetworkChanges, ProxyChanges, Stores, Happens, native, user,
                       service
  <1>11. ASSUME NEW k \in Rebuilds, Work(k) PROVE MainOK'
    <2>1. UNCHANGED <<main, scopes, events>> /\ (~running => ~running')
      BY <1>11 DEF Work, WorkBegins, WorkLocks, WorkTakesDown, oldStopped, WorkBuilds,
                   WorkPublishes, WorkReapplies, WorkStops, stopService, stopNative, stopNothing,
                   stopHandle, service, user
    <2>2. built' \in {built, built + 1}
      BY <1>11 DEF Work, WorkBegins, WorkLocks, WorkTakesDown, oldStopped, WorkBuilds,
                   WorkPublishes, WorkReapplies, WorkStops, stopService, stopNative, stopNothing,
                   stopHandle, nativeStop, nativeStart, nativeUpdate, adoptFd, establishTunnel,
                   reapplyNativeState, native
    <2> QED
      BY <1>4, <2>1, <2>2
  <1>12. ASSUME NEW s \in Scopes, NEW c \in Pushed, Collector(s, c) PROVE MainOK'
    BY <1>4, <1>12 DEF Collector, Collects, Resolves, Pushes, nativeUpdate, service, native, user
  <1> QED
    BY <1>5, <1>6, <1>7, <1>8, <1>9, <1>10, <1>11, <1>12 DEF Next, System, MainContinues

-----------------------------------------------------------------------------
(* Types: the collectors and the native sessions *)

LEMMA CollectorOKNext ==
    ASSUME Typed, Next
    PROVE  CollectorOK'
  <1> USE Numbers DEF CollectorOK
  <1>0. CollectorOK
    BY DEF Typed
  <1>1. ASSUME UNCHANGED collector, scopes' \in Nat, scopes' >= scopes PROVE CollectorOK'
    BY <1>0, <1>1 DEF Scopes
  <1>2. ASSUME NEW s \in Scopes, NEW c \in Pushed, NEW r \in Collecting, UNCHANGED scopes,
               collector' = [collector EXCEPT ![s][c] = r],
               r.pc # "none" => collector[s][c].pc # "none"
        PROVE  CollectorOK'
    BY <1>0, <1>2
  <1>3. ASSUME NEW s \in Scopes, NEW c \in Pushed, Collector(s, c) PROVE CollectorOK'
    <2>1. /\ collector[s][c] \in Collecting /\ collector[s][c].h \in Nat
          /\ stored[c] \in Int /\ UNCHANGED scopes
      BY <1>0, <1>3 DEF Typed, UserOK, Collecting, Collector, Collects, Resolves, Pushes, service
    <2>2. CASE Collects(s, c)
      <3> DEFINE r == [seen |-> stored[c], h |-> nativeHandle,
                       pc |-> IF nativeHandle = 0 THEN "idle"
                              ELSE IF c = "settings" THEN "resolve" ELSE "push"]
      <3>1. r \in Collecting
        BY <2>1 DEF Collecting
      <3> QED
        BY <1>2, <2>1, <2>2, <3>1 DEF Collects
    <2>3. CASE Resolves(s, c)
      <3>1. PICK pc \in {"none", "push"} : collector' = [collector EXCEPT ![s][c].pc = pc]
        BY <2>3 DEF Resolves
      <3>2. [collector[s][c] EXCEPT !.pc = pc] \in Collecting
        BY <2>1 DEF Collecting
      <3>3. collector' = [collector EXCEPT ![s][c] = [collector[s][c] EXCEPT !.pc = pc]]
        BY <3>1
      <3> QED
        BY <1>2, <2>1, <2>3, <3>2, <3>3 DEF Resolves
    <2>4. CASE Pushes(s, c)
      <3>1. [collector[s][c] EXCEPT !.pc = "idle", !.h = 0] \in Collecting
        BY <2>1 DEF Collecting
      <3>2. collector' = [collector EXCEPT ![s][c] =
                            [collector[s][c] EXCEPT !.pc = "idle", !.h = 0]]
        BY <1>0, <2>1, <2>4 DEF Pushes
      <3> QED
        <4>1. collector[s][c].pc # "none"
          BY <2>4 DEF Pushes
        <4> QED
          BY <1>2, <2>1, <3>1, <3>2, <4>1
    <2> QED
      BY <1>3, <2>2, <2>3, <2>4 DEF Collector
  <1>4. ASSUME StartNative PROVE CollectorOK'
    <2>1. CASE UNCHANGED <<service, collector>>
      BY <1>1, <2>1 DEF service
    <2>2. CASE /\ scopes' = scopes + 1
               /\ collector' = [collector EXCEPT ![scopes + 1] =
                                  [c \in Pushed |-> [Quiet EXCEPT !.pc = "idle"]]]
      <3>1. [Quiet EXCEPT !.pc = "idle"] \in Collecting
        BY DEF Quiet, Collecting
      <3>2. \A s \in Scopes : s <= scopes' <=> s <= scopes \/ s = scopes + 1
        BY <2>2 DEF Scopes
      <3> QED
        BY <1>0, <2>2, <3>1, <3>2
    <2> QED
      BY <1>4, <2>1, <2>2 DEF StartNative
  <1>5. ASSUME NEW k \in Rebuilds, Work(k) PROVE CollectorOK'
    BY <1>1, <1>5 DEF Work, WorkBegins, WorkLocks, WorkTakesDown, oldStopped, WorkBuilds,
                      WorkPublishes, WorkReapplies, WorkStops, stopService, stopHandle, service
  <1>6. ASSUME \/ StartCommand \/ StartConfig \/ StopCommand \/ onDestroy \/ MainStops
               \/ NetworkCallback \/ NetworkChanges \/ ProxyChanges \/ \E c \in Pushed : Stores(c)
        PROVE  CollectorOK'
    BY <1>1, <1>6 DEF StartCommand, StartConfig, StopCommand, onDestroy, MainStops, stopService,
                      stopHandle, NetworkCallback, NetworkChanges, ProxyChanges, Stores, service
  <1> QED
    BY <1>3, <1>4, <1>5, <1>6 DEF Next, System, MainContinues

\* nativeStart, nativeStop and establishTunnel on a tunnel that was built.
LEMMA NativeStarts ==
    ASSUME Typed, NEW n \in 1..built, NEW s \in 1..scopes', NEW v, nativeStart(n, s, v),
           scopes' \in Nat, scopes' >= scopes
    PROVE  NativeOK'
  <1>1. NativeOK /\ n \in Sessions /\ s \in Nat
    BY Numbers DEF Typed, Sessions
  <1>2. session' \in [Sessions -> {"none", "live", "freed"}] /\ by' \in [Sessions -> Nat]
    BY <1>1 DEF NativeOK, nativeStart
  <1> QED
    BY <1>1, <1>2, Numbers DEF NativeOK, nativeStart

LEMMA NativeStops ==
    ASSUME Typed, NEW n \in 1..built, nativeStop(n), UNCHANGED scopes
    PROVE  NativeOK'
  <1>1. NativeOK /\ n \in Sessions
    BY Numbers DEF Typed, Sessions
  <1> QED
    BY <1>1, Numbers DEF NativeOK, nativeStop

LEMMA NativeOKNext ==
    ASSUME Typed, Next
    PROVE  NativeOK'
  <1> USE Numbers
  <1>0. NativeOK /\ nativeHandle \in 0..built
    BY DEF Typed, ServiceOK
  <1>1. ASSUME UNCHANGED native, scopes' \in Nat, scopes' >= scopes PROVE NativeOK'
    BY <1>0, <1>1 DEF NativeOK, native
  <1>2. ASSUME establishTunnel, UNCHANGED scopes PROVE NativeOK'
    <2>1. UNCHANGED <<session, by, misuse, scopes>> /\ built' = built + 1
      BY <1>2 DEF establishTunnel
    <2>2. built' \in 0..(2 * MaxEvents) /\ tunnels' \subseteq 1..built'
      BY <1>0, <1>2 DEF NativeOK, establishTunnel
    <2> QED
      BY <1>0, <2>1, <2>2 DEF NativeOK, Sessions
  <1>3. ASSUME NEW n, adoptFd(n), UNCHANGED <<session, by, given, built, misuse, scopes>>
        PROVE  NativeOK'
    BY <1>0, <1>3 DEF NativeOK, adoptFd
  <1>4. ASSUME NEW n, NEW c, NEW v, nativeUpdate(n, c, v), UNCHANGED scopes PROVE NativeOK'
    BY <1>0, <1>4 DEF NativeOK, nativeUpdate
  <1>5. ASSUME stopNative, UNCHANGED scopes PROVE NativeOK'
    BY <1>0, <1>5, NativeStops DEF stopNative
  <1>6. ASSUME StartCommand PROVE NativeOK'
    BY <1>1, <1>2, <1>6 DEF StartCommand, service
  <1>7. ASSUME StartNative PROVE NativeOK'
    <2>1. main.n \in 1..built
      BY <1>7 DEF StartNative, Typed, MainOK, Mains, Building
    <2>2. CASE nativeStart(main.n, scopes + 1, main.settings) /\ scopes' = scopes + 1
      BY <2>1, <2>2, NativeStarts
    <2>3. CASE adoptFd(main.n) /\ UNCHANGED <<session, by, given, built, misuse, service>>
      BY <1>3, <2>3 DEF service
    <2> QED
      BY <1>7, <2>2, <2>3 DEF StartNative
  <1>8. ASSUME MainStops PROVE NativeOK'
    BY <1>1, <1>5, <1>8 DEF MainStops, stopService, stopNothing, stopHandle, service
  <1>9. ASSUME NEW k \in Rebuilds, WorkTakesDown(k) PROVE NativeOK'
    <2>1. work[k].pc = "stop" => work[k].old \in 1..built
      BY Fields DEF Typed, WorkOK
    <2>2. UNCHANGED scopes
      BY <1>9 DEF WorkTakesDown, service
    <2> QED
      BY <1>1, <1>9, <2>1, <2>2, NativeStops DEF WorkTakesDown, oldStopped
  <1>10. ASSUME NEW k \in Rebuilds, WorkBuilds(k) PROVE NativeOK'
    <2>1. work[k].pc = "start" => work[k].n \in 1..built /\ work[k].scope \in 1..scopes
      BY Fields DEF Typed, WorkOK, Built, Building
    <2>2. UNCHANGED scopes
      BY <1>10 DEF WorkBuilds, service
    <2> QED
      BY <1>1, <1>2, <1>3, <1>10, <2>1, <2>2, NativeStarts DEF WorkBuilds
  <1>11. ASSUME NEW k \in Rebuilds, WorkStops(k) PROVE NativeOK'
    BY <1>1, <1>5, <1>11 DEF WorkStops, stopService, stopNothing, stopHandle, service
  <1>12. ASSUME NEW k \in Rebuilds, WorkReapplies(k) PROVE NativeOK'
    BY <1>1, <1>4, <1>12 DEF WorkReapplies, reapplyNativeState, service
  <1>13. ASSUME NEW k \in Rebuilds, WorkBegins(k) \/ WorkLocks(k) \/ WorkPublishes(k)
         PROVE  NativeOK'
    BY <1>1, <1>13 DEF WorkBegins, WorkLocks, WorkPublishes, service
  <1>14. ASSUME NEW s \in Scopes, NEW c \in Pushed, Collector(s, c) PROVE NativeOK'
    BY <1>1, <1>4, <1>14 DEF Collector, Collects, Resolves, Pushes, service
  <1>15. ASSUME \/ StartConfig \/ StopCommand \/ onDestroy \/ NetworkCallback \/ NetworkChanges
                \/ ProxyChanges \/ \E c \in Pushed : Stores(c)
         PROVE  NativeOK'
    BY <1>1, <1>15 DEF StartConfig, StopCommand, onDestroy, NetworkCallback, NetworkChanges,
                       ProxyChanges, Stores, service
  <1> QED
    BY <1>6, <1>7, <1>8, <1>9, <1>10, <1>11, <1>12, <1>13, <1>14, <1>15
    DEF Next, System, MainContinues, Work

LEMMA TypedNext ==
    ASSUME Typed, Next
    PROVE  Typed'
  BY WorkOKNext, ServiceOKNext, UserOKNext, MainOKNext, CollectorOKNext, NativeOKNext DEF Typed

-----------------------------------------------------------------------------
(* Descriptors have owners *)

Owned == FdOwned /\ Apart

\* Who has descriptor n.
Owner(n) ==
    \/ n \in Live
    \/ \E k \in Rebuilds : work[k].pc \in Building /\ work[k].n = n
    \/ main.pc \in Building /\ main.n = n

LEMMA OwnersExactly == FdOwned <=> \A n : n \in tunnels <=> Owner(n)
  BY DEF FdOwned, Owner, Building

LEMMA OwnersExactlyNext == FdOwned' <=> \A n : n \in tunnels' <=> Owner(n)'
  BY DEF FdOwned, Owner, Building

\* The builds under way stay as they are.
BuildsKept ==
    /\ \A k \in Rebuilds : /\ work'[k].pc \in Building <=> work[k].pc \in Building
                           /\ work[k].pc \in Building => work'[k].n = work[k].n
    /\ main'.pc \in Building <=> main.pc \in Building
    /\ main.pc \in Building => main'.n = main.n

LEMMA OwnedFrame ==
    ASSUME Owned, BuildsKept, UNCHANGED <<session, tunnels>>
    PROVE  Owned'
  <1>1. UNCHANGED Live
    BY DEF Live
  <1>2. \A n : Owner(n)' <=> Owner(n)
    BY <1>1 DEF Owner, BuildsKept
  <1>3. FdOwned'
    BY <1>2, OwnersExactly, OwnersExactlyNext DEF Owned
  <1>4. Apart'
    BY <1>1 DEF Owned, Apart, BuildsKept
  <1> QED
    BY <1>3, <1>4 DEF Owned

\* A session that is stopped gives its descriptor up.
LEMMA OwnedStops ==
    ASSUME Typed, Owned, BuildsKept, NEW n \in 1..built, nativeStop(n)
    PROVE  Owned'
  <1>0. n \in Sessions /\ session \in [Sessions -> {"none", "live", "freed"}]
    BY Numbers DEF Sessions, Typed, NativeOK
  <1>1. CASE session[n] # "live"
    BY <1>1, OwnedFrame DEF nativeStop
  <1>2. CASE session[n] = "live"
    <2>1. Live' = Live \ {n} /\ tunnels' = tunnels \ {n} /\ n \in Live
      BY <1>0, <1>2 DEF Live, nativeStop
    <2>2. ASSUME NEW m PROVE Owner(m)' <=> Owner(m) /\ m # n
      BY <2>1 DEF Owner, Owned, Apart, BuildsKept
    <2>3. FdOwned'
      BY <2>1, <2>2, OwnersExactly, OwnersExactlyNext DEF Owned
    <2>4. Apart'
      BY <2>1 DEF Owned, Apart, BuildsKept
    <2> QED
      BY <2>3, <2>4 DEF Owned
  <1> QED
    BY <1>1, <1>2

\* A tunnel whose build ends, k's or the main thread's, is a session's or is closed.
BuildEnds(n) ==
    \/ \E s, v : nativeStart(n, s, v)
    \/ adoptFd(n) /\ UNCHANGED <<session, by, given, built, misuse>>

LEMMA BuildEndsSets ==
    ASSUME Typed, NEW n \in 1..built, BuildEnds(n)
    PROVE  \/ tunnels' = tunnels /\ Live' = Live \cup {n}
           \/ tunnels' = tunnels \ {n} /\ Live' = Live
  <1>0. n \in Sessions /\ session \in [Sessions -> {"none", "live", "freed"}]
    BY Numbers DEF Sessions, Typed, NativeOK
  <1> QED
    BY <1>0 DEF BuildEnds, nativeStart, adoptFd, Live

LEMMA OwnedEndsMain ==
    ASSUME Typed, Owned, main.pc \in Building, main'.pc \notin Building, BuildEnds(main.n),
           UNCHANGED work
    PROVE  Owned'
  <1>0. main.n \in 1..built
    BY DEF Typed, MainOK, Mains, Building
  <1>1. ASSUME NEW m, m # main.n PROVE (m \in Live' <=> m \in Live) /\ (m \in tunnels' <=> m \in tunnels)
    BY <1>0, <1>1, BuildEndsSets
  <1>2. main.n \in tunnels' <=> main.n \in Live'
    BY <1>0, BuildEndsSets, OwnersExactly DEF Owned, Apart, Owner
  <1>3. \A m : m \in tunnels' <=> Owner(m)'
    BY <1>1, <1>2, OwnersExactly DEF Owned, Apart, Owner
  <1>4. FdOwned'
    BY <1>3, OwnersExactlyNext
  <1>5. Apart'
    BY <1>1 DEF Owned, Apart
  <1> QED
    BY <1>4, <1>5 DEF Owned

LEMMA OwnedEndsWork ==
    ASSUME Typed, Owned, NEW k \in Rebuilds, work[k].pc \in Building, BuildEnds(work[k].n),
           NEW pc, pc \notin Building, Moved(k, pc), UNCHANGED main
    PROVE  Owned'
  <1>0. work[k].n \in 1..built
    BY Fields DEF Typed, WorkOK, Built
  <1>1. ASSUME NEW m, m # work[k].n
        PROVE  (m \in Live' <=> m \in Live) /\ (m \in tunnels' <=> m \in tunnels)
    BY <1>0, <1>1, BuildEndsSets
  <1>2. work[k].n \in tunnels' <=> work[k].n \in Live'
    BY <1>0, BuildEndsSets, OwnersExactly DEF Owned, Apart, Owner
  <1>3. \A j \in Rebuilds : work'[j].pc \in Building =>
          work'[j] = work[j] /\ j # k /\ work[j].n # work[k].n
    BY DEF Moved, Owned, Apart
  <1>4. \A m : m \in tunnels' <=> Owner(m)'
    <2>1. ASSUME NEW m, m # work[k].n PROVE Owner(m)' <=> Owner(m)
      BY <1>1, <1>3, <2>1 DEF Owner, Moved
    <2>2. ASSUME NEW m, m = work[k].n PROVE Owner(m)' <=> m \in Live'
      BY <1>3, <2>2 DEF Owner, Owned, Apart
    <2> QED
      BY <1>1, <1>2, <2>1, <2>2, OwnersExactly DEF Owned
  <1>5. FdOwned'
    BY <1>4, OwnersExactlyNext
  <1>6. Apart'
    BY <1>1, <1>3 DEF Owned, Apart, Moved
  <1> QED
    BY <1>5, <1>6 DEF Owned

\* A tunnel just established is nobody's yet.
LEMMA Fresh ==
    ASSUME Typed, Owned
    PROVE  /\ built + 1 \notin Live /\ built + 1 \notin tunnels
           /\ \A k \in Rebuilds : work[k].n # built + 1
           /\ main.n # built + 1
  BY Fields, Numbers DEF Typed, WorkOK, MainOK, Mains, NativeOK, Live

LEMMA OwnedEstablished ==
    ASSUME Typed, Owned, establishTunnel,
           \/ /\ main.pc \notin Building /\ main'.pc \in Building /\ main'.n = built + 1
              /\ UNCHANGED work
           \/ \E k \in Rebuilds : /\ work[k].pc \notin Building /\ Moved(k, "config")
                                  /\ work'[k].n = built + 1 /\ UNCHANGED main
    PROVE  Owned'
  <1>1. Live' = Live /\ tunnels' = tunnels \cup {built + 1}
    BY DEF Live, establishTunnel
  <1>2. CASE /\ main.pc \notin Building /\ main'.pc \in Building /\ main'.n = built + 1
             /\ UNCHANGED work
    <2>1. \A m : Owner(m)' <=> Owner(m) \/ m = built + 1
      BY <1>1, <1>2 DEF Owner
    <2>2. FdOwned'
      BY <1>1, <2>1, OwnersExactly, OwnersExactlyNext DEF Owned
    <2>3. Apart'
      BY <1>1, <1>2, Fresh DEF Owned, Apart
    <2> QED
      BY <2>2, <2>3 DEF Owned
  <1>3. ASSUME NEW k \in Rebuilds, work[k].pc \notin Building, Moved(k, "config"),
               work'[k].n = built + 1, UNCHANGED main
        PROVE  Owned'
    <2>1. /\ \A j \in Rebuilds \ {k} : work'[j] = work[j]
          /\ work'[k].pc \in Building
      BY <1>3 DEF Moved, Building
    <2>2. \A m : Owner(m)' <=> Owner(m) \/ m = built + 1
      BY <1>1, <1>3, <2>1 DEF Owner
    <2>3. FdOwned'
      BY <1>1, <2>2, OwnersExactly, OwnersExactlyNext DEF Owned
    <2>4. Apart'
      BY <1>1, <1>3, <2>1, Fresh DEF Owned, Apart
    <2> QED
      BY <2>3, <2>4 DEF Owned
  <1> QED
    BY <1>2, <1>3

\* Rebuild k moves, and builds before just when it builds after.
LEMMA WorkKeepsBuilds ==
    ASSUME NEW k \in Rebuilds, NEW pc, Moved(k, pc), UNCHANGED main,
           work[k].pc \in Building <=> pc \in Building,
           pc \in Building => work'[k].n = work[k].n
    PROVE  BuildsKept
  BY DEF BuildsKept, Moved

LEMMA OwnedNext ==
    ASSUME Typed, Owned, Next
    PROVE  Owned'
  <1>0. nativeHandle \in 0..built
    BY DEF Typed, ServiceOK
  <1>1. ASSUME UNCHANGED <<main, work, session, tunnels>> PROVE Owned'
    BY <1>1, OwnedFrame DEF BuildsKept
  <1>2. ASSUME NEW pc, pc \notin Building, mainGoes(pc) \/ main' = Idle, main.pc \notin Building,
               UNCHANGED work
        PROVE  BuildsKept
    <2>1. main'.pc \notin Building
      BY <1>2 DEF mainGoes, Idle, Building, Typed, MainOK, Mains
    <2> QED
      BY <1>2, <2>1 DEF BuildsKept
  <1>3. ASSUME StartCommand PROVE Owned'
    <2>1. CASE UNCHANGED <<main, native>>
      BY <1>1, <1>3, <2>1 DEF StartCommand, native
    <2>2. CASE /\ establishTunnel
               /\ main' = [Idle EXCEPT !.pc = "config", !.v6 = (link = "v6"), !.n = built + 1]
      <3>1. main'.pc \in Building /\ main'.n = built + 1 /\ main.pc \notin Building
        BY <1>3, <2>2 DEF StartCommand, Idle, Building
      <3> QED
        BY <1>3, <2>2, <3>1, OwnedEstablished DEF StartCommand
    <2>3. CASE mainGoes("s1") /\ UNCHANGED native
      BY <1>2, <1>3, <2>3, OwnedFrame DEF StartCommand, Building, native
    <2> QED
      BY <1>3, <2>1, <2>2, <2>3 DEF StartCommand
  <1>4. ASSUME StartConfig PROVE Owned'
    <2>1. main.pc = "config" /\ main'.pc = "start" /\ main'.n = main.n
      BY <1>4 DEF StartConfig, Typed, MainOK, Mains
    <2> QED
      BY <1>4, <2>1, OwnedFrame DEF StartConfig, BuildsKept, Building, native
  <1>5. ASSUME StartNative PROVE Owned'
    <2>1. main.pc \in Building /\ main'.pc \notin Building /\ UNCHANGED work
      BY <1>5 DEF StartNative, mainGoes, Idle, Building, Typed, MainOK, Mains
    <2>2. BuildEnds(main.n)
      BY <1>5 DEF StartNative, BuildEnds
    <2> QED
      BY <2>1, <2>2, OwnedEndsMain
  <1>6. ASSUME StopCommand \/ onDestroy PROVE Owned'
    BY <1>2, <1>6, OwnedFrame DEF StopCommand, onDestroy, Building, native
  <1>7. ASSUME MainStops PROVE Owned'
    <2>1. BuildsKept
      BY <1>2, <1>7 DEF MainStops, Building
    <2> QED
      BY <1>0, <1>7, <2>1, OwnedFrame, OwnedStops
      DEF MainStops, stopService, stopNative, stopNothing, stopHandle, native
  <1>8. ASSUME \/ NetworkCallback \/ NetworkChanges \/ ProxyChanges \/ \E c \in Pushed : Stores(c)
        PROVE  Owned'
    BY <1>1, <1>8 DEF NetworkCallback, NetworkChanges, ProxyChanges, Stores, native
  <1>9. ASSUME NEW s \in Scopes, NEW c \in Pushed, Collector(s, c) PROVE Owned'
    BY <1>1, <1>9 DEF Collector, Collects, Resolves, Pushes, nativeUpdate, native
  <1>10. ASSUME NEW k \in Rebuilds, WorkBegins(k) \/ WorkLocks(k) \/ WorkPublishes(k)
                                    \/ WorkReapplies(k)
         PROVE  Owned'
    <2>1. UNCHANGED <<main, session, tunnels>>
      BY <1>10, Reapplies DEF WorkBegins, WorkLocks, WorkPublishes, WorkReapplies, native
    <2>2. CASE UNCHANGED work
      BY <1>1, <2>1, <2>2
    <2>3. CASE \E pc : Moved(k, pc) /\ pc \notin Building /\ work[k].pc \notin Building
      BY <2>1, <2>3, WorkKeepsBuilds, OwnedFrame
    <2> QED
      BY <1>10, <2>2, <2>3, Begins, Locks, Publishes, Reapplies DEF WorkPublishes, Building
  <1>11. ASSUME NEW k \in Rebuilds, WorkTakesDown(k) PROVE Owned'
    <2>1. UNCHANGED main
      BY <1>11 DEF WorkTakesDown
    <2>2. \E pc : Moved(k, pc) /\ pc \notin Building /\ work[k].pc \notin Building
      BY <1>11, TakesDown DEF Building
    <2>3. BuildsKept
      BY <2>1, <2>2, WorkKeepsBuilds
    <2>4. work[k].pc = "stop" => work[k].old \in 1..built
      BY Fields DEF Typed, WorkOK
    <2> QED
      BY <1>11, <2>3, <2>4, TakesDown, OwnedFrame, OwnedStops DEF native
  <1>12. ASSUME NEW k \in Rebuilds, WorkBuilds(k) PROVE Owned'
    <2>0. UNCHANGED main
      BY <1>12 DEF WorkBuilds
    <2>1. CASE /\ work[k].pc = "establish" /\ establishTunnel
               /\ Moved(k, "config") /\ work'[k].n = built + 1
      BY <2>0, <2>1, OwnedEstablished DEF Building
    <2>2. CASE \/ work[k].pc = "establish" /\ UNCHANGED native /\ Moved(k, "s1") /\ Kept(k)
               \/ work[k].pc = "config" /\ UNCHANGED native /\ Moved(k, "start") /\ Kept(k)
      BY <2>0, <2>2, WorkKeepsBuilds, OwnedFrame DEF Kept, Building, native
    <2>3. CASE /\ work[k].pc = "start" /\ BuildEnds(work[k].n)
               /\ (Moved(k, "publish") \/ Moved(k, "s1"))
      BY <2>0, <2>3, OwnedEndsWork DEF Building
    <2> QED
      BY <1>12, <2>1, <2>2, <2>3, Builds DEF BuildEnds
  <1>13. ASSUME NEW k \in Rebuilds, WorkStops(k) PROVE Owned'
    <2>1. UNCHANGED main
      BY <1>13 DEF WorkStops
    <2>2. \E pc : Moved(k, pc) /\ pc \notin Building /\ work[k].pc \notin Building
      BY <1>13, Stops DEF Building
    <2>3. BuildsKept
      BY <2>1, <2>2, WorkKeepsBuilds
    <2>4. CASE stopNative
      BY <1>0, <2>3, <2>4, OwnedStops DEF stopNative
    <2>5. CASE UNCHANGED native
      BY <2>3, <2>5, OwnedFrame DEF native
    <2> QED
      BY <1>13, <2>4, <2>5, Stops DEF stopNothing
  <1> QED
    BY <1>3, <1>4, <1>5, <1>6, <1>7, <1>8, <1>9, <1>10, <1>11, <1>12, <1>13
    DEF Next, System, MainContinues, Work

-----------------------------------------------------------------------------
(* Rebuilds exclude each other *)

OthersRest(k) == \A j \in Rebuilds \ {k} : ~Busy(j)

LEMMA Mutex ==
    ASSUME Alone, NEW k \in Rebuilds, Busy(k) \/ v6Mutex(k)
    PROVE  OthersRest(k)
  BY DEF Alone, Busy, OthersRest, v6Mutex

LEMMA AloneMoved ==
    ASSUME Alone, NEW k \in Rebuilds, NEW pc, Moved(k, pc),
           pc \in {"none", "wait"} \/ OthersRest(k)
    PROVE  Alone'
  <1>1. \A j \in Rebuilds \ {k} : Busy(j)' <=> Busy(j)
    BY DEF Moved, Busy
  <1>2. CASE pc \in {"none", "wait"}
    <2>1. ~Busy(k)'
      BY <1>2 DEF Moved, Busy
    <2> QED
      BY <1>1, <2>1 DEF Alone
  <1>3. CASE OthersRest(k)
    BY <1>1, <1>3 DEF Alone, OthersRest
  <1> QED
    BY <1>2, <1>3

LEMMA AloneNext ==
    ASSUME Typed, Alone, Next
    PROVE  Alone'
  <1>1. ASSUME UNCHANGED work PROVE Alone'
    BY <1>1 DEF Alone, Busy
  <1>2. ASSUME NEW k \in Rebuilds, Work(k) PROVE Alone'
    <2>1. CASE WorkBegins(k)
      BY <1>1, <2>1, Begins, AloneMoved
    <2>2. CASE WorkLocks(k)
      BY <2>2, Locks, Mutex, AloneMoved
    <2>3. ASSUME Busy(k), \E pc : Moved(k, pc) PROVE Alone'
      BY <2>3, Mutex, AloneMoved
    <2>4. CASE WorkTakesDown(k)
      BY <2>3, <2>4, TakesDown DEF Busy
    <2>5. CASE WorkBuilds(k)
      BY <2>3, <2>5, Builds DEF Busy
    <2>6. CASE WorkPublishes(k)
      BY <2>3, <2>6, Publishes DEF Busy, WorkPublishes
    <2>7. CASE WorkReapplies(k)
      BY <2>3, <2>7, Reapplies DEF Busy
    <2>8. CASE WorkStops(k)
      BY <2>3, <2>8, Stops DEF Busy
    <2> QED
      BY <1>2, <2>1, <2>2, <2>4, <2>5, <2>6, <2>7, <2>8 DEF Work
  <1>3. ASSUME NEW s \in Scopes, NEW c \in Pushed, Collector(s, c) PROVE Alone'
    BY <1>1, <1>3 DEF Collector, Collects, Resolves, Pushes
  <1>4. ASSUME \/ StartCommand \/ StartConfig \/ StartNative \/ StopCommand \/ onDestroy
               \/ MainStops \/ NetworkCallback \/ NetworkChanges \/ ProxyChanges
               \/ \E c \in Pushed : Stores(c)
        PROVE  Alone'
    BY <1>1, <1>4 DEF StartCommand, StartConfig, StartNative, StopCommand, onDestroy, MainStops,
                      NetworkCallback, NetworkChanges, ProxyChanges, Stores
  <1> QED
    BY <1>2, <1>3, <1>4 DEF Next, System, MainContinues

-----------------------------------------------------------------------------
(* One session per scope *)

LEMMA ExclusiveFrame ==
    ASSUME Exclusive, UNCHANGED <<work, scope, nativeHandle, session, by>>, met => met'
    PROVE  Exclusive'
  <1>1. UNCHANGED Own
    BY DEF Own, Live
  <1>2. \A k \in Rebuilds : (Busy(k)' <=> Busy(k)) /\ (Phase(k)' <=> Phase(k))
    BY <1>1 DEF Busy, Phase
  <1> QED
    BY <1>1, <1>2 DEF Exclusive

LEMMA NoScope == scope' = 0 => Exclusive'
  BY DEF Exclusive

\* Rebuild k moves while the other one rests or waits.
LEMMA ExclusiveMoved ==
    ASSUME Exclusive, ~met, scope # 0, UNCHANGED <<met, scope>>,
           NEW k \in Rebuilds, NEW pc, Moved(k, pc), OthersRest(k),
           pc \notin {"s2", "s3"},
           pc # "none" => work'[k].scope = scope,
           pc \notin {"none", "wait"} => Phase(k)',
           pc \in {"none", "wait"} => nativeHandle' # 0 /\ Own' = {nativeHandle'}
    PROVE  Exclusive'
  <1>1. ASSUME NEW j \in Rebuilds
        PROVE  /\ work'[j].pc # "none" => work'[j].scope = scope'
               /\ work'[j].pc \notin {"s2", "s3"}
               /\ Busy(j)' => Phase(j)'
    <2>1. CASE j = k
      BY <2>1 DEF Moved, Busy
    <2>2. CASE j # k
      <3>1. work'[j] = work[j] /\ ~Busy(j)'
        BY <2>2 DEF Moved, OthersRest, Busy
      <3> QED
        BY <3>1 DEF Exclusive
    <2> QED
      BY <2>1, <2>2
  <1>2. (\A j \in Rebuilds : ~Busy(j)') => nativeHandle' # 0 /\ Own' = {nativeHandle'}
    BY DEF Moved, Busy
  <1> QED
    BY <1>1, <1>2 DEF Exclusive

LEMMA ExclusiveStarts ==
    ASSUME Typed, Exclusive, StartNative
    PROVE  Exclusive'
  <1>1. CASE UNCHANGED <<session, by, service, met>>
    BY <1>1, ExclusiveFrame DEF StartNative, service
  <1>2. CASE /\ nativeStart(main.n, scopes + 1, main.settings)
             /\ nativeHandle' = main.n /\ scope' = scopes + 1
             /\ met' = (met \/ \E k \in Rebuilds : work[k].pc # "none")
    <2>1. main.n \in Sessions /\ main.n # 0
      BY <1>2, Numbers DEF StartNative, Typed, MainOK, Mains, Building, Sessions
    <2>2. \A n \in Sessions : by[n] \in Nat /\ by[n] <= scopes
      BY DEF Typed, NativeOK
    <2>3. /\ session' = [session EXCEPT ![main.n] = "live"]
          /\ by' = [by EXCEPT ![main.n] = scopes + 1]
          /\ session \in [Sessions -> {"none", "live", "freed"}] /\ by \in [Sessions -> Nat]
      BY <1>2 DEF nativeStart, Typed, NativeOK
    <2>4. Own' = {main.n}
      BY <1>2, <2>1, <2>2, <2>3, Numbers DEF Own, Live
    <2>5. ~met' => \A k \in Rebuilds : work'[k].pc = "none"
      BY <1>2 DEF StartNative
    <2> QED
      BY <1>2, <2>1, <2>4, <2>5 DEF Exclusive, Busy
  <1> QED
    BY <1>1, <1>2 DEF StartNative, adoptFd

LEMMA ExclusiveWorks ==
    ASSUME Typed, Alone, Exclusive, NEW k \in Rebuilds, Work(k)
    PROVE  Exclusive'
  <1>1. UNCHANGED met
    BY DEF Work, WorkBegins, WorkLocks, WorkTakesDown, WorkBuilds, WorkPublishes, WorkReapplies,
           WorkStops, stopNative, stopNothing, stopHandle, life
  <1>2. SUFFICES ASSUME ~met, scope # 0
        PROVE  Exclusive'
    <2>1. CASE met
      BY <1>1, <2>1 DEF Exclusive
    <2>2. CASE scope = 0
      <3>1. scope' = 0
        BY <2>2 DEF Work, WorkBegins, WorkLocks, WorkTakesDown, oldStopped, WorkBuilds,
                    WorkPublishes, WorkReapplies, WorkStops, stopService, stopHandle, service
      <3> QED
        BY <3>1, NoScope
    <2> QED
      BY <1>2, <2>1, <2>2
  <1>3. /\ work[k].pc # "none" => work[k].scope = scope
        /\ work[k].pc \notin {"s2", "s3"}
        /\ Busy(k) => Phase(k) /\ OthersRest(k)
        /\ v6Mutex(k) => OthersRest(k)
    BY <1>2, Mutex DEF Exclusive
  <1>4. OthersRest(k) /\ ~Busy(k) => nativeHandle # 0 /\ Own = {nativeHandle}
    BY <1>2 DEF Exclusive, OthersRest
  <1>5. ASSUME UNCHANGED <<session, by, scope>> PROVE UNCHANGED Own
    BY <1>5 DEF Own, Live
  <1>6. CASE WorkBegins(k)
    <2>1. UNCHANGED <<scope, nativeHandle, session, by>> /\ work[k].pc = "none"
      BY <1>6 DEF WorkBegins, service, native
    <2>2. CASE UNCHANGED work
      BY <1>1, <2>1, <2>2, ExclusiveFrame
    <2>3. CASE Moved(k, "wait") /\ work'[k].scope = scope
      <3>1. \A j \in Rebuilds : Busy(j)' <=> Busy(j)
        BY <2>1, <2>3 DEF Moved, Busy
      <3>2. \A j \in Rebuilds : Busy(j) => work'[j] = work[j]
        BY <2>1, <2>3 DEF Moved, Busy
      <3>3. \A j \in Rebuilds : Busy(j)' => Phase(j)'
        BY <1>2, <1>5, <2>1, <3>1, <3>2 DEF Exclusive, Phase
      <3>4. \A j \in Rebuilds : /\ work'[j].pc # "none" => work'[j].scope = scope
                                /\ work'[j].pc \notin {"s2", "s3"}
        BY <1>2, <2>3 DEF Moved, Exclusive
      <3> QED
        BY <1>1, <1>2, <1>5, <2>1, <3>1, <3>3, <3>4 DEF Exclusive
    <2> QED
      BY <1>6, <2>2, <2>3, Begins
  <1>7. CASE WorkLocks(k)
    <2>1. UNCHANGED <<scope, nativeHandle, session, by>>
      BY <1>7 DEF WorkLocks, service, native
    <2>2. work[k].pc = "wait" /\ OthersRest(k) /\ nativeHandle # 0 /\ Own = {nativeHandle}
      BY <1>3, <1>4, <1>7, Locks DEF Busy
    <2>3. CASE Moved(k, "none")
      BY <1>1, <1>2, <1>5, <2>1, <2>2, <2>3, ExclusiveMoved
    <2>4. CASE Moved(k, "old") /\ Kept(k)
      <3>1. Phase(k)'
        BY <1>5, <2>1, <2>2, <2>4 DEF Phase, Moved
      <3> QED
        BY <1>1, <1>2, <1>3, <2>1, <2>2, <2>4, <3>1, ExclusiveMoved DEF Kept
    <2> QED
      BY <1>7, <2>3, <2>4, Locks
  <1>8. CASE WorkTakesDown(k)
    <2>0. Phase(k) /\ OthersRest(k) /\ work'[k].scope = scope
      BY <1>3, <1>8, TakesDown DEF Busy
    <2>1. CASE /\ work[k].pc = "old" /\ UNCHANGED <<service, native>>
               /\ Moved(k, IF nativeHandle = 0 THEN "clear" ELSE "stop")
               /\ work'[k].old = nativeHandle
      <3>1. nativeHandle # 0 /\ Own = {nativeHandle} /\ Own' = Own /\ Moved(k, "stop")
            /\ UNCHANGED <<nativeHandle, scope>>
        BY <1>5, <2>0, <2>1 DEF Phase, service, native
      <3>2. Phase(k)'
        BY <2>1, <3>1 DEF Phase, Moved
      <3> QED
        BY <1>1, <1>2, <2>0, <3>1, <3>2, ExclusiveMoved
    <2>2. CASE /\ work[k].pc = "stop" /\ nativeStop(work[k].old) /\ UNCHANGED service
               /\ Moved(k, "clear")
      <3>1. Own = {work[k].old}
        BY <2>0, <2>2 DEF Phase
      <3>2. Own' = {}
        BY <2>2, <3>1 DEF Own, Live, nativeStop, Typed, NativeOK, service
      <3>3. Phase(k)'
        BY <2>2, <3>2 DEF Phase, Moved
      <3> QED
        BY <1>1, <1>2, <2>0, <2>2, <3>3, ExclusiveMoved DEF service
    <2>3. CASE /\ work[k].pc = "clear" /\ handleCleared
               /\ UNCHANGED <<running, tunnelHasV6, scope, scopes, callback, native>>
               /\ Moved(k, "establish")
      <3>1. Own' = {} /\ nativeHandle' = 0
        BY <1>5, <2>0, <2>3 DEF Phase, handleCleared, native
      <3>2. Phase(k)'
        BY <2>3, <3>1 DEF Phase, Moved
      <3> QED
        BY <1>1, <1>2, <2>0, <2>3, <3>2, ExclusiveMoved
    <2> QED
      BY <1>8, <2>1, <2>2, <2>3, TakesDown
  <1>9. CASE WorkBuilds(k)
    <2>0. /\ Phase(k) /\ OthersRest(k) /\ work'[k].scope = scope
          /\ UNCHANGED <<scope, nativeHandle>> /\ Own = {} /\ nativeHandle = 0
      BY <1>3, <1>9, Builds DEF Busy, Phase, WorkBuilds, service
    <2>1. ASSUME NEW pc \in {"config", "start", "s1"}, Moved(k, pc), UNCHANGED <<session, by>>
          PROVE  Exclusive'
      <3>1. Phase(k)'
        BY <1>5, <2>0, <2>1 DEF Phase, Moved
      <3> QED
        BY <1>1, <1>2, <2>0, <2>1, <3>1, ExclusiveMoved
    <2>2. CASE /\ work[k].pc = "start" /\ Moved(k, "publish") /\ Kept(k)
               /\ nativeStart(work[k].n, work[k].scope, work[k].settings)
      <3>1. work[k].n \in Sessions /\ work[k].scope = scope
        BY <1>3, <2>2, Fields, Numbers DEF Typed, WorkOK, Built, Building, Sessions
      <3>2. /\ session' = [session EXCEPT ![work[k].n] = "live"]
            /\ by' = [by EXCEPT ![work[k].n] = scope]
            /\ session \in [Sessions -> {"none", "live", "freed"}] /\ by \in [Sessions -> Nat]
        BY <2>2, <3>1 DEF nativeStart, Typed, NativeOK
      <3>3. Own' = {work[k].n}
        BY <2>0, <3>1, <3>2 DEF Own, Live
      <3>4. Phase(k)'
        BY <2>0, <2>2, <3>3 DEF Phase, Moved, Kept
      <3> QED
        BY <1>1, <1>2, <2>0, <2>2, <3>4, ExclusiveMoved
    <2> QED
      BY <1>9, <2>1, <2>2, Builds DEF establishTunnel, native
  <1>10. CASE WorkPublishes(k)
    <2>1. /\ nativeHandle' = work[k].n /\ UNCHANGED <<scope, session, by>>
          /\ work[k].pc = "publish"
      BY <1>10 DEF WorkPublishes, native
    <2>2. Phase(k) /\ OthersRest(k) /\ work[k].n # 0
      BY <1>3, <2>1, Fields DEF Busy, Typed, WorkOK, Built
    <2>3. Moved(k, "first") /\ Kept(k)
      BY <1>10, Publishes
    <2>4. Own' = {nativeHandle'}
      BY <1>5, <2>1, <2>2 DEF Phase
    <2>5. Phase(k)'
      BY <2>1, <2>2, <2>3, <2>4 DEF Phase, Moved
    <2> QED
      BY <1>1, <1>2, <1>3, <2>1, <2>2, <2>3, <2>5, ExclusiveMoved DEF Kept
  <1>11. CASE WorkReapplies(k)
    <2>1. UNCHANGED <<scope, nativeHandle, session, by>> /\ work[k].pc \in {"first", "push"}
      BY <1>11, Reapplies DEF WorkReapplies, service
    <2>2. nativeHandle # 0 /\ Own = {nativeHandle} /\ OthersRest(k)
      BY <1>3, <2>1 DEF Busy, Phase
    <2>3. CASE Moved(k, "none")
      BY <1>1, <1>2, <1>5, <2>1, <2>2, <2>3, ExclusiveMoved
    <2>4. CASE Moved(k, "push") /\ Kept(k)
      <3>1. Phase(k)'
        BY <1>5, <2>1, <2>2, <2>4 DEF Phase, Moved
      <3> QED
        BY <1>1, <1>2, <1>3, <2>1, <2>2, <2>4, <3>1, ExclusiveMoved DEF Kept
    <2> QED
      BY <1>11, <2>3, <2>4, Reapplies
  <1>12. CASE WorkStops(k)
    BY <1>3, <1>12, Stops, NoScope DEF stopService
  <1> QED
    BY <1>6, <1>7, <1>8, <1>9, <1>10, <1>11, <1>12 DEF Work

LEMMA ExclusiveNext ==
    ASSUME Typed, Alone, Exclusive, Next
    PROVE  Exclusive'
  <1>1. CASE StartNative
    BY <1>1, ExclusiveStarts
  <1>2. ASSUME NEW k \in Rebuilds, Work(k) PROVE Exclusive'
    BY <1>2, ExclusiveWorks
  <1>3. ASSUME NEW s \in Scopes, NEW c \in Pushed, Collector(s, c) PROVE Exclusive'
    BY <1>3, ExclusiveFrame
    DEF Collector, Collects, Resolves, Pushes, nativeUpdate, service, life, native
  <1>4. CASE MainStops
    <2>1. main.pc \in {"s2", "s3"} => scope = 0
      BY DEF Typed, MainOK, ServiceOK
    <2>2. scope' = 0
      BY <1>4, <2>1 DEF MainStops, stopService, stopHandle, service
    <2> QED
      BY <2>2, NoScope
  <1>5. ASSUME \/ StartCommand \/ StartConfig \/ StopCommand \/ onDestroy \/ NetworkCallback
               \/ NetworkChanges \/ ProxyChanges \/ \E c \in Pushed : Stores(c)
        PROVE  Exclusive'
    BY <1>5, ExclusiveFrame
    DEF StartCommand, establishTunnel, StartConfig, StopCommand, onDestroy, NetworkCallback,
        NetworkChanges, ProxyChanges, Stores, service, life, native
  <1> QED
    BY <1>1, <1>2, <1>3, <1>4, <1>5 DEF Next, System, MainContinues

-----------------------------------------------------------------------------
(* The theorems *)

LEMMA InvInit == Init => IInv
  <1> SUFFICES ASSUME Init PROVE IInv
    OBVIOUS
  <1>1. Idle \in Mains /\ Idle.n = 0 /\ Idle.pc = "idle"
    BY DEF Idle, Mains, MainPcs
  <1>2. Resting \in Works /\ Resting.pc = "none" /\ Resting.n = 0 /\ Resting.old = 0
        /\ Resting.scope = 0
    BY DEF Resting, Works, WorkPcs
  <1>3. Quiet \in Collecting /\ Quiet.pc = "none"
    BY DEF Quiet, Collecting
  <1>4. ServiceOK
    <2>1. /\ running \in BOOLEAN /\ tunnelHasV6 \in BOOLEAN
          /\ leaving \in BOOLEAN /\ gone \in BOOLEAN /\ met \in BOOLEAN
      BY DEF Init
    <2>2. ~running /\ nativeHandle = 0 /\ holder = 0 /\ scope = 0 /\ scopes = 0
          /\ callback = "off" /\ built = 0
      BY DEF Init
    <2> QED
      BY <2>1, <2>2 DEF ServiceOK
  <1>5. UserOK /\ MainOK
    BY <1>1, SessionAssumption DEF Init, UserOK, MainOK, Building
  <1>6. WorkOK
    BY <1>2 DEF Init, WorkOK, Built, Building
  <1>7. CollectorOK
    BY <1>3 DEF Init, CollectorOK
  <1>8. NativeOK
    BY SessionAssumption DEF Init, NativeOK
  <1>9. FdOwned /\ Apart
    BY <1>1, <1>2 DEF Init, FdOwned, Apart, Live, Building
  <1>10. Alone /\ Exclusive
    BY <1>2 DEF Init, Alone, Busy, Exclusive
  <1> QED
    BY <1>4, <1>5, <1>6, <1>7, <1>8, <1>9, <1>10 DEF IInv, Typed

LEMMA InvNext == IInv /\ [Next]_vars => IInv'
  <1> SUFFICES ASSUME IInv, [Next]_vars PROVE IInv'
    OBVIOUS
  <1>1. CASE Next
    BY <1>1, TypedNext, OwnedNext, AloneNext, ExclusiveNext DEF IInv, Owned
  <1>2. CASE UNCHANGED vars
    <2> USE <1>2 DEF vars, service, life, native, user
    <2>1. Typed'
      BY DEF IInv, Typed, ServiceOK, UserOK, MainOK, WorkOK, CollectorOK, NativeOK
    <2>2. FdOwned' /\ Apart' /\ Alone'
      BY DEF IInv, FdOwned, Apart, Alone, Busy, Live
    <2>3. Exclusive'
      BY ExclusiveFrame DEF IInv
    <2> QED
      BY <2>1, <2>2, <2>3 DEF IInv
  <1> QED
    BY <1>1, <1>2

LEMMA InvTypes == IInv => TypeOK
  <1> SUFFICES ASSUME IInv PROVE TypeOK
    OBVIOUS
  <1> USE Numbers DEF IInv
  <1>1. /\ running \in BOOLEAN /\ tunnelHasV6 \in BOOLEAN /\ leaving \in BOOLEAN
        /\ gone \in BOOLEAN
    BY DEF Typed, ServiceOK
  <1>2. /\ {nativeHandle, holder} \subseteq Handles
        /\ scope \in {0, scopes} /\ scopes \in 0..MaxEvents
        /\ callback \in IF running THEN {"owing", "quiet"} ELSE {"off"}
        /\ running <=> scope # 0
    BY DEF Typed, ServiceOK, Handles, Sessions
  <1>3. \A k \in Rebuilds :
          /\ request[k] \in 0..scopes /\ work[k].scope \in 0..scopes
          /\ work[k].n \in 0..built /\ work[k].old \in 0..built
    BY Fields DEF Typed, WorkOK
  <1>4. \A s \in Scopes, c \in Pushed : collector[s][c].pc # "none" => s <= scopes
    BY DEF Typed, CollectorOK
  <1>5. tunnels \subseteq 1..built /\ Live \subseteq 1..built /\ misuse \subseteq {"stop", "update"}
    BY DEF Typed, NativeOK, Live, Sessions
  <1> QED
    BY <1>1, <1>2, <1>3, <1>4, <1>5 DEF TypeOK

\* What the handle and the lock protect, read off the phases of a rebuild.
LEMMA InvExclusive == IInv /\ ~met => OneSession /\ StoppedOnce
  <1> SUFFICES ASSUME IInv, ~met PROVE OneSession /\ StoppedOnce
    OBVIOUS
  <1>1. ASSUME NEW n \in Live, NEW m \in Live, by[n] = scope, by[m] = scope
        PROVE  n = m
    <2>1. scope # 0
      BY <1>1 DEF IInv, Typed, NativeOK, Live
    <2>2. n \in Own /\ m \in Own
      BY <1>1 DEF Own
    <2>3. CASE \E k \in Rebuilds : Busy(k)
      BY <2>1, <2>2, <2>3 DEF IInv, Exclusive, Phase
    <2>4. CASE \A k \in Rebuilds : ~Busy(k)
      BY <2>1, <2>2, <2>4 DEF IInv, Exclusive
    <2> QED
      BY <2>3, <2>4
  <1>2. ASSUME NEW k \in Rebuilds, work[k].pc = "stop", ~cancelled(work[k].scope)
        PROVE  work[k].old \in Live
    <2>1. scope # 0
      BY <1>2, Fields DEF cancelled, IInv, Typed, WorkOK
    <2>2. Phase(k)
      BY <1>2, <2>1 DEF IInv, Exclusive, Busy
    <2> QED
      BY <1>2, <2>2 DEF Phase, Own
  <1> QED
    BY <1>1, <1>2 DEF OneSession, StoppedOnce

\* stopEverything, the rebuilds and the next start share one plain handle: for any
\* events, however many, the state stays well formed, there is one session of the
\* scope that lasts, and the rebuild that found it is the one that stops it, unless a
\* start met a rebuild of an earlier scope.
THEOREM SessionsAreExclusive == Spec => []SessionsExclusive
  <1>1. IInv => SessionsExclusive
    BY InvTypes, InvExclusive DEF SessionsExclusive
  <1> QED
    BY InvInit, InvNext, <1>1, PTL DEF Spec

\* reestablishTunnel and startCapture: a descriptor is always a live session's or
\* the build's that is still to hand it over or close it.
THEOREM DescriptorsOwned == Spec => []FdOwned
  <1>1. IInv => FdOwned
    BY DEF IInv
  <1> QED
    BY InvInit, InvNext, <1>1, PTL DEF Spec
=============================================================================
