---------------------------- MODULE VerdictCache ----------------------------
(***************************************************************************)
(* The per-app firewall of the datapath and the cache of its verdicts:     *)
(* Forwarder::verdict / policy_blocks / set_firewall / set_transport /     *)
(* set_log_open of rust/core/src/forward.rs over the LRU FlowTable of      *)
(* rust/netstack/src/flow_table.rs.                                        *)
(*                                                                         *)
(* The table is keyed by the 5-tuple, the owner of a 5-tuple is asked of   *)
(* Android (lookup_uid), and the answer is cached together with the        *)
(* decision; the rules and the transport the decision depends on change    *)
(* underneath it.                                                          *)
(***************************************************************************)
EXTENDS Naturals, FiniteSets

CONSTANTS
    Keys,       \* flow keys (5-tuples)
    Uids,       \* app uids
    Policies,   \* the AppPolicy values rules may carry
    Cap,        \* VERDICT_CACHE_CAP
    MaxTick,    \* bound on the table's logical clock (u64 in the code)
    NoUid,      \* -1: lookup_uid found no owner
    NoRule,     \* the uid has no entry in the firewall map
    Absent      \* the key has no entry in the table / no packet was decided

Transports == {"Other", "Wifi", "Cellular"}

Verdict == [blocked : BOOLEAN, uid : Uids \cup {NoUid}]
Entry == [value : Verdict, last_used : Nat]

ASSUME CacheAssumption ==
    /\ IsFiniteSet(Keys)
    /\ Cap \in Nat \ {0}
    /\ MaxTick \in Nat
    /\ Policies \subseteq [allow_wifi : BOOLEAN, allow_cellular : BOOLEAN]
    /\ NoUid \notin Uids
    /\ NoRule \notin Policies
    /\ Absent \notin Entry
    /\ Absent \notin [key : Keys, value : Verdict]

VARIABLES
    firewall,   \* uid -> AppPolicy, or NoRule
    transport,  \* the default network's transport
    log_open,   \* the live log is on screen
    map,        \* FlowTable.map
    tick,       \* FlowTable.tick
    owner,      \* who really owns each 5-tuple (the kernel's view)
    last        \* the verdict the packet in hand got; Absent after a command

cache_vars == <<firewall, transport, log_open, map, tick, owner, last>>

Held == {k \in Keys : map[k] # Absent}
NoRules == \A u \in Uids : firewall[u] = NoRule
EmptyTable == [k \in Keys |-> Absent]

policy_blocks(uid) ==
    /\ uid # NoUid
    /\ firewall[uid] # NoRule
    /\ \/ transport = "Wifi" /\ ~firewall[uid].allow_wifi
       \/ transport = "Cellular" /\ ~firewall[uid].allow_cellular

CacheInit ==
    /\ firewall = [u \in Uids |-> NoRule]
    /\ transport = "Other"
    /\ log_open \in BOOLEAN
    /\ map = EmptyTable
    /\ tick = 0
    /\ owner \in [Keys -> Uids]
    /\ last = Absent

-----------------------------------------------------------------------------
(* verdict(): one packet of flow k. *)

Decide(k, v) == last' = [key |-> k, value |-> v]

\* Mutant: The bypass tests the log flag alone.
VerdictBypassLogOnly(k) ==
    /\ ~log_open
    /\ Decide(k, [blocked |-> FALSE, uid |-> NoUid])
    /\ UNCHANGED <<firewall, transport, log_open, map, tick, owner>>

\* No rules and nobody watching: allowed without a lookup, not cached.
VerdictBypass(k) ==
    /\ NoRules /\ ~log_open
    /\ Decide(k, [blocked |-> FALSE, uid |-> NoUid])
    /\ UNCHANGED <<firewall, transport, log_open, map, tick, owner>>

\* A hit: get() advances the clock and stamps the entry.
VerdictHit(k) ==
    /\ ~(NoRules /\ ~log_open)
    /\ map[k] # Absent
    /\ tick < MaxTick
    /\ tick' = tick + 1
    /\ map' = [map EXCEPT ![k] = [value |-> map[k].value, last_used |-> tick + 1]]
    /\ Decide(k, map[k].value)
    /\ UNCHANGED <<firewall, transport, log_open, owner>>

\* Mutant: max_by_key for min_by_key.
IsMru(v) == v \in Held /\ \A k \in Held : map[k].last_used <= map[v].last_used

\* evict_lru picks the entry with the least stamp, and only at capacity.
IsLru(v) == v \in Held /\ \A k \in Held : map[v].last_used <= map[k].last_used

Evicted(v) == [map EXCEPT ![v] = Absent]

\* A miss: get() has already advanced the clock once, insert() does it again.
\* lookup_uid answers the owner, or -1 when Android does not know it (yet).
VerdictMiss(k, uid) ==
    /\ ~(NoRules /\ ~log_open)
    /\ map[k] = Absent
    /\ uid \in {owner[k], NoUid}
    /\ tick + 2 <= MaxTick
    /\ tick' = tick + 2
    /\ LET v == [blocked |-> policy_blocks(uid), uid |-> uid]
           e == [value |-> v, last_used |-> tick + 2]
       IN  /\ Decide(k, v)
           /\ \/ /\ Cardinality(Held) < Cap
                 /\ map' = [map EXCEPT ![k] = e]
              \/ /\ Cardinality(Held) >= Cap
                 /\ \E lru \in Keys : /\ IsLru(lru)
                                      /\ map' = [Evicted(lru) EXCEPT ![k] = e]
    /\ UNCHANGED <<firewall, transport, log_open, owner>>

-----------------------------------------------------------------------------
(* Commands from the app, applied between packets. *)

\* Mutant: set_firewall without the new FlowTable.
SetFirewallKeepsTable(rules) ==
    /\ firewall' = rules
    /\ last' = Absent
    /\ UNCHANGED <<transport, log_open, map, tick, owner>>

SetFirewall(rules) ==
    /\ firewall' = rules
    /\ map' = EmptyTable
    /\ tick' = 0
    /\ last' = Absent
    /\ UNCHANGED <<transport, log_open, owner>>

\* The table is dropped only when the transport really changed.
SetTransport(t) ==
    /\ transport' = t
    /\ IF t # transport THEN map' = EmptyTable /\ tick' = 0
                        ELSE UNCHANGED <<map, tick>>
    /\ last' = Absent
    /\ UNCHANGED <<firewall, log_open, owner>>

\* The log flag leaves the table alone.
SetLogOpen(open) ==
    /\ log_open' = open
    /\ last' = Absent
    /\ UNCHANGED <<firewall, transport, map, tick, owner>>

\* The kernel hands a closed connection's 5-tuple to another app's socket.
Rebind(k, u) ==
    /\ owner' = [owner EXCEPT ![k] = u]
    /\ last' = Absent
    /\ UNCHANGED <<firewall, transport, log_open, map, tick>>

CacheNext ==
    \/ \E k \in Keys : VerdictBypass(k) \/ VerdictHit(k)
    \/ \E k \in Keys, uid \in Uids \cup {NoUid} : VerdictMiss(k, uid)
    \/ \E rules \in [Uids -> Policies \cup {NoRule}] : SetFirewall(rules)
    \/ \E t \in Transports : SetTransport(t)
    \/ \E open \in BOOLEAN : SetLogOpen(open)
    \/ \E k \in Keys, u \in Uids : Rebind(k, u)

CacheSpec == CacheInit /\ [][CacheNext]_cache_vars

-----------------------------------------------------------------------------
\* Every variable keeps its shape: the rules map, the table's entries and the
\* verdict of the packet in hand.
CacheTypeOK ==
    /\ firewall \in [Uids -> Policies \cup {NoRule}]
    /\ transport \in Transports
    /\ log_open \in BOOLEAN
    /\ map \in [Keys -> Entry \cup {Absent}]
    /\ tick \in Nat
    /\ owner \in [Keys -> Uids]
    /\ last \in [key : Keys, value : Verdict] \cup {Absent}

\* A cached decision is the one policy_blocks would take now: no rule or
\* transport change leaves a verdict of the old policy behind.
VerdictsFresh ==
    \A k \in Held : map[k].value.blocked = policy_blocks(map[k].value.uid)

\* The decision a packet gets, cached, computed or bypassed, is the current
\* policy's decision for the uid it is reported under.
DecisionCurrent ==
    last # Absent => last.value.blocked = policy_blocks(last.value.uid)

\* While any rule exists, a packet is decided only through the table: it can
\* pass unattributed only because its own lookup answered -1.
BackedByTable ==
    last # Absent /\ ~NoRules
        => last.key \in Held /\ map[last.key].value = last.value

\* What a packet is decided by, as a whole: the decision is today's policy for the
\* uid it is reported under, and while a rule exists it is the table's.
DecisionSound == DecisionCurrent /\ BackedByTable

\* A packet decided through the table leaves its flow the most recently used:
\* a busy flow is never the next to be evicted.
DecidedIsNewest ==
    last # Absent /\ ~(NoRules /\ ~log_open)
        => \A k \in Held \ {last.key} : map[k].last_used < map[last.key].last_used

\* The table never outgrows its capacity.
CapRespected == Cardinality(Held) <= Cap

\* Stamps are distinct and never ahead of the clock, so evict_lru has exactly
\* one choice whatever order the HashMap iterates in.
StampsDistinct ==
    /\ \A k \in Held : map[k].last_used <= tick
    /\ \A j, k \in Held : map[j].last_used = map[k].last_used => j = k

\* flow_table.rs: the uid and verdict are cached "so the upcall happens once
\* per connection": a packet is never judged by the uid of an earlier
\* connection on the same 5-tuple.
AttributionCurrent ==
    last # Absent => last.value.uid \in {NoUid, owner[last.key]}

\* The table implements an LRU cache: stamps and clock are one way to keep the
\* order of last use.
Lru == INSTANCE LruCache WITH
    keys <- Held,
    older <- {p \in Held \X Held : map[p[1]].last_used < map[p[2]].last_used}

ImplementsLru == Lru!Spec

=============================================================================
