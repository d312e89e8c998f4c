----------------------------- MODULE Placement -----------------------------
(***************************************************************************)
(* Which node of which network runs where, and on which ports: the grid of *)
(* a pool (internal/resource/pool.go), the ports a slot steps to           *)
(* (ports.go), the inventory that hands slots out (inventory.go), and the  *)
(* place step that draws on it (chainsetup/steps_place.go PlaceNodes and   *)
(* Allocate, observe_discover.go).                                         *)
(*                                                                         *)
(* There is no table of what is taken.  Each network's workspace records   *)
(* its own nodes; an allocator reads every workspace it can find, one      *)
(* after the other, adopts their claims, assigns what is left and saves.   *)
(* Allocators of one server set take turns through the set's lock, which   *)
(* WorkspaceLock.tla shows to be a mutex that survives its holder's death. *)
(***************************************************************************)
EXTENDS Integers, Sequences, FiniteSets

CONSTANTS
    Workspaces,     \* the networks
    Rooted,         \* the ones Discover finds: under the default root
    LockName,       \* the set lock each one's allocator takes
    Pools,          \* the server sets there may be
    Requests,       \* what may be asked for: a layout, the servers, and how many
                    \* p2p-side ports a node of the family reserves
    MaxListenPort,
    MaxRewrites,    \* bound: how often another command saves a workspace meanwhile
    MaxPlaces       \* bound: how many times place is called

Purposes == {"p2p", "etcd", "etcdClient", "http", "ws", "auth", "metrics"}
Band == [base : Nat, step : Nat]
NoBand == [base |-> 0, step |-> 0]

\* A server set that was loaded.  An entry without a name goes by its address.
Pool ==
    [hosts : Seq([name : STRING, addr : STRING]), remote : {"yes", "no"}, slots : Nat \ {0},
     p2p : Band, rpc : Band, ws : Band, auth : Band, metrics : Band]

ASSUME PlacementAssumption ==
    /\ Rooted \subseteq Workspaces /\ "nobody" \notin Workspaces
    /\ \A w \in Workspaces : LockName[w] \in STRING
    /\ Pools \subseteq Pool
    /\ \A p \in Pools : p.hosts # <<>>
    /\ \A r \in Requests : /\ \/ r.layout.auto = "yes" /\ r.layout.others \in Nat
                              \/ r.layout.auto = "no" /\ r.layout.pins \in Seq(STRING)
                           /\ r.server \in Nat /\ r.span \in Nat \ {0}
    /\ MaxListenPort \in Nat
    /\ MaxRewrites \in Nat
    /\ MaxPlaces \in Nat

VARIABLES
    set,        \* the server set
    rec,        \* the node table each workspace has saved, <<>> without one
    torn,       \* the workspaces whose record does not parse just now
    holder,     \* who holds each set lock
    pc,         \* where each workspace's allocator is
    ask,        \* what it was asked for
    read,       \* the workspaces it has read
    taken,      \* the slots it has seen taken
    table,      \* the node table it means to save
    answer,     \* what it found: "placed", "full" or "unfit"
    missed,     \* each allocator that passed a workspace over, and that workspace
    places, rewrites

placementVars == <<set, rec, torn, holder, pc, ask, read, taken, table, answer, missed, places,
                   rewrites>>

Nobody == "nobody"
NoAsk == [layout |-> "none"]

PlacementInit ==
    /\ set \in Pools
    /\ rec = [w \in Workspaces |-> <<>>]
    /\ torn = {}
    /\ holder = [l \in {LockName[w] : w \in Workspaces} |-> Nobody]
    /\ pc = [w \in Workspaces |-> "idle"]
    /\ ask = [w \in Workspaces |-> NoAsk]
    /\ read = [w \in Workspaces |-> {}]
    /\ taken = [w \in Workspaces |-> {}]
    /\ table = [w \in Workspaces |-> <<>>]
    /\ answer = [w \in Workspaces |-> "none"]
    /\ missed = {} /\ places = 0 /\ rewrites = 0

-----------------------------------------------------------------------------
(* The ports of a slot.                                                    *)

Ports(e) == {e[x] : x \in Purposes} \ {0}

Declared(b) == b # NoBand

At(b, i) == b.base + (i - 1) * b.step

\* Every purpose of the node at index i; 0 is none.  Auth and ws follow http
\* unless they have bands of their own, and metrics when the rpc step leaves
\* room.  A metrics band without a step is one port per machine, for its first
\* slot.
PlanBands(i, p, span) ==
    LET p2p == At(p.p2p, i)
        http == At(p.rpc, i)
    IN [p2p |-> p2p,
        etcd |-> IF span >= 2 THEN p2p + 1 ELSE 0,
        etcdClient |-> IF span >= 3 THEN p2p + 2 ELSE 0,
        http |-> http,
        ws |-> IF Declared(p.ws) THEN At(p.ws, i) ELSE http + 1,
        auth |-> IF Declared(p.auth) THEN At(p.auth, i) ELSE http + 2,
        metrics |-> IF Declared(p.metrics)
                    THEN IF p.metrics.step = 0 /\ i > 1 THEN 0 ELSE At(p.metrics, i)
                    ELSE IF p.rpc.step >= 4 THEN http + 3 ELSE 0]

\* The steps leave a node the room its family and the derived ports need.
StepsFit(p, span) ==
    /\ p.p2p.step >= span
    /\ p.rpc.step >= IF Declared(p.ws) /\ Declared(p.auth) THEN 1 ELSE 3
    /\ \A b \in {p.ws, p.auth} : Declared(b) => b.step >= 1

InRange(p, span) ==
    \A i \in 1..p.slots :
        /\ p.p2p.base >= 1 /\ p.rpc.base >= 1
        /\ \A b \in {p.ws, p.auth, p.metrics} : Declared(b) => b.base >= 1
        /\ Ports(PlanBands(i, p, span)) \subseteq 1..MaxListenPort

\* No two ports of one machine are the same, whatever node and purpose.
ValidatePorts(p, span) ==
    \A i, j \in 1..p.slots : \A x, y \in Purposes :
        LET a == PlanBands(i, p, span)[x]
            b == PlanBands(j, p, span)[y]
        IN a = b /\ a # 0 => i = j /\ x = y

Validate(p, span) ==
    /\ \A i, j \in DOMAIN p.hosts :
          i # j => p.hosts[i].name # p.hosts[j].name /\ p.hosts[i].addr # p.hosts[j].addr
    /\ StepsFit(p, span) /\ InRange(p, span) /\ ValidatePorts(p, span)

-----------------------------------------------------------------------------
(* The grid.  Slots are numbered in the order they are handed out: every   *)
(* host's first slot, then every host's second.                            *)

AllSlots(p) == 1 .. Len(p.hosts) * p.slots
Column(p, k) == ((k - 1) % Len(p.hosts)) + 1
HostAt(p, k) == p.hosts[Column(p, k)]
IndexAt(p, k) == ((k - 1) \div Len(p.hosts)) + 1

\* The first host that goes by this name or address.
named(p, host) == {i \in DOMAIN p.hosts : host \in {p.hosts[i].name, p.hosts[i].addr}}
firstNamed(p, host) == {i \in named(p, host) : \A j \in named(p, host) : i <= j}

\* Mutant: the first port of the band is taken for the second slot's.
slotOfShifted(p, n) ==
    {k \in AllSlots(p) :
        /\ Column(p, k) \in firstNamed(p, n.host)
        /\ n.ports["p2p"] + p.p2p.step = At(p.p2p, IndexAt(p, k))}

\* The slot of the pool a recorded node sits in, by its host and p2p port; none
\* when it is not this pool's.
slotOf(p, n) ==
    {k \in AllSlots(p) :
        /\ Column(p, k) \in firstNamed(p, n.host)
        /\ n.ports["p2p"] = At(p.p2p, IndexAt(p, k))}

Adopt(p, nodes) == UNION {slotOf(p, nodes[i]) : i \in DOMAIN nodes}

\* The j-th of a set of slots, in order.
Nth(S, j) == CHOOSE k \in S : Cardinality({l \in S : l <= k}) = j

\* How many of the first i requests name this server ("" for any).
Rank(reqs, i) == Cardinality({j \in 1..i : reqs[j] = reqs[i]})
On(p, free, server) == {k \in free : HostAt(p, k).name = server}

Pinned(reqs) == {i \in DOMAIN reqs : reqs[i] # ""}

\* Mutant: automatic requests are served in their turn, not after the pins.
AssignableInTurn(p, free, reqs) ==
    /\ Cardinality(free) >= Len(reqs)
    /\ \A i \in Pinned(reqs) :
          LET auto == {Nth(free, Rank(reqs, j)) : j \in DOMAIN reqs \ Pinned(reqs)}
          IN /\ \E k \in AllSlots(p) : HostAt(p, k).name = reqs[i]
             /\ Rank(reqs, i) <= Cardinality(On(p, free \ auto, reqs[i]))

\* Every server named is known, and has a free slot for each node pinned to it.
Assignable(p, free, reqs) ==
    /\ Cardinality(free) >= Len(reqs)
    /\ \A i \in Pinned(reqs) :
          /\ \E k \in AllSlots(p) : HostAt(p, k).name = reqs[i]
          /\ Rank(reqs, i) <= Cardinality(On(p, free, reqs[i]))

\* Pins first, each the next free slot of its server; then the rest in order.
Assign(p, free, reqs) ==
    LET pin(i) == Nth(On(p, free, reqs[i]), Rank(reqs, i))
        rest == free \ {pin(i) : i \in Pinned(reqs)}
    IN [i \in DOMAIN reqs |-> IF reqs[i] # "" THEN pin(i) ELSE Nth(rest, Rank(reqs, i))]

-----------------------------------------------------------------------------
(* The place step.                                                         *)

\* The servers the request names: the whole set (0), or one entry of it.
PoolOf(w) == IF ask[w].server = 0 THEN set
             ELSE [set EXCEPT !.hosts = <<set.hosts[ask[w].server]>>]

\* A layout is the server each node is pinned to, or the counts of endpoints and
\* proxies of a network that fills the set: one node per server.
autoValidators(w) == Len(PoolOf(w).hosts) - ask[w].layout.others

placements(w) ==
    IF ask[w].layout.auto = "yes"
    THEN IF autoValidators(w) < 1 THEN <<>> ELSE [i \in DOMAIN PoolOf(w).hosts |-> ""]
    ELSE ask[w].layout.pins

Ends(w) ==
    /\ pc' = [pc EXCEPT ![w] = "idle"]
    /\ ask' = [ask EXCEPT ![w] = NoAsk]
    /\ read' = [read EXCEPT ![w] = {}]
    /\ taken' = [taken EXCEPT ![w] = {}]
    /\ table' = [table EXCEPT ![w] = <<>>]
    /\ answer' = [answer EXCEPT ![w] = "none"]

PlaceNodes(w) ==
    /\ pc[w] = "idle" /\ w \notin torn
    /\ places < MaxPlaces
    /\ places' = places + 1
    /\ pc' = [pc EXCEPT ![w] = "locking"]
    /\ \E r \in Requests :
          /\ r.server <= Len(set.hosts)
          /\ ask' = [ask EXCEPT ![w] = r]
    /\ UNCHANGED <<set, rec, torn, holder, read, taken, table, answer, missed, rewrites>>

\* AcquireSetLock: the lock is taken when it is free or its holder is dead.
AcquireSetLock(w) ==
    /\ pc[w] = "locking"
    /\ holder[LockName[w]] = Nobody
    /\ holder' = [holder EXCEPT ![LockName[w]] = w]
    /\ pc' = [pc EXCEPT ![w] = "looking"]
    /\ UNCHANGED <<set, rec, torn, ask, read, taken, table, answer, missed, places, rewrites>>

\* The wait is over and somebody still holds it.
Contended(w) ==
    /\ pc[w] = "locking"
    /\ holder[LockName[w]] # Nobody
    /\ Ends(w)
    /\ UNCHANGED <<set, rec, torn, holder, missed, places, rewrites>>

Found(w) == Rooted \ {w}

\* Inventory: one workspace after the other, all but its own.  One that cannot be
\* opened is passed over.
Look(w, v) ==
    /\ pc[w] = "looking"
    /\ v \in Found(w) \ read[w]
    /\ read' = [read EXCEPT ![w] = @ \cup {v}]
    /\ IF v \in torn
       THEN missed' = missed \cup {<<w, v>>} /\ UNCHANGED taken
       ELSE taken' = [taken EXCEPT ![w] = @ \cup Adopt(PoolOf(w), rec[v])] /\ UNCHANGED missed
    /\ UNCHANGED <<set, rec, torn, holder, pc, ask, table, answer, places, rewrites>>

free(w) == AllSlots(PoolOf(w)) \ taken[w]

\* The address a node is reached at, and how a record names its machine.
Placed(w, k) ==
    [addr |-> HostAt(PoolOf(w), k).addr,
     host |-> IF set.remote = "yes" THEN HostAt(PoolOf(w), k).name ELSE HostAt(PoolOf(w), k).addr,
     slot |-> k,
     ports |-> PlanBands(IndexAt(PoolOf(w), k), PoolOf(w), ask[w].span)]

Outcome(w) ==
    IF placements(w) = <<>> \/ ~Validate(PoolOf(w), ask[w].span) THEN "unfit"
    ELSE IF ~Assignable(PoolOf(w), free(w), placements(w)) THEN "full"
    ELSE "placed"

\* Nothing is kept of a layout that cannot be placed whole.
Allocate(w) ==
    /\ pc[w] = "looking"
    /\ read[w] = Found(w)
    /\ answer' = [answer EXCEPT ![w] = Outcome(w)]
    /\ IF answer'[w] # "placed"
       THEN table' = [table EXCEPT ![w] = rec[w]]
       ELSE LET slots == Assign(PoolOf(w), free(w), placements(w)) IN
            table' = [table EXCEPT ![w] = [i \in DOMAIN slots |-> Placed(w, slots[i])]]
    /\ pc' = [pc EXCEPT ![w] = "saving"]
    /\ UNCHANGED <<set, rec, torn, holder, ask, read, taken, missed, places, rewrites>>

\* WithWorkspace saves what there is, also after a refusal.
Save(w) ==
    /\ pc[w] = "saving"
    /\ rec' = [rec EXCEPT ![w] = table[w]]
    /\ pc' = [pc EXCEPT ![w] = "releasing"]
    /\ UNCHANGED <<set, torn, holder, ask, read, taken, table, answer, missed, places, rewrites>>

Release(w) ==
    /\ pc[w] = "releasing"
    /\ holder' = [holder EXCEPT ![LockName[w]] = Nobody]
    /\ Ends(w)
    /\ UNCHANGED <<set, rec, torn, missed, places, rewrites>>

\* The allocator is killed; its lock is stale from then on.
Crash(w) ==
    /\ pc[w] # "idle"
    /\ holder' = [l \in DOMAIN holder |-> IF holder[l] = w THEN Nobody ELSE holder[l]]
    /\ Ends(w)
    /\ UNCHANGED <<set, rec, torn, missed, places, rewrites>>

\* chain rm, which gives the slots back by clearing the node table.
Rm(w) ==
    /\ pc[w] = "idle" /\ w \notin torn /\ rec[w] # <<>>
    /\ rec' = [rec EXCEPT ![w] = <<>>]
    /\ UNCHANGED <<set, torn, holder, pc, ask, read, taken, table, answer, missed, places, rewrites>>

\* Another command of a workspace saves: its ledger is truncated, then filled.
Rewrite(w) ==
    /\ pc[w] = "idle"
    /\ \/ /\ w \notin torn /\ rec[w] # <<>> /\ rewrites < MaxRewrites
          /\ torn' = torn \cup {w} /\ rewrites' = rewrites + 1
       \/ w \in torn /\ torn' = torn \ {w} /\ UNCHANGED rewrites
    /\ UNCHANGED <<set, rec, holder, pc, ask, read, taken, table, answer, missed, places>>

PlacementNext ==
    \E w \in Workspaces :
        \/ PlaceNodes(w) \/ AcquireSetLock(w) \/ Contended(w)
        \/ \E v \in Workspaces : Look(w, v)
        \/ Allocate(w) \/ Save(w) \/ Release(w) \/ Crash(w)
        \/ Rm(w) \/ Rewrite(w)

PlacementSpec == PlacementInit /\ [][PlacementNext]_placementVars

-----------------------------------------------------------------------------
(* Properties.                                                             *)

PlacementTypeOK ==
    /\ set \in Pools
    /\ torn \subseteq Workspaces
    /\ \A w \in Workspaces :
          /\ pc[w] \in {"idle", "locking", "looking", "saving", "releasing"}
          /\ read[w] \subseteq Workspaces
          /\ answer[w] \in {"none", "placed", "full", "unfit"}
          /\ (pc[w] \in {"looking", "saving", "releasing"}) = (holder[LockName[w]] = w)
    /\ missed \subseteq Workspaces \X Workspaces
    /\ places \in 0..MaxPlaces /\ rewrites \in 0..MaxRewrites

Clash(m, n) == m.addr = n.addr /\ Ports(m.ports) \cap Ports(n.ports) # {}

\* No other entry of the set has this address, or goes by the name or the address
\* of the one that has it.
OneEntry(p, addr) ==
    \A c, x \in DOMAIN p.hosts :
        /\ p.hosts[c].addr = addr
        /\ {p.hosts[c].name, addr} \cap {p.hosts[x].name, p.hosts[x].addr} # {}
        => c = x

\* What keeps two networks apart does not work for these two: one lies where
\* Discover does not look, they name their set differently and so take different
\* locks, or one passed over the other's record while it was being saved.
Strangers(v, w) ==
    \/ ~({v, w} \subseteq Rooted)
    \/ LockName[v] # LockName[w]
    \/ <<v, w>> \in missed \/ <<w, v>> \in missed

\* No two nodes of one network share a port of a machine, and no two nodes of two
\* networks on one server set do, whoever placed first, on all the servers or on
\* one, with whichever family's reservation, through whatever crashes and removals;
\* except on a machine that the set has under two names, and except for two
\* networks that the lock and the look do not bring together (steps_place.go,
\* PlaceNodes; pool.go, Validate; observe_discover.go, Inventory; setlock.go,
\* setLockPath).
NoPortShared ==
    \A v, w \in Workspaces : \A i \in DOMAIN rec[v], j \in DOMAIN rec[w] :
        <<v, i>> # <<w, j>> /\ Clash(rec[v][i], rec[w][j]) =>
            v # w /\ (Strangers(v, w) \/ ~OneEntry(set, rec[v][i].addr))

\* What PlaceNodes says of the set's lock: that it is held from the look to the
\* save keeps two runs from handing out the same slot.
NeverShared ==
    \A v, w \in Workspaces : \A i \in DOMAIN rec[v], j \in DOMAIN rec[w] :
        Clash(rec[v][i], rec[w][j]) => <<v, i>> = <<w, j>>

\* What placing a layout on the free slots means: a slot of its own for each
\* node, on the server it names.
Serves(p, f, S, reqs) ==
    /\ \A i \in DOMAIN reqs : f[i] \in S
    /\ \A i, j \in DOMAIN reqs : i # j => f[i] # f[j]
    /\ \A i \in DOMAIN reqs : reqs[i] # "" => HostAt(p, f[i]).name = reqs[i]

\* A layout is refused for want of room only when there is no way to place it on
\* what is free, and the placement given is one (inventory.go, Assign).
AssignIsComplete ==
    [][\A w \in Workspaces :
         pc[w] = "looking" /\ pc'[w] = "saving" =>
            LET p == PoolOf(w)
                reqs == placements(w)
            IN /\ answer'[w] = "full" =>
                      ~\E f \in [DOMAIN reqs -> free(w)] : Serves(p, f, free(w), reqs)
               /\ answer'[w] = "placed" =>
                      Serves(p, [i \in DOMAIN reqs |-> table'[w][i].slot], free(w), reqs)]_placementVars
=============================================================================
