------------------------- MODULE ConnectionManager -------------------------
(***************************************************************************)
(* The cache of adapters and SSH tunnels of server/connection/manager.py,  *)
(* with the opening and closing of server/connection/ssh_tunnel.py.        *)
(*                                                                         *)
(* The k-th adapter built for the connection n is <<n, k>>, and so is the  *)
(* k-th SSH login made for it.  A caller is a thread that asks for         *)
(* connections, uses them, and may release them.                           *)
(***************************************************************************)
EXTENDS Naturals, FiniteSets

CONSTANTS
    Callers,   (* threads that use the manager                             *)
    NoCaller,  (* the owner of the free lock                               *)
    Names,     (* the connections of connections.yaml                      *)
    NoName,    (* what a caller that waits for nothing asks for            *)
    Bastion,   (* those with ssh.enabled                                   *)
    Broken,    (* those whose db_type is not registered, or whose adapter  *)
               (* cannot be constructed from the profile                   *)
    LateFails, (* TRUE: open() can fail after the SSH login succeeded      *)
    Raising,   (* the operations in which adapter.close() can raise        *)
    MaxBuilt   (* bound: adapters, and SSH logins, for one connection      *)

ASSUME ManagerAssumption ==
    /\ NoCaller \notin Callers /\ NoName \notin Names
    /\ Bastion \subseteq Names /\ Broken \subseteq Names
    /\ LateFails \in BOOLEAN
    /\ Raising \subseteq {"release", "close_all"}
    /\ MaxBuilt \in Nat

None == 0
Objects == Names \X (1..MaxBuilt)

VARIABLES
    loaded,   (* load() has run                                            *)
    profiles, (* the connections whose profile was resolved                *)
    cache,    (* _adapters: the number of the cached adapter, or None      *)
    tunnels,  (* _tunnels: the number of the tunnel, or None               *)
    lock,     (* _lock                                                     *)
    pc,       (* where each caller is                                      *)
    name,     (* the connection it asks for                                *)
    op,       (* the closing operation it runs                             *)
    closeA,   (* adapters it has still to close                            *)
    closeT,   (* tunnels it has still to close                             *)
    built,    (* adapters built so far                                     *)
    logins,   (* SSH logins so far                                         *)
    liveA,    (* adapters built and not closed                             *)
    liveT,    (* tunnels whose SSH login succeeded and whose close() has    *)
              (* not run                                                   *)
    via,      (* the tunnel whose local port the cached adapter connects to *)
    raised,   (* history: adapters whose close() raised                    *)
    dropped,  (* history: tunnels that a failed operation left unclosed    *)
    exiting   (* the atexit callback has started                           *)

cacheVars  == <<cache, tunnels, via>>
closeVars  == <<op, closeA, closeT>>
objectVars == <<built, logins, liveA, liveT, raised, dropped>>
loadVars   == <<loaded, profiles>>
vars == <<loaded, profiles, cache, tunnels, lock, pc, name, op, closeA, closeT,
          built, logins, liveA, liveT, via, raised, dropped, exiting>>

Goes(c, from, to) == pc[c] = from /\ pc' = [pc EXCEPT ![c] = to]

\* get_connection() is over: the caller has an adapter, or an exception.
Returns(c, to) ==
    /\ pc' = [pc EXCEPT ![c] = to]
    /\ name' = [name EXCEPT ![c] = NoName]

-----------------------------------------------------------------------------
\* load(): a connection whose environment variables are missing is left out
\* and the others are usable.
Load ==
    /\ ~loaded
    /\ loaded' = TRUE
    /\ \E missing \in SUBSET Names : profiles' = Names \ missing
    /\ UNCHANGED <<cacheVars, lock, pc, name, closeVars, objectVars, exiting>>

\* get_connection(), the lookup without the lock.
GetConnection(c, n) ==
    /\ loaded /\ ~exiting
    /\ Goes(c, "idle", IF cache[n] # None THEN "using" ELSE "wait")
    /\ name' = [name EXCEPT ![c] = IF cache[n] # None THEN NoName ELSE n]
    /\ UNCHANGED <<loadVars, cacheVars, lock, closeVars, objectVars, exiting>>

\* Mutant: the lock does not exclude the others.
GetLockedUnguarded(c) ==
    LET n == name[c] IN
    /\ pc[c] = "wait"
    /\ cache[n] = None /\ n \in profiles
    /\ built[n] < MaxBuilt /\ logins[n] < MaxBuilt
    /\ pc' = [pc EXCEPT ![c] = IF n \in Bastion THEN "tunnel" ELSE "build"]
    /\ lock' = c
    /\ UNCHANGED <<loadVars, cacheVars, name, closeVars, objectVars, exiting>>

\* Mutant: no second lookup under the lock.
GetLockedOnce(c) ==
    LET n == name[c] IN
    /\ pc[c] = "wait"
    /\ lock = NoCaller
    /\ n \in profiles
    /\ built[n] < MaxBuilt /\ logins[n] < MaxBuilt
    /\ pc' = [pc EXCEPT ![c] = IF n \in Bastion THEN "tunnel" ELSE "build"]
    /\ lock' = c
    /\ UNCHANGED <<loadVars, cacheVars, name, closeVars, objectVars, exiting>>

\* The lookup under the lock, then the profile.  An unknown connection and one
\* that was left out at load both raise.
GetLocked(c) ==
    LET n == name[c] IN
    /\ pc[c] = "wait"
    /\ lock = NoCaller
    /\ \/ /\ cache[n] # None
          /\ Returns(c, "using")
          /\ UNCHANGED lock
       \/ /\ cache[n] = None /\ n \notin profiles
          /\ Returns(c, "idle")
          /\ UNCHANGED lock
       \/ /\ cache[n] = None /\ n \in profiles
          /\ built[n] < MaxBuilt /\ logins[n] < MaxBuilt
          /\ pc' = [pc EXCEPT ![c] = IF n \in Bastion THEN "tunnel" ELSE "build"]
          /\ lock' = c
          /\ UNCHANGED name
    /\ UNCHANGED <<loadVars, cacheVars, closeVars, objectVars, exiting>>

\* get_connection() raises and the `with` block gives the lock back.
Raises(c) == Returns(c, "idle") /\ lock' = NoCaller

\* Mutant: acquire() and release() without a `finally`.
TunnelRefusedKeepsLock(c) ==
    /\ pc[c] = "tunnel"
    /\ Returns(c, "idle")
    /\ UNCHANGED <<loadVars, cacheVars, lock, closeVars, objectVars, exiting>>

\* The tunnel cannot be configured for this profile, or the login is refused.
TunnelRefused(c) ==
    /\ pc[c] = "tunnel"
    /\ Raises(c)
    /\ UNCHANGED <<loadVars, cacheVars, closeVars, objectVars, exiting>>

Login(n) ==
    /\ logins' = [logins EXCEPT ![n] = @ + 1]
    /\ liveT' = liveT \cup {<<n, logins[n] + 1>>}

\* The login succeeds; the transport is gone or no local port can be bound.
TunnelFailsLate(c) ==
    /\ LateFails
    /\ pc[c] = "tunnel"
    /\ Login(name[c])
    /\ Raises(c)
    /\ dropped' = dropped \cup {<<name[c], logins'[name[c]]>>}
    /\ UNCHANGED <<loadVars, cacheVars, closeVars, built, liveA, raised, exiting>>

OpenTunnel(c) ==
    LET n == name[c] IN
    /\ Goes(c, "tunnel", "build")
    /\ Login(n)
    /\ tunnels' = [tunnels EXCEPT ![n] = logins[n] + 1]
    /\ UNCHANGED <<loadVars, cache, via, lock, name, closeVars,
                   built, liveA, raised, dropped, exiting>>

\* AdapterRegistry.resolve() and the constructor.
BuildAdapter(c) ==
    LET n == name[c] IN
    /\ pc[c] = "build"
    /\ IF n \in Broken
       THEN /\ Raises(c)
            /\ dropped' = dropped \cup ({<<n, tunnels[n]>>} \cap Objects)
            /\ UNCHANGED <<cacheVars, built, liveA>>
       ELSE /\ built' = [built EXCEPT ![n] = @ + 1]
            /\ liveA' = liveA \cup {<<n, built[n] + 1>>}
            /\ cache' = [cache EXCEPT ![n] = built[n] + 1]
            /\ via' = [via EXCEPT ![n] = tunnels[n]]
            /\ Returns(c, "using")
            /\ lock' = NoCaller
            /\ UNCHANGED <<tunnels, dropped>>
    /\ UNCHANGED <<loadVars, closeVars, logins, liveT, raised, exiting>>

\* The tool is done with the adapter; the cache keeps it.
Finish(c) ==
    /\ Goes(c, "using", "idle")
    /\ UNCHANGED <<loadVars, cacheVars, lock, name, closeVars, objectVars, exiting>>

-----------------------------------------------------------------------------
\* Mutant: no test for None before the close.
TakeOutNothing(c, S, what) ==
    /\ loaded
    /\ lock = NoCaller
    /\ Goes(c, "idle", "closing")
    /\ op' = [op EXCEPT ![c] = what]
    /\ closeA' = [closeA EXCEPT ![c] = {<<n, cache[n]>> : n \in S}]
    /\ closeT' = [closeT EXCEPT ![c] = {<<n, tunnels[n]>> : n \in S}]
    /\ cache' = [n \in Names |-> IF n \in S THEN None ELSE cache[n]]
    /\ tunnels' = [n \in Names |-> IF n \in S THEN None ELSE tunnels[n]]
    /\ via' = [n \in Names |-> IF n \in S THEN None ELSE via[n]]
    /\ UNCHANGED <<loadVars, lock, name, objectVars>>

\* Mutant: the adapter is closed but stays in the cache.
TakeOutKeepsAdapter(c, S, what) ==
    /\ loaded
    /\ lock = NoCaller
    /\ Goes(c, "idle", "closing")
    /\ op' = [op EXCEPT ![c] = what]
    /\ closeA' = [closeA EXCEPT ![c] = {<<n, cache[n]>> : n \in {m \in S : cache[m] # None}}]
    /\ closeT' = [closeT EXCEPT ![c] = {<<n, tunnels[n]>> : n \in {m \in S : tunnels[m] # None}}]
    /\ tunnels' = [n \in Names |-> IF n \in S THEN None ELSE tunnels[n]]
    /\ UNCHANGED <<loadVars, cache, via, lock, name, objectVars>>

\* Under the lock: what is cached for the connections in S is taken out of the
\* cache, to be closed after the lock is given back.
TakeOut(c, S, what) ==
    /\ loaded
    /\ lock = NoCaller
    /\ Goes(c, "idle", "closing")
    /\ op' = [op EXCEPT ![c] = what]
    /\ closeA' = [closeA EXCEPT ![c] = {<<n, cache[n]>> : n \in {m \in S : cache[m] # None}}]
    /\ closeT' = [closeT EXCEPT ![c] = {<<n, tunnels[n]>> : n \in {m \in S : tunnels[m] # None}}]
    /\ cache' = [n \in Names |-> IF n \in S THEN None ELSE cache[n]]
    /\ tunnels' = [n \in Names |-> IF n \in S THEN None ELSE tunnels[n]]
    /\ via' = [n \in Names |-> IF n \in S THEN None ELSE via[n]]
    /\ UNCHANGED <<loadVars, lock, name, objectVars>>

Release(c, n) == ~exiting /\ TakeOut(c, {n}, "release") /\ UNCHANGED exiting

\* The atexit callback: no tool is running any more.
CloseAll(c) ==
    /\ ~exiting
    /\ \A d \in Callers : pc[d] \in {"idle", "closing"}
    /\ TakeOut(c, Names, "close_all")
    /\ exiting' = TRUE

\* Mutant: close_all() does not swallow the exception either.
CloseAdapterStops(c, a, raises) ==
    /\ pc[c] = "closing"
    /\ a \in closeA[c]
    /\ raises => op[c] \in Raising
    /\ IF raises
       THEN /\ raised' = raised \cup {a}
            /\ closeA' = [closeA EXCEPT ![c] = {}]
            /\ closeT' = [closeT EXCEPT ![c] = {}]
            /\ UNCHANGED liveA
       ELSE /\ liveA' = liveA \ {a}
            /\ closeA' = [closeA EXCEPT ![c] = @ \ {a}]
            /\ UNCHANGED <<raised, closeT>>
    /\ UNCHANGED <<loadVars, cacheVars, lock, pc, name, op, built, logins, liveT,
                   dropped, exiting>>

\* The adapters first; an exception is swallowed by close_all() and ends
\* release().
CloseAdapter(c, a, raises) ==
    /\ pc[c] = "closing"
    /\ a \in closeA[c]
    /\ raises => op[c] \in Raising
    /\ closeA' = [closeA EXCEPT ![c] = @ \ {a}]
    /\ IF raises
       THEN /\ raised' = raised \cup {a}
            /\ IF op[c] = "release"
               THEN /\ closeT' = [closeT EXCEPT ![c] = {}]
                    /\ dropped' = dropped \cup closeT[c]
               ELSE UNCHANGED <<closeT, dropped>>
            /\ UNCHANGED liveA
       ELSE liveA' = liveA \ {a} /\ UNCHANGED <<raised, dropped, closeT>>
    /\ UNCHANGED <<loadVars, cacheVars, lock, pc, name, op, built, logins, liveT, exiting>>

\* Then the tunnels.
CloseTunnel(c, t) ==
    /\ pc[c] = "closing"
    /\ closeA[c] = {}
    /\ t \in closeT[c]
    /\ closeT' = [closeT EXCEPT ![c] = @ \ {t}]
    /\ liveT' = liveT \ {t}
    /\ UNCHANGED <<loadVars, cacheVars, lock, pc, name, op, closeA,
                   built, logins, liveA, raised, dropped, exiting>>

Closed(c) ==
    /\ closeA[c] = {} /\ closeT[c] = {}
    /\ Goes(c, "closing", "idle")
    /\ op' = [op EXCEPT ![c] = "none"]
    /\ UNCHANGED <<loadVars, cacheVars, lock, name, closeA, closeT,
                   objectVars, exiting>>

-----------------------------------------------------------------------------
Init ==
    /\ loaded = FALSE
    /\ profiles = {}
    /\ cache = [n \in Names |-> None]
    /\ tunnels = [n \in Names |-> None]
    /\ via = [n \in Names |-> None]
    /\ lock = NoCaller
    /\ pc = [c \in Callers |-> "idle"]
    /\ name = [c \in Callers |-> NoName]
    /\ op = [c \in Callers |-> "none"]
    /\ closeA = [c \in Callers |-> {}]
    /\ closeT = [c \in Callers |-> {}]
    /\ built = [n \in Names |-> 0]
    /\ logins = [n \in Names |-> 0]
    /\ liveA = {}
    /\ liveT = {}
    /\ raised = {}
    /\ dropped = {}
    /\ exiting = FALSE

Getting(c) ==
    GetLocked(c) \/ TunnelRefused(c) \/ TunnelFailsLate(c) \/ OpenTunnel(c) \/ BuildAdapter(c)

Closing(c) ==
    \/ \E a \in closeA[c], raises \in BOOLEAN : CloseAdapter(c, a, raises)
    \/ \E t \in closeT[c] : CloseTunnel(c, t)
    \/ Closed(c)

Next ==
    \/ Load
    \/ \E c \in Callers, n \in Names : GetConnection(c, n) \/ Release(c, n)
    \/ \E c \in Callers : Getting(c) \/ Finish(c) \/ CloseAll(c) \/ Closing(c)

Spec == Init /\ [][Next]_vars

\* Threads run, SSH logins and close calls return.
Fairness == \A c \in Callers : WF_vars(Getting(c) \/ Finish(c) \/ Closing(c))

FairSpec == Spec /\ Fairness

-----------------------------------------------------------------------------
(* Properties.                                                             *)

TypeOK ==
    /\ loaded \in BOOLEAN
    /\ profiles \in SUBSET Names
    /\ cache \in [Names -> 0..MaxBuilt]
    /\ tunnels \in [Names -> 0..MaxBuilt]
    /\ via \in [Names -> 0..MaxBuilt]
    /\ lock \in Callers \cup {NoCaller}
    /\ pc \in [Callers -> {"idle", "wait", "tunnel", "build", "using", "closing"}]
    /\ name \in [Callers -> Names \cup {NoName}]
    /\ op \in [Callers -> {"none", "release", "close_all"}]
    /\ closeA \in [Callers -> SUBSET Objects]
    /\ closeT \in [Callers -> SUBSET Objects]
    /\ built \in [Names -> 0..MaxBuilt]
    /\ logins \in [Names -> 0..MaxBuilt]
    /\ liveA \in SUBSET Objects
    /\ liveT \in SUBSET Objects
    /\ raised \in SUBSET Objects
    /\ dropped \in SUBSET Objects
    /\ exiting \in BOOLEAN

\* A thread is in the critical section exactly when it has the lock.
LockMutex ==
    \A c \in Callers : pc[c] \in {"tunnel", "build"} <=> lock = c

\* No adapter is built and then forgotten, however many threads ask for the
\* same connection at once: one that is not closed is the cached one of its
\* connection, or some thread is closing it, or its close() raised.
NoAdapterForgotten ==
    \A a \in liveA : \/ cache[a[1]] = a[2]
                     \/ \E c \in Callers : a \in closeA[c]
                     \/ a \in raised

\* A cached adapter of a connection behind a bastion connects to the port of
\* the registered tunnel, and that tunnel is open.
CachedAdapterHasTunnel ==
    \A n \in Bastion : cache[n] # None =>
        via[n] # None /\ via[n] = tunnels[n] /\ <<n, via[n]>> \in liveT

\* A thread that opens a connection gives the lock back whatever fails on the
\* way, so that the others do not wait for ever.
LockIsGivenBack ==
    \A c \in Callers : (lock = c) ~> (lock # c)

\* When no tool is running and close_all() is done, what is still open is what
\* a failed operation dropped: an adapter whose close() raised, the tunnel of a
\* get_connection() or a release() that raised.
ClosedAtEnd == exiting /\ \A c \in Callers : pc[c] = "idle"

CloseAllClosesTheRest == ClosedAtEnd => liveA \subseteq raised /\ liveT \subseteq dropped

\* main.py:328-329: at the end of the process every connection is closed, the
\* SSH tunnels included.  (An adapter whose close() raised is not counted.)
CloseAllLeavesNothing == ClosedAtEnd => liveA \subseteq raised /\ liveT = {}
=============================================================================
