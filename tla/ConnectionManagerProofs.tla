---------------------- MODULE ConnectionManagerProofs ----------------------
(***************************************************************************)
(* Proofs about ConnectionManager for any number of threads, connections   *)
(* and attempts.                                                           *)
(*                                                                         *)
(* What makes the cache safe is that a thread between the second lookup    *)
(* and the store owns the lock, and that the connection it opens has no    *)
(* cached adapter all that time (Opening).  The tunnels need two facts     *)
(* more: a registered one is open and nobody closes it (TunnelsOpen), and  *)
(* one that is open belongs to somebody or was dropped (NoTunnelForgotten).*)
(***************************************************************************)
EXTENDS ConnectionManager, TLAPS

Opening ==
    \A c \in Callers :
        /\ pc[c] \in {"wait", "tunnel", "build"} => name[c] \in Names
        /\ pc[c] \in {"tunnel", "build"} =>
              cache[name[c]] = None /\ built[name[c]] < MaxBuilt
        /\ pc[c] = "tunnel" => logins[name[c]] < MaxBuilt
        /\ pc[c] = "build" /\ name[c] \in Bastion => tunnels[name[c]] # None
        /\ pc[c] # "closing" => closeA[c] = {} /\ closeT[c] = {}

\* A login number that a thread is to close is an old one, and not the one
\* that is registered.
TunnelsOpen ==
    /\ \A n \in Names : tunnels[n] # None =>
          tunnels[n] <= logins[n] /\ <<n, tunnels[n]>> \in liveT
    /\ \A c \in Callers, n \in Names, k \in 1..MaxBuilt : <<n, k>> \in closeT[c] =>
          k <= logins[n] /\ k # tunnels[n]

NoTunnelForgotten ==
    /\ \A t \in liveT : \/ tunnels[t[1]] = t[2]
                        \/ \E c \in Callers : t \in closeT[c]
                        \/ t \in dropped
    /\ \A n \in Names : tunnels[n] # None =>
          \/ cache[n] # None
          \/ <<n, tunnels[n]>> \in dropped
          \/ \E c \in Callers : pc[c] = "build" /\ name[c] = n

AfterExit ==
    exiting => /\ \A c \in Callers : pc[c] \in {"idle", "closing"}
               /\ \A n \in Names : cache[n] = None /\ tunnels[n] = None

IInv ==
    /\ TypeOK
    /\ LockMutex
    /\ Opening
    /\ TunnelsOpen
    /\ CachedAdapterHasTunnel
    /\ NoAdapterForgotten
    /\ NoTunnelForgotten
    /\ AfterExit

-----------------------------------------------------------------------------
\* The k-th tunnel of a connection.
LEMMA TunnelIsObject ==
    ASSUME NEW n \in Names, NEW k \in 0..MaxBuilt, k # None
    PROVE  <<n, k>> \in Objects
BY DEF Objects, None

LEMMA InitIInv == Init => IInv
<1> SUFFICES ASSUME Init PROVE IInv
  OBVIOUS
<1>1. TypeOK
  <2>1. /\ cache \in [Names -> 0..MaxBuilt] /\ tunnels \in [Names -> 0..MaxBuilt]
        /\ via \in [Names -> 0..MaxBuilt] /\ built \in [Names -> 0..MaxBuilt]
        /\ logins \in [Names -> 0..MaxBuilt]
    BY ManagerAssumption DEF Init, None
  <2>2. /\ pc \in [Callers -> {"idle", "wait", "tunnel", "build", "using", "closing"}]
        /\ op \in [Callers -> {"none", "release", "close_all"}]
        /\ name \in [Callers -> Names \cup {NoName}]
    BY DEF Init
  <2>3. closeA \in [Callers -> SUBSET Objects] /\ closeT \in [Callers -> SUBSET Objects]
    BY DEF Init
  <2> QED
    BY <2>1, <2>2, <2>3 DEF Init, TypeOK
<1>2. LockMutex /\ Opening /\ AfterExit
  BY ManagerAssumption DEF Init, LockMutex, Opening, AfterExit
<1>3. TunnelsOpen /\ CachedAdapterHasTunnel
  BY ManagerAssumption DEF Init, TunnelsOpen, CachedAdapterHasTunnel
<1>4. NoAdapterForgotten /\ NoTunnelForgotten
  BY DEF Init, NoAdapterForgotten, NoTunnelForgotten
<1> QED
  BY <1>1, <1>2, <1>3, <1>4 DEF IInv

LEMMA LoadStep ==
    ASSUME IInv, Load
    PROVE  IInv'
<1>1. TypeOK'
  BY DEF IInv, TypeOK, Load, cacheVars, closeVars, objectVars
<1>2. /\ LockMutex'
      /\ Opening'
      /\ TunnelsOpen'
      /\ CachedAdapterHasTunnel'
      /\ NoAdapterForgotten'
      /\ NoTunnelForgotten'
      /\ AfterExit'
  BY DEF IInv, LockMutex, Opening, TunnelsOpen, CachedAdapterHasTunnel,
     NoAdapterForgotten, NoTunnelForgotten, AfterExit, Load, cacheVars,
     closeVars, objectVars
<1> QED
  BY <1>1, <1>2 DEF IInv

LEMMA GetConnectionStep ==
    ASSUME IInv, NEW c \in Callers, NEW n \in Names, GetConnection(c, n)
    PROVE  IInv'
<1>1. TypeOK'
  BY DEF IInv, TypeOK, GetConnection, Goes, cacheVars, closeVars, objectVars,
     loadVars
<1>2. LockMutex'
  BY DEF IInv, LockMutex, GetConnection, Goes
<1>3. Opening'
  BY DEF IInv, TypeOK, Opening, GetConnection, Goes, cacheVars, closeVars,
     objectVars
<1>4. NoTunnelForgotten'
  BY DEF IInv, NoTunnelForgotten, GetConnection, Goes, cacheVars, closeVars,
     objectVars
<1>5. AfterExit'
  BY DEF AfterExit, GetConnection
<1>6. TunnelsOpen' /\ CachedAdapterHasTunnel' /\ NoAdapterForgotten'
  BY DEF IInv, TunnelsOpen, CachedAdapterHasTunnel, NoAdapterForgotten,
     GetConnection, cacheVars, closeVars, objectVars
<1> QED
  BY <1>1, <1>2, <1>3, <1>4, <1>5, <1>6 DEF IInv

LEMMA GetLockedStep ==
    ASSUME IInv, NEW c \in Callers, GetLocked(c)
    PROVE  IInv'
<1>1. TypeOK'
  BY DEF IInv, TypeOK, GetLocked, Returns, cacheVars, closeVars, objectVars,
     loadVars
<1>2. LockMutex'
  BY ManagerAssumption DEF IInv, TypeOK, LockMutex, GetLocked, Returns
<1>3. Opening'
  BY DEF IInv, TypeOK, Opening, GetLocked, Returns, cacheVars, closeVars,
     objectVars
<1>4. NoTunnelForgotten'
  BY DEF IInv, TypeOK, NoTunnelForgotten, GetLocked, Returns, cacheVars,
     closeVars, objectVars
<1>5. AfterExit'
  BY DEF IInv, AfterExit, GetLocked
<1>6. TunnelsOpen' /\ CachedAdapterHasTunnel' /\ NoAdapterForgotten'
  BY DEF IInv, TunnelsOpen, CachedAdapterHasTunnel, NoAdapterForgotten,
     GetLocked, cacheVars, closeVars, objectVars
<1> QED
  BY <1>1, <1>2, <1>3, <1>4, <1>5, <1>6 DEF IInv

LEMMA TunnelRefusedStep ==
    ASSUME IInv, NEW c \in Callers, TunnelRefused(c)
    PROVE  IInv'
<1>1. TypeOK'
  BY DEF IInv, TypeOK, TunnelRefused, Raises, Returns, cacheVars, closeVars,
     objectVars, loadVars
<1>2. LockMutex'
  BY ManagerAssumption DEF IInv, TypeOK, LockMutex, TunnelRefused, Raises,
     Returns
<1>3. Opening'
  BY DEF IInv, TypeOK, LockMutex, Opening, TunnelRefused, Raises, Returns,
     closeVars
<1>4. NoTunnelForgotten'
  BY DEF IInv, LockMutex, NoTunnelForgotten, TunnelRefused, cacheVars,
     closeVars, objectVars
<1>5. AfterExit'
  BY DEF IInv, AfterExit, TunnelRefused
<1>6. TunnelsOpen' /\ CachedAdapterHasTunnel' /\ NoAdapterForgotten'
  BY DEF IInv, TunnelsOpen, CachedAdapterHasTunnel, NoAdapterForgotten,
     TunnelRefused, cacheVars, closeVars, objectVars
<1> QED
  BY <1>1, <1>2, <1>3, <1>4, <1>5, <1>6 DEF IInv

LEMMA TunnelFailsLateStep ==
    ASSUME IInv, NEW c \in Callers, TunnelFailsLate(c)
    PROVE  IInv'
<1>1. TypeOK'
  <2>1. name[c] \in Names /\ logins[name[c]] + 1 \in 1..MaxBuilt
    BY ManagerAssumption DEF IInv, TypeOK, Opening, TunnelFailsLate
  <2>2. <<name[c], logins[name[c]] + 1>> \in Objects
    BY <2>1 DEF Objects
  <2>3. logins' \in [Names -> 0..MaxBuilt] /\ logins'[name[c]] = logins[name[c]] + 1
    BY <2>1 DEF IInv, TypeOK, TunnelFailsLate, Login
  <2>4. liveT' \in SUBSET Objects /\ dropped' \in SUBSET Objects
    BY <2>2, <2>3 DEF IInv, TypeOK, TunnelFailsLate, Login
  <2> QED
    BY <2>3, <2>4 DEF IInv, TypeOK, TunnelFailsLate, Raises, Returns,
       loadVars, cacheVars, closeVars
<1>2. LockMutex'
  BY ManagerAssumption DEF IInv, TypeOK, LockMutex, TunnelFailsLate, Raises,
     Returns
<1>3. Opening'
  BY DEF IInv, TypeOK, LockMutex, Opening, TunnelFailsLate, Raises, Returns,
     closeVars
<1>4. TunnelsOpen'
  BY DEF IInv, TypeOK, TunnelsOpen, TunnelFailsLate, Login, cacheVars,
     closeVars
<1>5. CachedAdapterHasTunnel'
  BY DEF IInv, CachedAdapterHasTunnel, TunnelFailsLate, Login, cacheVars
<1>6. NoTunnelForgotten'
  BY DEF IInv, TypeOK, LockMutex, Opening, NoTunnelForgotten, TunnelFailsLate,
     Login, Raises, cacheVars, closeVars
<1>7. AfterExit'
  BY DEF IInv, AfterExit, TunnelFailsLate
<1>8. NoAdapterForgotten'
  BY DEF IInv, NoAdapterForgotten, TunnelFailsLate, cacheVars, closeVars
<1> QED
  BY <1>1, <1>2, <1>3, <1>4, <1>5, <1>6, <1>7, <1>8 DEF IInv

LEMMA OpenTunnelStep ==
    ASSUME IInv, NEW c \in Callers, OpenTunnel(c)
    PROVE  IInv'
<1>1. TypeOK'
  <2>1. name[c] \in Names /\ logins[name[c]] + 1 \in 1..MaxBuilt
    BY ManagerAssumption DEF IInv, TypeOK, Opening, OpenTunnel, Goes
  <2>2. <<name[c], logins[name[c]] + 1>> \in Objects
    BY <2>1 DEF Objects
  <2>3. /\ logins' \in [Names -> 0..MaxBuilt]
        /\ tunnels' \in [Names -> 0..MaxBuilt]
        /\ liveT' \in SUBSET Objects
    BY <2>1, <2>2 DEF IInv, TypeOK, OpenTunnel, Login
  <2> QED
    BY <2>3 DEF IInv, TypeOK, OpenTunnel, Goes, loadVars, closeVars
<1>2. LockMutex'
  BY DEF IInv, LockMutex, OpenTunnel, Goes
<1>3. Opening'
  BY DEF IInv, TypeOK, LockMutex, Opening, OpenTunnel, Goes, None, closeVars
<1>4. TunnelsOpen'
  BY DEF IInv, TypeOK, TunnelsOpen, OpenTunnel, Login, closeVars
<1>5. CachedAdapterHasTunnel'
  BY DEF IInv, Opening, CachedAdapterHasTunnel, OpenTunnel, Login, Goes
<1>6. NoTunnelForgotten'
  <2> DEFINE n == name[c]
             k == logins[n] + 1
  <2>1. /\ n \in Names /\ cache[n] = None /\ lock = c
        /\ tunnels' = [tunnels EXCEPT ![n] = k]
        /\ liveT' = liveT \cup {<<n, k>>}
        /\ pc' = [pc EXCEPT ![c] = "build"]
        /\ UNCHANGED <<cache, name, closeT, dropped>>
    BY DEF IInv, Opening, LockMutex, OpenTunnel, Login, Goes, closeVars
  <2>2. tunnels[n] # None => <<n, tunnels[n]>> \in dropped
    BY <2>1 DEF IInv, NoTunnelForgotten, LockMutex, OpenTunnel, Goes
  <2>3. ASSUME NEW t \in liveT'
        PROVE  \/ tunnels'[t[1]] = t[2]
               \/ \E d \in Callers : t \in closeT'[d]
               \/ t \in dropped'
    <3>1. CASE t = <<n, k>>
      BY <3>1, <2>1 DEF IInv, TypeOK
    <3>2. CASE t \in liveT /\ t[1] = n
      <4>1. t = <<t[1], t[2]>> /\ t[2] # None
        BY <3>2 DEF IInv, TypeOK, Objects, None
      <4> QED
        BY <4>1, <3>2, <2>1, <2>2 DEF IInv, NoTunnelForgotten
    <3>3. CASE t \in liveT /\ t[1] # n
      <4>1. t[1] \in Names
        BY <3>3 DEF IInv, TypeOK, Objects
      <4> QED
        BY <4>1, <3>3, <2>1 DEF IInv, NoTunnelForgotten
    <3> QED
      BY <3>1, <3>2, <3>3, <2>1
  <2>4. ASSUME NEW m \in Names, tunnels'[m] # None
        PROVE  \/ cache'[m] # None
               \/ <<m, tunnels'[m]>> \in dropped'
               \/ \E d \in Callers : pc'[d] = "build" /\ name'[d] = m
    <3>1. CASE m = n
      BY <3>1, <2>1 DEF IInv, TypeOK
    <3>2. CASE m # n
      BY <3>2, <2>1, <2>4 DEF IInv, NoTunnelForgotten
    <3> QED
      BY <3>1, <3>2
  <2> QED
    BY <2>3, <2>4 DEF NoTunnelForgotten
<1>7. AfterExit'
  BY DEF IInv, AfterExit, OpenTunnel, Goes
<1>8. NoAdapterForgotten'
  BY DEF IInv, NoAdapterForgotten, OpenTunnel, closeVars
<1> QED
  BY <1>1, <1>2, <1>3, <1>4, <1>5, <1>6, <1>7, <1>8 DEF IInv

LEMMA BuildAdapterStep ==
    ASSUME IInv, NEW c \in Callers, BuildAdapter(c)
    PROVE  IInv'
<1>1. TypeOK'
  <2> DEFINE n == name[c]
  <2>1. n \in Names /\ tunnels[n] \in 0..MaxBuilt /\ built[n] + 1 \in 1..MaxBuilt
    BY ManagerAssumption DEF IInv, TypeOK, Opening, BuildAdapter
  <2>2. <<n, built[n] + 1>> \in Objects
    BY <2>1 DEF Objects
  <2>3. /\ built' \in [Names -> 0..MaxBuilt]
        /\ cache' \in [Names -> 0..MaxBuilt]
        /\ via' \in [Names -> 0..MaxBuilt]
    BY <2>1 DEF IInv, TypeOK, BuildAdapter, cacheVars
  <2>4. liveA' \in SUBSET Objects /\ dropped' \in SUBSET Objects
    BY <2>2 DEF IInv, TypeOK, BuildAdapter
  <2>5. pc' \in [Callers -> {"idle", "wait", "tunnel", "build", "using", "closing"}]
    BY DEF IInv, TypeOK, BuildAdapter, Raises, Returns
  <2>6. name' \in [Callers -> Names \cup {NoName}] /\ lock' = NoCaller
    BY DEF IInv, TypeOK, BuildAdapter, Raises, Returns
  <2> QED
    BY <2>3, <2>4, <2>5, <2>6 DEF IInv, TypeOK, BuildAdapter, loadVars,
       closeVars, cacheVars
<1>2. LockMutex'
  BY ManagerAssumption DEF IInv, TypeOK, LockMutex, BuildAdapter, Raises,
     Returns
<1>3. Opening'
  BY DEF IInv, TypeOK, LockMutex, Opening, BuildAdapter, Raises, Returns,
     closeVars
<1>4. CachedAdapterHasTunnel'
  <2>1. CASE name[c] \in Broken
    BY <2>1 DEF IInv, CachedAdapterHasTunnel, BuildAdapter, cacheVars
  <2>2. CASE name[c] \notin Broken
    <3>1. /\ name[c] \in Names
          /\ name[c] \in Bastion =>
                tunnels[name[c]] # None /\ <<name[c], tunnels[name[c]]>> \in liveT
      BY DEF IInv, Opening, TunnelsOpen, BuildAdapter
    <3>2. /\ cache' = [cache EXCEPT ![name[c]] = built[name[c]] + 1]
          /\ via' = [via EXCEPT ![name[c]] = tunnels[name[c]]]
          /\ UNCHANGED <<tunnels, liveT>>
      BY <2>2 DEF BuildAdapter
    <3> QED
      BY <3>1, <3>2 DEF IInv, TypeOK, CachedAdapterHasTunnel
  <2> QED
    BY <2>1, <2>2
<1>5. NoAdapterForgotten'
  BY DEF IInv, TypeOK, Opening, NoAdapterForgotten, BuildAdapter, None,
     Objects, cacheVars, closeVars
<1>6. NoTunnelForgotten'
  <2> DEFINE n == name[c]
  <2>1. /\ n \in Names /\ pc[c] = "build" /\ lock = c
        /\ dropped \subseteq dropped'
        /\ UNCHANGED <<tunnels, liveT, closeT>>
    BY DEF IInv, Opening, LockMutex, BuildAdapter, cacheVars, closeVars
  <2>2. \A d \in Callers : pc[d] = "build" => d = c
    BY <2>1 DEF IInv, LockMutex
  <2>3. tunnels[n] # None => cache'[n] # None \/ <<n, tunnels[n]>> \in dropped'
    <3>1. CASE n \in Broken
      <4>1. tunnels[n] # None => <<n, tunnels[n]>> \in Objects
        BY <2>1, TunnelIsObject DEF IInv, TypeOK
      <4> QED
        BY <3>1, <4>1 DEF BuildAdapter
    <3>2. CASE n \notin Broken
      BY <3>2, <2>1 DEF BuildAdapter, IInv, TypeOK, None
    <3> QED
      BY <3>1, <3>2
  <2>4. \A m \in Names : m # n => cache'[m] = cache[m]
    BY <2>1 DEF IInv, TypeOK, BuildAdapter, cacheVars
  <2>5. ASSUME NEW m \in Names, tunnels'[m] # None
        PROVE  cache'[m] # None \/ <<m, tunnels'[m]>> \in dropped'
    <3>1. CASE m = n
      BY <3>1, <2>1, <2>3, <2>5
    <3>2. CASE m # n
      BY <3>2, <2>1, <2>2, <2>4, <2>5 DEF IInv, NoTunnelForgotten
    <3> QED
      BY <3>1, <3>2
  <2> QED
    BY <2>1, <2>5 DEF IInv, NoTunnelForgotten
<1>7. AfterExit'
  BY DEF IInv, AfterExit, BuildAdapter
<1>8. TunnelsOpen'
  BY DEF IInv, TunnelsOpen, BuildAdapter, cacheVars, closeVars
<1> QED
  BY <1>1, <1>2, <1>3, <1>4, <1>5, <1>6, <1>7, <1>8 DEF IInv

LEMMA FinishStep ==
    ASSUME IInv, NEW c \in Callers, Finish(c)
    PROVE  IInv'
<1>1. TypeOK'
  BY DEF IInv, TypeOK, Finish, Goes, cacheVars, closeVars, objectVars,
     loadVars
<1>2. LockMutex'
  BY DEF IInv, LockMutex, Finish, Goes
<1>3. Opening'
  BY DEF IInv, Opening, Finish, Goes, cacheVars, closeVars, objectVars
<1>4. NoTunnelForgotten'
  BY DEF IInv, NoTunnelForgotten, Finish, Goes, cacheVars, closeVars,
     objectVars
<1>5. AfterExit'
  BY DEF IInv, AfterExit, Finish, Goes
<1>6. TunnelsOpen' /\ CachedAdapterHasTunnel' /\ NoAdapterForgotten'
  BY DEF IInv, TunnelsOpen, CachedAdapterHasTunnel, NoAdapterForgotten,
     Finish, cacheVars, closeVars, objectVars
<1> QED
  BY <1>1, <1>2, <1>3, <1>4, <1>5, <1>6 DEF IInv

\* What release() and close_all() have in common.
LEMMA TakeOutStep ==
    ASSUME IInv, NEW c \in Callers, NEW S \in SUBSET Names,
           NEW what \in {"release", "close_all"}, TakeOut(c, S, what)
    PROVE  /\ (TypeOK /\ exiting' \in BOOLEAN => TypeOK')
           /\ LockMutex' /\ Opening' /\ TunnelsOpen' /\ CachedAdapterHasTunnel'
           /\ NoAdapterForgotten' /\ NoTunnelForgotten'
<1>1. /\ pc[c] = "idle" /\ pc' = [pc EXCEPT ![c] = "closing"]
      /\ closeA[c] = {} /\ closeT[c] = {}
      /\ \A d \in Callers : pc[d] \notin {"tunnel", "build"}
  BY ManagerAssumption DEF IInv, Opening, LockMutex, TakeOut, Goes
<1>2. \A d \in Callers \ {c} : closeA'[d] = closeA[d] /\ closeT'[d] = closeT[d]
  BY DEF TakeOut
<1>3. /\ closeA'[c] = {<<n, cache[n]>> : n \in {m \in S : cache[m] # None}}
      /\ closeT'[c] = {<<n, tunnels[n]>> : n \in {m \in S : tunnels[m] # None}}
  BY DEF IInv, TypeOK, TakeOut
<1>4. \A n \in Names : /\ cache'[n] = IF n \in S THEN None ELSE cache[n]
                       /\ tunnels'[n] = IF n \in S THEN None ELSE tunnels[n]
                       /\ via'[n] = IF n \in S THEN None ELSE via[n]
  BY DEF TakeOut
<1>5. UNCHANGED <<loaded, profiles, lock, name, built, logins, liveA, liveT, raised, dropped>>
  BY DEF TakeOut, loadVars, objectVars
<1>6. ASSUME TypeOK, exiting' \in BOOLEAN PROVE TypeOK'
  <2>1. closeA'[c] \subseteq Objects /\ closeT'[c] \subseteq Objects
    BY <1>3, TunnelIsObject DEF IInv, TypeOK
  <2>2. /\ closeA' \in [Callers -> SUBSET Objects]
        /\ closeT' \in [Callers -> SUBSET Objects]
    BY <2>1 DEF IInv, TypeOK, TakeOut
  <2>3. /\ cache' \in [Names -> 0..MaxBuilt]
        /\ tunnels' \in [Names -> 0..MaxBuilt]
        /\ via' \in [Names -> 0..MaxBuilt]
    BY ManagerAssumption DEF IInv, TypeOK, TakeOut, None
  <2>4. /\ pc' \in [Callers -> {"idle", "wait", "tunnel", "build", "using", "closing"}]
        /\ op' \in [Callers -> {"none", "release", "close_all"}]
    BY DEF IInv, TypeOK, TakeOut, Goes
  <2> QED
    BY <1>5, <1>6, <2>2, <2>3, <2>4 DEF TypeOK
<1>7. LockMutex' /\ Opening'
  BY <1>1, <1>2, <1>5 DEF IInv, TypeOK, LockMutex, Opening
<1>8. TunnelsOpen'
  BY <1>2, <1>3, <1>4, <1>5 DEF IInv, TunnelsOpen, None
<1>9. CachedAdapterHasTunnel'
  BY <1>4, <1>5, ManagerAssumption DEF IInv, CachedAdapterHasTunnel
<1>10. NoAdapterForgotten'
  <2> SUFFICES ASSUME NEW a \in liveA, cache[a[1]] = a[2], a[1] \in S
               PROVE  a \in closeA'[c]
    BY <1>1, <1>2, <1>4, <1>5 DEF IInv, TypeOK, NoAdapterForgotten, Objects
  <2>1. a = <<a[1], a[2]>> /\ a[2] # None
    BY DEF IInv, TypeOK, Objects, None
  <2> QED
    BY <2>1, <1>3
<1>11. NoTunnelForgotten'
  <2>1. ASSUME NEW t \in liveT', tunnels[t[1]] = t[2], t[1] \in S
        PROVE  t \in closeT'[c]
    <3>1. t = <<t[1], t[2]>> /\ t[2] # None
      BY <1>5 DEF IInv, TypeOK, Objects, None
    <3> QED
      BY <2>1, <3>1, <1>3
  <2>2. \A t \in liveT' : t[1] \in Names
    BY <1>5 DEF IInv, TypeOK, Objects
  <2>3. \A t \in liveT' : \/ tunnels'[t[1]] = t[2]
                         \/ \E d \in Callers : t \in closeT'[d]
                         \/ t \in dropped'
    BY <1>1, <1>2, <1>4, <1>5, <2>1, <2>2 DEF IInv, NoTunnelForgotten
  <2>4. ASSUME NEW n \in Names, tunnels'[n] # None
        PROVE  cache'[n] # None \/ <<n, tunnels'[n]>> \in dropped'
    BY <1>1, <1>4, <1>5, <2>4 DEF IInv, NoTunnelForgotten
  <2> QED
    BY <2>3, <2>4 DEF NoTunnelForgotten
<1> QED
  BY <1>6, <1>7, <1>8, <1>9, <1>10, <1>11

LEMMA ReleaseStep ==
    ASSUME IInv, NEW c \in Callers, NEW n \in Names, Release(c, n)
    PROVE  IInv'
<1>1. TakeOut(c, {n}, "release") /\ ~exiting /\ exiting' = exiting
  BY DEF Release
<1>2. AfterExit'
  BY <1>1 DEF AfterExit
<1> QED
  BY <1>1, <1>2, TakeOutStep DEF IInv, TypeOK

LEMMA CloseAllStep ==
    ASSUME IInv, NEW c \in Callers, CloseAll(c)
    PROVE  IInv'
<1>1. /\ TakeOut(c, Names, "close_all")
      /\ exiting' = TRUE
      /\ \A d \in Callers : pc[d] \in {"idle", "closing"}
  BY DEF CloseAll
<1>2. AfterExit'
  BY <1>1 DEF AfterExit, TakeOut, Goes
<1>3. Names \in SUBSET Names
  OBVIOUS
<1> QED
  BY <1>1, <1>2, <1>3, TakeOutStep DEF IInv

LEMMA CloseAdapterStep ==
    ASSUME IInv, NEW c \in Callers,
           NEW a \in closeA[c], NEW raises \in BOOLEAN, CloseAdapter(c, a, raises)
    PROVE  IInv'
<1>1. TypeOK'
  BY DEF IInv, TypeOK, CloseAdapter, cacheVars, loadVars
<1>2. Opening'
  BY DEF IInv, TypeOK, Opening, CloseAdapter, cacheVars
<1>3. TunnelsOpen'
  <2>1. \A d \in Callers : closeT'[d] \subseteq closeT[d]
    BY DEF IInv, TypeOK, CloseAdapter
  <2>2. UNCHANGED <<tunnels, logins, liveT>>
    BY DEF CloseAdapter, cacheVars
  <2> QED
    BY <2>1, <2>2 DEF IInv, TunnelsOpen
<1>4. NoAdapterForgotten'
  BY DEF IInv, NoAdapterForgotten, CloseAdapter, cacheVars
<1>5. NoTunnelForgotten'
  <2>1. \A d \in Callers : closeT[d] \subseteq closeT'[d] \cup dropped'
    BY DEF IInv, TypeOK, CloseAdapter
  <2>2. dropped \subseteq dropped' /\ UNCHANGED <<tunnels, liveT, cache, pc, name>>
    BY DEF CloseAdapter, cacheVars
  <2> QED
    BY <2>1, <2>2 DEF IInv, NoTunnelForgotten
<1>6. LockMutex' /\ CachedAdapterHasTunnel' /\ AfterExit'
  BY DEF IInv, LockMutex, CachedAdapterHasTunnel, AfterExit, CloseAdapter,
     cacheVars
<1> QED
  BY <1>1, <1>2, <1>3, <1>4, <1>5, <1>6 DEF IInv

LEMMA CloseTunnelStep ==
    ASSUME IInv, NEW c \in Callers, NEW t \in closeT[c], CloseTunnel(c, t)
    PROVE  IInv'
<1>1. TypeOK'
  BY DEF IInv, TypeOK, CloseTunnel, cacheVars, loadVars
<1>2. Opening'
  BY DEF IInv, Opening, CloseTunnel, cacheVars
<1>3. TunnelsOpen'
  BY DEF IInv, TypeOK, TunnelsOpen, CloseTunnel, None, cacheVars
<1>4. CachedAdapterHasTunnel'
  BY DEF IInv, TypeOK, TunnelsOpen, CachedAdapterHasTunnel, CloseTunnel,
     Objects, cacheVars
<1>5. NoTunnelForgotten'
  BY DEF IInv, NoTunnelForgotten, CloseTunnel, cacheVars
<1>6. LockMutex' /\ NoAdapterForgotten' /\ AfterExit'
  BY DEF IInv, LockMutex, NoAdapterForgotten, AfterExit, CloseTunnel,
     cacheVars
<1> QED
  BY <1>1, <1>2, <1>3, <1>4, <1>5, <1>6 DEF IInv

LEMMA ClosedStep ==
    ASSUME IInv, NEW c \in Callers, Closed(c)
    PROVE  IInv'
<1>1. TypeOK'
  BY DEF IInv, TypeOK, Closed, Goes, cacheVars, objectVars, loadVars
<1>2. LockMutex'
  BY DEF IInv, LockMutex, Closed, Goes
<1>3. Opening'
  BY DEF IInv, Opening, Closed, Goes, cacheVars, objectVars
<1>4. NoTunnelForgotten'
  BY DEF IInv, NoTunnelForgotten, Closed, Goes, cacheVars, objectVars
<1>5. AfterExit'
  BY DEF IInv, AfterExit, Closed, Goes, cacheVars
<1>6. TunnelsOpen' /\ CachedAdapterHasTunnel' /\ NoAdapterForgotten'
  BY DEF IInv, TunnelsOpen, CachedAdapterHasTunnel, NoAdapterForgotten,
     Closed, cacheVars, objectVars
<1> QED
  BY <1>1, <1>2, <1>3, <1>4, <1>5, <1>6 DEF IInv

LEMMA StutterStep ==
    ASSUME IInv, UNCHANGED vars
    PROVE  IInv'
BY DEF IInv, vars, TypeOK, LockMutex, Opening, TunnelsOpen,
   CachedAdapterHasTunnel, NoAdapterForgotten, NoTunnelForgotten, AfterExit

LEMMA NextIInv == IInv /\ [Next]_vars => IInv'
<1> SUFFICES ASSUME IInv, [Next]_vars PROVE IInv'
  OBVIOUS
<1>1. CASE Load
  BY <1>1, LoadStep
<1>2. CASE \E c \in Callers, n \in Names : GetConnection(c, n) \/ Release(c, n)
  BY <1>2, GetConnectionStep, ReleaseStep
<1>3. ASSUME NEW c \in Callers, Getting(c) \/ Finish(c) PROVE IInv'
  BY <1>3, GetLockedStep, TunnelRefusedStep, TunnelFailsLateStep,
     OpenTunnelStep, BuildAdapterStep, FinishStep DEF Getting
<1>4. ASSUME NEW c \in Callers, CloseAll(c) \/ Closing(c) PROVE IInv'
  BY <1>4, CloseAllStep, CloseAdapterStep, CloseTunnelStep, ClosedStep DEF
     Closing
<1>5. CASE UNCHANGED vars
  BY <1>5, StutterStep
<1> QED
  BY <1>1, <1>2, <1>3, <1>4, <1>5 DEF Next

-----------------------------------------------------------------------------
\* The inductive invariant holds in every reachable state of the manager.
THEOREM Invariance == Spec => []IInv
<1> QED
  BY InitIInv, NextIInv, PTL DEF Spec

\* Every variable keeps its type, whatever the number of threads and of
\* connections.
THEOREM TypeCorrect == Spec => []TypeOK
<1>1. IInv => TypeOK
  BY DEF IInv
<1> QED
  BY <1>1, Invariance, PTL

\* The thread in the critical section is the one that has the lock.
THEOREM Mutex == Spec => []LockMutex
<1>1. IInv => LockMutex
  BY DEF IInv
<1> QED
  BY <1>1, Invariance, PTL

\* However many threads ask for one connection at once, no adapter is built
\* and forgotten.
THEOREM Remembered == Spec => []NoAdapterForgotten
<1>1. IInv => NoAdapterForgotten
  BY DEF IInv
<1> QED
  BY <1>1, Invariance, PTL

\* A cached adapter always has its open tunnel, whatever other threads release.
THEOREM AdapterHasTunnel == Spec => []CachedAdapterHasTunnel
<1>1. IInv => CachedAdapterHasTunnel
  BY DEF IInv
<1> QED
  BY <1>1, Invariance, PTL

\* close_all() leaves open only what a failed operation dropped.
THEOREM ClosesTheRest == Spec => []CloseAllClosesTheRest
<1>1. ASSUME IInv PROVE CloseAllClosesTheRest
  <2> SUFFICES ASSUME ClosedAtEnd PROVE liveA \subseteq raised /\ liveT \subseteq dropped
    BY DEF CloseAllClosesTheRest
  <2>1. /\ \A c \in Callers : closeA[c] = {} /\ closeT[c] = {}
        /\ \A n \in Names : cache[n] = None /\ tunnels[n] = None
    BY <1>1 DEF ClosedAtEnd, IInv, Opening, AfterExit
  <2>2. \A o \in Objects : o[1] \in Names /\ o[2] # None
    BY DEF Objects, None
  <2>3. liveA \subseteq raised
    BY <1>1, <2>1, <2>2 DEF IInv, TypeOK, NoAdapterForgotten
  <2>4. liveT \subseteq dropped
    BY <1>1, <2>1, <2>2 DEF IInv, TypeOK, NoTunnelForgotten
  <2> QED
    BY <2>3, <2>4
<1> QED
  BY <1>1, Invariance, PTL

-----------------------------------------------------------------------------
(* What a leaked tunnel takes: a login that succeeded and an operation that *)
(* failed after it.                                                         *)

NothingDropped ==
    /\ \A c \in Callers : pc[c] = "tunnel" => name[c] \in Bastion
    /\ \A n \in Names \ Bastion : tunnels[n] = None
    /\ dropped = {}

LEMMA NothingDroppedStep ==
    ASSUME Broken \cap Bastion = {}, ~LateFails, "release" \notin Raising,
           IInv, NothingDropped, [Next]_vars
    PROVE  NothingDropped'
<1> USE DEF loadVars, cacheVars, closeVars, objectVars
<1>1. TypeOK /\ Opening
  BY DEF IInv
<1>2. CASE Load
  BY <1>2 DEF Load, NothingDropped
<1>3. ASSUME NEW c \in Callers, NEW n \in Names, GetConnection(c, n) \/ Release(c, n)
      PROVE  NothingDropped'
  <2>1. CASE GetConnection(c, n)
    BY <1>1, <2>1 DEF GetConnection, Goes, NothingDropped, TypeOK
  <2>2. CASE Release(c, n)
    BY <1>1, <2>2 DEF Release, TakeOut, Goes, NothingDropped, TypeOK
  <2> QED BY <1>3, <2>1, <2>2
<1>4. ASSUME NEW c \in Callers, Getting(c) \/ Finish(c) \/ CloseAll(c) \/ Closing(c)
      PROVE  NothingDropped'
  <2>1. CASE GetLocked(c)
    BY <1>1, <2>1 DEF GetLocked, Returns, NothingDropped, TypeOK
  <2>2. CASE TunnelRefused(c)
    BY <1>1, <2>2 DEF TunnelRefused, Raises, Returns, NothingDropped, TypeOK
  <2>3. ~TunnelFailsLate(c)
    BY DEF TunnelFailsLate
  <2>4. CASE OpenTunnel(c)
    <3>1. name[c] \in Bastion /\ name[c] \in Names
      BY <1>1, <2>4 DEF OpenTunnel, Goes, NothingDropped, Opening
    <3> QED BY <1>1, <2>4, <3>1 DEF OpenTunnel, Goes, NothingDropped, TypeOK
  <2>5. CASE BuildAdapter(c)
    <3>1. name[c] \in Names /\ pc[c] = "build"
      BY <1>1, <2>5 DEF BuildAdapter, Opening
    <3>2. dropped' = {}
      <4>1. CASE name[c] \in Broken
        <5>1. tunnels[name[c]] = None
          BY <3>1, <4>1 DEF NothingDropped
        <5>2. <<name[c], tunnels[name[c]]>> \notin Objects
          BY <5>1 DEF Objects, None
        <5> QED BY <2>5, <4>1, <5>2 DEF BuildAdapter, NothingDropped
      <4>2. CASE name[c] \notin Broken
        BY <2>5, <4>2 DEF BuildAdapter, NothingDropped
      <4> QED BY <4>1, <4>2
    <3>3. tunnels' = tunnels /\ \A d \in Callers : pc'[d] = "tunnel" => pc[d] = "tunnel" /\ name'[d] = name[d]
      BY <1>1, <2>5 DEF BuildAdapter, Raises, Returns, TypeOK
    <3> QED BY <3>2, <3>3 DEF NothingDropped
  <2>6. CASE Finish(c)
    BY <1>1, <2>6 DEF Finish, Goes, NothingDropped, TypeOK
  <2>7. CASE CloseAll(c)
    BY <1>1, <2>7 DEF CloseAll, TakeOut, Goes, NothingDropped, TypeOK
  <2>8. ASSUME NEW a \in closeA[c], NEW raises \in BOOLEAN, CloseAdapter(c, a, raises)
        PROVE  NothingDropped'
    BY <2>8 DEF CloseAdapter, NothingDropped
  <2>9. ASSUME NEW t \in closeT[c], CloseTunnel(c, t)
        PROVE  NothingDropped'
    BY <2>9 DEF CloseTunnel, NothingDropped
  <2>10. CASE Closed(c)
    BY <1>1, <2>10 DEF Closed, Goes, NothingDropped, TypeOK
  <2> QED BY <1>4, <2>1, <2>2, <2>3, <2>4, <2>5, <2>6, <2>7, <2>8, <2>9, <2>10 DEF Getting, Closing
<1>5. CASE UNCHANGED vars
  BY <1>5 DEF vars, NothingDropped
<1> QED BY <1>2, <1>3, <1>4, <1>5 DEF Next

\* main.py:328-329 is kept, and every tunnel is closed at the end, when no
\* adapter behind a bastion fails to be built, no tunnel fails after its login
\* and no close() of an adapter raises in release(): these three are all the
\* ways to leak one.
THEOREM ClosesAllTunnels ==
    ASSUME Broken \cap Bastion = {}, ~LateFails, "release" \notin Raising
    PROVE  Spec => []CloseAllLeavesNothing
<1>1. Init => NothingDropped
  BY DEF Init, NothingDropped
<1>2. IInv /\ NothingDropped /\ [Next]_vars => NothingDropped'
  BY NothingDroppedStep
<1>3. NothingDropped /\ CloseAllClosesTheRest => CloseAllLeavesNothing
  BY DEF NothingDropped, CloseAllClosesTheRest, CloseAllLeavesNothing
<1> QED
  BY <1>1, <1>2, <1>3, Invariance, ClosesTheRest, PTL DEF Spec
=============================================================================
