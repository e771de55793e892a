------------------------------ MODULE ProxyPool ------------------------------
(***************************************************************************)
(* The pool of proxy clients for one connection key                       *)
(* (packages/shared/pkg/proxy/pool, proxy/tracking): requests that take   *)
(* the key's client and dial through it, connections that several closers *)
(* may close, and ProxyPool.Close, which resets what the client tracks.   *)
(*                                                                         *)
(* The map's shard lock is held during Get and during all of Close's      *)
(* callback.  External: http.Transport, which closes a connection when    *)
(* it likes; the socket, whose second Close is an error (net.ErrClosed).  *)
(***************************************************************************)
EXTENDS Integers, FiniteSets

CONSTANTS
    Links,          \* requests, each with a connection of its own
    MaxClients      \* bound: clients made for the key

ASSUME PoolAssumption == MaxClients \in Nat \ {0}

NoClient == 0
Clients == 1..MaxClients

VARIABLES
    inPool,         \* the key's client in the map
    clients,        \* clients made so far
    link,           \* each request's connection: where it is, and its client
    active,         \* activeConnections of each client
    current,        \* currentConnsCounter
    closer,         \* ProxyPool.Close: where it is, its client, what it has still to reset
    closedClients,  \* history: clients whose Close has returned
    late            \* history: connections tracked after their client's Close looked

poolVars == <<inPool, clients, link, active, current, closer, closedClients, late>>

NoLink == [pc |-> "none", client |-> NoClient]
NotClosing == [pc |-> "idle", client |-> NoClient, items |-> {}]

PoolTypeOK ==
    /\ inPool \in 0..MaxClients /\ clients \in 0..MaxClients /\ current \in Int
    /\ link \in [Links -> [pc : {"none", "dial", "track", "open", "uncount", "untrack", "closed"},
                           client : 0..MaxClients]]
    /\ active \in [Clients -> SUBSET Links]
    /\ closer \in [pc : {"idle", "look", "reset"}, client : 0..MaxClients, items : SUBSET Links]
    /\ closedClients \subseteq Clients /\ late \subseteq Links

PoolInit ==
    /\ inPool = NoClient /\ clients = 0 /\ link = [l \in Links |-> NoLink]
    /\ active = [k \in Clients |-> {}] /\ current = 0
    /\ closer = NotClosing /\ closedClients = {} /\ late = {}
-----------------------------------------------------------------------------
\* ProxyPool.Get: the key's client, made when there is none.
GetClient(l) ==
    /\ link[l].pc = "none" /\ closer.pc = "idle"
    /\ \/ inPool # NoClient /\ UNCHANGED <<inPool, clients>>
       \/ /\ inPool = NoClient /\ clients < MaxClients
          /\ clients' = clients + 1 /\ inPool' = clients'
    /\ link' = [link EXCEPT ![l] = [pc |-> "dial", client |-> inPool']]
    /\ UNCHANGED <<active, current, closer, closedClients, late>>

\* DialContext, after its attempts: no connection, or one that is counted.
Dial(l) ==
    /\ link[l].pc = "dial"
    /\ \/ link' = [link EXCEPT ![l].pc = "closed"] /\ UNCHANGED current
       \/ link' = [link EXCEPT ![l].pc = "track"] /\ current' = current + 1
    /\ UNCHANGED <<inPool, clients, active, closer, closedClients, late>>

\* NewConnection: m.Insert.
Track(l) ==
    LET k == link[l].client IN
    /\ link[l].pc = "track"
    /\ link' = [link EXCEPT ![l].pc = "open"]
    /\ active' = [active EXCEPT ![k] = @ \cup {l}]
    /\ late' = IF k \in closedClients \/ (closer.pc = "reset" /\ closer.client = k)
               THEN late \cup {l} ELSE late
    /\ UNCHANGED <<inPool, clients, current, closer, closedClients>>

\* Connection.Close by the transport: the socket first.
TransportClose(l) ==
    /\ link[l].pc = "open" /\ link' = [link EXCEPT ![l].pc = "uncount"]
    /\ UNCHANGED <<inPool, clients, active, current, closer, closedClients, late>>

\* Connection.Close: counter, then map.
Uncount(l) ==
    /\ link[l].pc = "uncount" /\ link' = [link EXCEPT ![l].pc = "untrack"]
    /\ current' = current - 1
    /\ UNCHANGED <<inPool, clients, active, closer, closedClients, late>>

Untrack(l) ==
    /\ link[l].pc = "untrack" /\ link' = [link EXCEPT ![l].pc = "closed"]
    /\ active' = [active EXCEPT ![link[l].client] = @ \ {l}]
    /\ UNCHANGED <<inPool, clients, current, closer, closedClients, late>>
-----------------------------------------------------------------------------
\* ProxyPool.Close: RemoveCb finds the client; closeIdleConnections is the transport's.
PoolClose ==
    /\ closer.pc = "idle" /\ inPool # NoClient
    /\ closer' = [pc |-> "look", client |-> inPool, items |-> {}]
    /\ UNCHANGED <<inPool, clients, link, active, current, closedClients, late>>

\* resetAllConnections: activeConnections.Items().
Look ==
    /\ closer.pc = "look"
    /\ closer' = [pc |-> "reset", client |-> closer.client, items |-> active[closer.client]]
    /\ UNCHANGED <<inPool, clients, link, active, current, closedClients, late>>

\* Mutant of Reset: the first error ends the loop.
ResetUntilError(l) ==
    /\ closer.pc = "reset" /\ l \in closer.items
    /\ \/ /\ link[l].pc = "open" /\ link' = [link EXCEPT ![l].pc = "closed"]
          /\ current' = current - 1
          /\ active' = [active EXCEPT ![closer.client] = @ \ {l}]
          /\ closer' = [closer EXCEPT !.items = @ \ {l}]
       \/ /\ link[l].pc # "open" /\ UNCHANGED <<link, active, current>>
          /\ closer' = [closer EXCEPT !.items = {}]
    /\ UNCHANGED <<inPool, clients, closedClients, late>>

\* conn.Reset with all of Connection.Close, which nobody can disturb once the socket is
\* closed; a socket somebody else has closed (net.ErrClosed) stays theirs.
Reset(l) ==
    /\ closer.pc = "reset" /\ l \in closer.items
    /\ closer' = [closer EXCEPT !.items = @ \ {l}]
    /\ \/ /\ link[l].pc = "open" /\ link' = [link EXCEPT ![l].pc = "closed"]
          /\ current' = current - 1
          /\ active' = [active EXCEPT ![closer.client] = @ \ {l}]
       \/ link[l].pc # "open" /\ UNCHANGED <<link, active, current>>
    /\ UNCHANGED <<inPool, clients, closedClients, late>>

PoolCloseReturns ==
    /\ closer.pc = "reset" /\ closer.items = {}
    /\ inPool' = NoClient /\ closer' = NotClosing
    /\ closedClients' = closedClients \cup {closer.client}
    /\ UNCHANGED <<clients, link, active, current, late>>
-----------------------------------------------------------------------------
PoolNext ==
    \/ PoolClose \/ Look \/ PoolCloseReturns
    \/ \E l \in Links : \/ GetClient(l) \/ Dial(l) \/ Track(l) \/ TransportClose(l)
                        \/ Uncount(l) \/ Untrack(l) \/ Reset(l)
-----------------------------------------------------------------------------
\* When ProxyPool.Close has returned, no connection made through the key's client is open,
\* except one whose dial ended after Close looked at the client's connections
\* (pool.go:91-102, client.go:209-220): Close does not wait for dials under way.
ClosedKeyIsClosed ==
    \A l \in Links : link[l].pc = "open" /\ link[l].client \in closedClients => l \in late
=============================================================================
