----------------------------- MODULE TopologyPush ------------------------------
(***************************************************************************)
(* From the network to the sockets: polls of TopologyPoller                *)
(* (collector/poller.py), one by the loop and others by POST               *)
(* /api/collector/poll, and the broadcast of what they find by             *)
(* WebSocketManager (server/websocket.py) to the connections that the      *)
(* endpoint /ws/topology of server/main.py keeps.                          *)
(*                                                                         *)
(* A topology is a model value.  The agents answer with what their MIB     *)
(* trees were built from when they started: nothing updates them, whatever *)
(* becomes of the simulated network.  Discovery returns that, or anything  *)
(* else when answers are lost on the way.  The loop of the poller runs all *)
(* the time (Simulation models its start and stop) and its failed polls,   *)
(* which change nothing, are left out.  A message is the version and topology of *)
(* the poll that sent it.  What a page makes of its messages is the        *)
(* subject of TopologyPages; here a page has at most one connection.       *)
(***************************************************************************)
EXTENDS Integers, Sequences, FiniteSets

CONSTANTS Topologies, NoTopology,
          Pages,
          Triggers,     (* POST /api/collector/poll requests                *)
          MaxSockets,   (* bound: sockets ever opened                       *)
          MaxLossy,     (* bound: discoveries that lose answers             *)
          MaxDrops,     (* bound: connections lost                          *)
          Loop          (* the poller's own loop                            *)

ASSUME PushAssumption ==
    /\ NoTopology \notin Topologies
    /\ MaxSockets \in Nat /\ MaxLossy \in Nat /\ MaxDrops \in Nat
    /\ Loop \notin Triggers

Pollers == Triggers \cup {Loop}
Sockets == 1 .. MaxSockets
NoSocket == 0

VARIABLES
    agents,  \* the topology that the agents tell
    topo,    \* TopologyPoller.l2_topology
    version, \* TopologyPoller._version
    polls,   \* the calls of poll_once in progress
    conns,   \* those in WebSocketManager._connections, a list in the order of their opening
    socks,   \* the connections, in the order of their opening
    at,      \* the connection of each page
    shaken,  \* history: versions whose broadcast lost a list element under it
    lossy, drops  \* how often a discovery lost answers, a connection was lost

pushVars == <<agents, topo, version, polls, conns, socks, at, shaken, lossy, drops>>

\* The message sent, the index of the next connection to send it to, and the
\* connections found broken.  Of a connection: open; born, the version the
\* server had when it accepted it; and last, the version of the last message
\* written to it.
NotPolling == [pc |-> "idle", msg |-> NoTopology, next |-> 1, broken |-> <<>>]

PushInit ==
    /\ agents \in Topologies
    /\ topo = NoTopology
    /\ version = 0
    /\ polls = [p \in Pollers |-> NotPolling]
    /\ conns = {}
    /\ socks = <<>>
    /\ at = [c \in Pages |-> NoSocket]
    /\ shaken = {}
    /\ lossy = 0 /\ drops = 0

-----------------------------------------------------------------------------
(***************************************************************************)
(* poll_once and broadcast.                                                *)
(***************************************************************************)

\* discover_from_seed begins.
Discover(p) ==
    /\ polls[p].pc = "idle"
    /\ polls' = [polls EXCEPT ![p] = [@ EXCEPT !.pc = "discover"]]
    /\ UNCHANGED <<agents, topo, version, conns, socks, at, shaken, lossy, drops>>

\* The loop polls again; a request polls once.
Over(p) == [NotPolling EXCEPT !.pc = IF p = Loop THEN "idle" ELSE "done"]

\* A slip: only the first snapshot counts as a change.
ChangedFirst(t) == topo = NoTopology

\* The topology differs from the previous snapshot.
Changed(t) == topo # t

\* Discovery returns t: what the agents tell, unless a request of a walk timed
\* out, which ends the walk and leaves out what it would have told.
Returned(t) ==
    \/ t = agents /\ UNCHANGED lossy
    \/ t # agents /\ lossy < MaxLossy /\ lossy' = lossy + 1

\* Discovery returns t.  The snapshot is replaced and, if it differs, the
\* version counted and the broadcast begun, with no await in between.
Build(p, t) ==
    /\ polls[p].pc = "discover"
    /\ Returned(t)
    /\ \/ /\ ~Changed(t)
          /\ polls' = [polls EXCEPT ![p] = Over(p)]
          /\ UNCHANGED <<topo, version>>
       \/ /\ Changed(t)
          /\ topo' = t
          /\ version' = version + 1
          /\ polls' = [polls EXCEPT ![p] =
                         [NotPolling EXCEPT !.pc = "notify",
                                            !.msg = [version |-> version + 1, topo |-> t]]]
    /\ UNCHANGED <<agents, conns, socks, at, shaken, drops>>

Notifying(p) == polls[p].pc = "notify"

\* A slip: the sends are started and not awaited.
NotAwaited(p) == TRUE

\* A broadcast awaits each send before the next one, and the server resumes
\* the sends to one connection in the order of their calls: a broadcast never
\* sends to a connection before an earlier broadcast did.
InTurn(p) ==
    \A q \in Pollers : Notifying(q) /\ polls[q].msg.version < polls[p].msg.version
                         => polls[p].next < polls[q].next

\* The index of a connection in the list.
Index(s) == Cardinality({r \in conns : r <= s})

\* send_text to the next connection of the list.  On a broken connection it
\* raises, or the message is lost without a sign.
Send(p) ==
    /\ Notifying(p) /\ InTurn(p)
    /\ \E s \in conns :
         /\ Index(s) = polls[p].next
         /\ \/ /\ socks[s].open
               /\ socks' = [socks EXCEPT ![s].last = polls[p].msg.version]
               /\ polls' = [polls EXCEPT ![p].next = @ + 1]
            \/ /\ ~socks[s].open
               /\ \/ polls' = [polls EXCEPT ![p].next = @ + 1]
                  \/ polls' = [polls EXCEPT ![p].next = @ + 1, ![p].broken = Append(@, s)]
               /\ UNCHANGED socks
    /\ UNCHANGED <<agents, topo, version, conns, at, shaken, lossy, drops>>

\* What the removals at the end of a broadcast remove: list.remove raises on
\* the first connection that is no longer listed, and the rest stays.
Removed(p) ==
    {polls[p].broken[i] : i \in {j \in DOMAIN polls[p].broken :
        \A k \in 1 .. j : polls[p].broken[k] \in conns}}

ShakenBy(others) == shaken' = shaken \cup {polls[q].msg.version : q \in others}

\* A slip: the try encloses the whole iteration, which ends at the first
\* broken connection.
EndBroadcastEarly(p) ==
    /\ Notifying(p)
    /\ polls[p].next > Cardinality(conns) \/ polls[p].broken # <<>>
    /\ conns' = conns \ Removed(p)
    /\ ShakenBy({q \in Pollers \ {p} : Notifying(q) /\ Removed(p) # {}})
    /\ polls' = [polls EXCEPT ![p] = Over(p)]
    /\ UNCHANGED <<agents, topo, version, socks, at, lossy, drops>>

\* The list is exhausted: broken connections are removed; poll_once returns.
EndBroadcast(p) ==
    /\ Notifying(p) /\ polls[p].next > Cardinality(conns)
    /\ conns' = conns \ Removed(p)
    /\ ShakenBy({q \in Pollers \ {p} : Notifying(q) /\ Removed(p) # {}})
    /\ polls' = [polls EXCEPT ![p] = Over(p)]
    /\ UNCHANGED <<agents, topo, version, socks, at, lossy, drops>>

-----------------------------------------------------------------------------
(***************************************************************************)
(* Connections.                                                            *)
(***************************************************************************)

\* A page's socket is accepted and listed: its first one, or one it opens
\* again after it lost another.
Connect(c) ==
    /\ at[c] = NoSocket
    /\ Len(socks) < MaxSockets
    /\ socks' = Append(socks, [open |-> TRUE, born |-> version, last |-> 0])
    /\ conns' = conns \cup {Len(socks) + 1}
    /\ at' = [at EXCEPT ![c] = Len(socks) + 1]
    /\ UNCHANGED <<agents, topo, version, polls, shaken, lossy, drops>>

\* A connection breaks; the page sees it (onclose), the server not yet.
Drop(c) ==
    /\ at[c] # NoSocket
    /\ drops < MaxDrops
    /\ drops' = drops + 1
    /\ socks' = [socks EXCEPT ![at[c]].open = FALSE]
    /\ at' = [at EXCEPT ![c] = NoSocket]
    /\ UNCHANGED <<agents, topo, version, polls, conns, shaken, lossy>>

\* receive_text raises WebSocketDisconnect and the endpoint removes the
\* connection, if no broadcast did (then list.remove raises: no effect).
Disconnect(s) ==
    /\ s \in conns /\ ~socks[s].open
    /\ conns' = conns \ {s}
    /\ ShakenBy({q \in Pollers : Notifying(q)})
    /\ UNCHANGED <<agents, topo, version, polls, socks, at, lossy, drops>>

-----------------------------------------------------------------------------
PollStep(p) ==
    \/ polls[p].pc = "discover" /\ \E t \in Topologies : Build(p, t)
    \/ Send(p)
    \/ EndBroadcast(p)

PushNext ==
    \/ \E p \in Pollers : Discover(p) \/ PollStep(p)
    \/ \E c \in Pages : Connect(c) \/ Drop(c)
    \/ \E s \in DOMAIN socks : Disconnect(s)

PushSpec == PushInit /\ [][PushNext]_pushVars

\* The loop polls again and again, and polls and sends end.  Losses,
\* requests and connections are free.
PollFairness ==
    /\ WF_pushVars(Discover(Loop))
    /\ \A p \in Pollers : WF_pushVars(PollStep(p))

FairSpec == PushSpec /\ PollFairness

-----------------------------------------------------------------------------
(***************************************************************************)
(* Properties.                                                             *)
(***************************************************************************)

\* A connection gets the versions in their order, although the broadcasts of
\* a request and of the loop overlap (poll_once, broadcast).
VersionsInOrder ==
    [][\A s \in DOMAIN socks :
          socks'[s].last # socks[s].last => socks'[s].last > socks[s].last]_pushVars

Quiet == \A p \in Pollers : ~Notifying(p)

\* When no broadcast is under way, every open connection has been sent the
\* current version, or was accepted under it, unless the list lost an element
\* while that version was broadcast.
BroadcastReachesAll ==
    Quiet => \A s \in DOMAIN socks :
                socks[s].open => \/ version \in {socks[s].last, socks[s].born}
                                 \/ version \in shaken

\* Once no discovery loses answers any more, the poller's snapshot becomes and
\* stays what the agents tell, although a discovery that lost some and began
\* earlier may end after one that lost none.
SnapshotRecovers == <>[](topo = agents)

-----------------------------------------------------------------------------
(***************************************************************************)
(* What the documentation says and the code does not do.                   *)
(***************************************************************************)

\* websocket.py, broadcast: "Broadcast an event to all connected clients."
\* The list is iterated across awaits; an element removed before the current
\* one makes the iteration skip a client.
ReachesAllConnected ==
    Quiet => \A s \in DOMAIN socks :
                socks[s].open => version \in {socks[s].last, socks[s].born}

\* websocket.py, broadcast: "Silently removes clients whose connections have
\* gone stale."  One that is gone already makes list.remove raise, and the
\* others stay.
BrokenAreRemoved ==
    [][\A p \in Pollers : Notifying(p) /\ ~Notifying(p)' =>
          \A i \in DOMAIN polls[p].broken : polls[p].broken[i] \notin conns']_pushVars
=============================================================================
