---------------------------- MODULE TopologyPages ------------------------------
(***************************************************************************)
(* TopologyPush with the pages at the other end: each fetches the topology *)
(* once when it is mounted (useTopology.ts) and draws every message of its *)
(* socket, which it opens again when it is lost (useWebSocket.ts).  l2 and *)
(* l3 are fetched and drawn alike; l2 stands for both.                     *)
(***************************************************************************)
EXTENDS TopologyPush

VARIABLES
    inbox,   \* the messages on their way to each page
    screens  \* what each page shows

pageVars == <<inbox, screens>>
allVars == <<pushVars, pageVars>>

\* fetch: "asked", "answered" or "done"; answer: what the server answered;
\* shown: the version on screen; late: the answer replaced a newer message.
NoAnswer == [version |-> 0, topo |-> NoTopology]

PagesInit ==
    /\ PushInit
    /\ inbox = [c \in Pages |-> <<>>]
    /\ screens = [c \in Pages |-> [fetch |-> "asked", answer |-> NoAnswer,
                                   view |-> NoTopology, shown |-> 0, late |-> FALSE]]

-----------------------------------------------------------------------------
\* A send that succeeds puts the message on its way to the page.
SendToPage(p) ==
    /\ Send(p)
    /\ inbox' = [c \in Pages |-> IF at[c] \in conns /\ Index(at[c]) = polls[p].next
                                   THEN Append(inbox[c], polls[p].msg)
                                   ELSE inbox[c]]

\* Messages on their way are lost with the connection.
DropPage(c) ==
    /\ Drop(c)
    /\ inbox' = [inbox EXCEPT ![c] = <<>>]

\* Every other step of the server.
ServerStep ==
    /\ \/ \E p \in Pollers :
            \/ Discover(p)
            \/ \E t \in Topologies : Build(p, t)
            \/ EndBroadcast(p)
       \/ \E s \in DOMAIN socks : Disconnect(s)
       \/ \E c \in Pages : Connect(c)
    /\ UNCHANGED inbox

\* GET /api/topology/l2: the snapshot, or 503 when there is none.
Answer(c) ==
    /\ screens[c].fetch = "asked"
    /\ screens' = [screens EXCEPT ![c] =
                     [@ EXCEPT !.fetch = "answered",
                               !.answer = [version |-> version, topo |-> topo]]]
    /\ UNCHANGED <<pushVars, inbox>>

\* The answer reaches the page and, unless it was a 503, is drawn.
Arrive(c) ==
    /\ screens[c].fetch = "answered"
    /\ LET a == screens[c].answer
       IN screens' = [screens EXCEPT ![c] =
             IF a.topo = NoTopology
               THEN [@ EXCEPT !.fetch = "done", !.answer = NoAnswer]
               ELSE [@ EXCEPT !.fetch = "done", !.answer = NoAnswer, !.view = a.topo,
                              !.shown = a.version,
                              !.late = a.version < screens[c].shown]]
    /\ UNCHANGED <<pushVars, inbox>>

\* A slip: a message is not drawn when there is no topology to compare it to.
DrawnUnlessFirst(c, m) ==
    [screens[c] EXCEPT !.view = IF screens[c].view = NoTopology THEN NoTopology ELSE m.topo,
                       !.shown = m.version, !.late = FALSE]

\* handleWSEvent draws the topology of message m, whatever it replaces.
Drawn(c, m) ==
    [screens[c] EXCEPT !.view = m.topo, !.shown = m.version, !.late = FALSE]

\* The next message of its socket reaches the page.
Receive(c) ==
    /\ inbox[c] # <<>>
    /\ inbox' = [inbox EXCEPT ![c] = Tail(inbox[c])]
    /\ screens' = [screens EXCEPT ![c] = Drawn(c, Head(inbox[c]))]
    /\ UNCHANGED pushVars

PagesNext ==
    \/ /\ \/ ServerStep
          \/ \E p \in Pollers : SendToPage(p)
          \/ \E c \in Pages : DropPage(c)
       /\ UNCHANGED screens
    \/ \E c \in Pages : Answer(c) \/ Arrive(c) \/ Receive(c)

PagesSpec == PagesInit /\ [][PagesNext]_allVars

\* Pages connect, and their answers and messages arrive.
PagesFairness ==
    /\ PollFairness
    /\ \A c \in Pages : /\ WF_allVars(Connect(c) /\ UNCHANGED pageVars)
                        /\ WF_allVars(Answer(c))
                        /\ WF_allVars(Arrive(c))
                        /\ WF_allVars(Receive(c))

-----------------------------------------------------------------------------
(***************************************************************************)
(* Properties.                                                             *)
(***************************************************************************)

\* The page shows at least what was current when its connection was accepted,
\* and its initial fetch did not replace a newer message.
CaughtUp(c) ==
    /\ at[c] # NoSocket
    /\ screens[c].fetch = "done" /\ ~screens[c].late
    /\ screens[c].shown >= socks[at[c]].born

\* A page that has caught up with its connection comes to show the snapshot,
\* through overlapping polls and lost connections, unless the connection list
\* lost an element while the current version was broadcast.
PagesConverge ==
    <>[](\A c \in Pages : CaughtUp(c) => screens[c].view = topo \/ version \in shaken)

\* Design document: "The collector detects the change on its next poll cycle
\* and pushes updates to the UI".  A page that lost its connection connects
\* again, fetches nothing, and shows what it had.
ConnectedPagesConverge ==
    <>[](\A c \in Pages : at[c] # NoSocket => screens[c].view = topo)
=============================================================================
