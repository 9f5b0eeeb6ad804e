------------------------- MODULE MerakiRequestsProofs --------------------------
(***************************************************************************)
(* The bound of the limiter, for any capacity and rate, any requests and   *)
(* any calls that wait, fail and are given up; and what the requests make  *)
(* of what they hear, for any devices, links and VLANs: the final topology *)
(* of the refresh is the sum of what it streamed, and the routes agree.    *)
(***************************************************************************)
EXTENDS MerakiRequests, FiniteSetTheorems, FunctionTheorems, TLAPS

\* What was asked above the rate, and what may be asked at once, make no more
\* than a full bucket.
BucketInv ==
    /\ tokens \in 0 .. Full /\ since \in 0 .. Full /\ excess \in Nat
    /\ excess + Cap(tokens + since) <= Full

\* A full bucket has something in it.
LEMMA FullBucket == Full \in Nat \ {0}
  BY LimiterAssumption DEF Full

\* The loop that holds the lock refills the bucket and takes a token from it.
LEMMA Taking ==
    ASSUME BucketInv, NEW c, Take(c)
    PROVE  BucketInv'
  <1> DEFINE have == Cap(tokens + since)
  <1>1. /\ have \in 0 .. Full /\ excess + have <= Full
        /\ have >= Token /\ Token \in Nat
    BY FullBucket, LimiterAssumption DEF BucketInv, Take, Cap
  <1>2. tokens' = have - Token /\ since' = 0 /\ excess' = excess + Token
    BY DEF Take, Refill
  <1> HIDE DEF have
  <1> QED BY <1>1, <1>2, FullBucket DEF BucketInv, Cap

\* The loop that holds the lock refills the bucket and sleeps.
LEMMA Dozing ==
    ASSUME BucketInv, Doze
    PROVE  BucketInv'
  <1> DEFINE have == Cap(tokens + since)
  <1>1. have \in 0 .. Full /\ excess + have <= Full
    BY FullBucket DEF BucketInv, Cap
  <1>2. tokens' = have /\ since' = 0 /\ excess' = excess
    BY DEF Doze, Refill
  <1> HIDE DEF have
  <1> QED BY <1>1, <1>2, FullBucket DEF BucketInv, Cap

\* A tick drips one unit into the bucket and takes one from the excess, unless
\* the bucket is full: then there is no excess.
LEMMA Ticking ==
    ASSUME BucketInv, Tick
    PROVE  BucketInv'
  BY FullBucket DEF BucketInv, Tick, Cap

\* All that a step of a request does to the bucket is what the limiter does.
LEMMA LimiterSteps ==
    ASSUME [Next]_vars
    PROVE  UNCHANGED <<tokens, since, excess>> \/ Doze \/ Tick \/ \E c : Take(c)
  <1>1. ASSUME NEW r \in Requests, Start(r) \/ Leave(r)
        PROVE  UNCHANGED <<tokens, since, excess>>
    BY <1>1 DEF Start, Leave
  <1>2. ASSUME NEW c, Send(c)
        PROVE  Take(c)
    BY <1>2 DEF Send
  <1>3. ASSUME NEW c, Answered(c)
        PROVE  UNCHANGED <<tokens, since, excess>>
    BY <1>3 DEF Answered
  <1>4. ASSUME NEW c, NEW refused, Failed(c, refused)
        PROVE  UNCHANGED <<tokens, since, excess>>
    BY <1>4 DEF Failed
  <1>5. ASSUME UNCHANGED vars
        PROVE  UNCHANGED <<tokens, since, excess>>
    BY <1>5 DEF vars, limiterVars
  <1> QED BY <1>1, <1>2, <1>3, <1>4, <1>5 DEF Next

\* However calls come, wait, fail and are given up, there are in any stretch of
\* time no more requests than a full bucket and what dripped into it: the
\* promise of rate_limiter.py.  Inductive is that the excess leaves room for
\* what the bucket holds or has earned.
THEOREM Bound == Spec => []WindowBound
  <1>1. Init => BucketInv
    BY FullBucket DEF Init, LimiterInit, BucketInv, Cap
  <1>2. BucketInv /\ [Next]_vars => BucketInv'
    <2> SUFFICES ASSUME BucketInv, [Next]_vars PROVE BucketInv'
      OBVIOUS
    <2>1. CASE UNCHANGED <<tokens, since, excess>>
      BY <2>1 DEF BucketInv, Cap
    <2> QED BY <2>1, LimiterSteps, Taking, Dozing, Ticking
  <1>3. BucketInv => WindowBound
    BY FullBucket DEF BucketInv, WindowBound, Cap
  <1> QED BY <1>1, <1>2, <1>3, PTL DEF Spec

-----------------------------------------------------------------------------
\* A nonempty set of numbers has a least one.
LEMMA LeastNumber ==
    ASSUME NEW S \in SUBSET Nat, S # {}
    PROVE  \E x \in S : \A y \in S : x <= y
  <1>1. PICK x \in S : \A y \in S : <<y, x>> \notin OpToRel(<, Nat)
    BY NatLessThanWellFounded, WFMin
  <1>2. \A m, n \in Nat : <<m, n>> \in OpToRel(<, Nat) <=> m < n
    BY SMT DEF OpToRel
  <1>3. \A y \in S : ~(y < x)
    BY <1>1, <1>2
  <1> QED BY <1>3

\* Places are pairs of numbers, and one of two different ones comes before.
LEMMA PlacesAreOrdered ==
    ASSUME NEW lists, DOMAIN lists \subseteq Nat, \A i \in DOMAIN lists : DOMAIN lists[i] \subseteq Nat
    PROVE  /\ Places(lists) \subseteq Nat \X Nat
           /\ \A p, q \in Nat \X Nat : p = q \/ Before(p, q) \/ Before(q, p)
           /\ \A p, q \in Nat \X Nat : ~(Before(p, q) /\ Before(q, p)) /\ ~Before(p, p)
  BY DEF Places, Before

\* A nonempty set of places has a first one.
LEMMA FirstPlace ==
    ASSUME NEW S \in SUBSET (Nat \X Nat), S # {}
    PROVE  \E p \in S : \A q \in S : ~Before(q, p)
  <1>1. PICK i \in {p[1] : p \in S} : \A k \in {p[1] : p \in S} : i <= k
    <2>1. {p[1] : p \in S} \in SUBSET Nat /\ {p[1] : p \in S} # {}
      OBVIOUS
    <2> HIDE DEF Before
    <2> QED BY <2>1, LeastNumber
  <1> DEFINE Row == {p \in S : p[1] = i}
  <1>2. PICK j \in {p[2] : p \in Row} : \A k \in {p[2] : p \in Row} : j <= k
    <2>1. {p[2] : p \in Row} \in SUBSET Nat /\ {p[2] : p \in Row} # {}
      BY <1>1
    <2> QED BY <2>1, LeastNumber
  <1>3. PICK p \in Row : p[2] = j
    OBVIOUS
  <1>4. \A q \in S : ~Before(q, p)
    <2> SUFFICES ASSUME NEW q \in S, Before(q, p) PROVE FALSE
      OBVIOUS
    <2>1. i \in Nat /\ j \in Nat /\ q[1] \in Nat /\ q[2] \in Nat /\ p[1] = i /\ p[2] = j
      BY <1>1, <1>2, <1>3
    <2>2. i <= q[1]
      BY <1>1
    <2>3. q[1] = i /\ q[2] < j
      BY <2>1, <2>2 DEF Before
    <2>4. q \in Row
      BY <2>3
    <2> QED BY <2>1, <2>3, <2>4, <1>2
  <1> QED BY <1>4

\* The places of finitely many finite lists are finitely many.
LEMMA PlacesAreFinite ==
    ASSUME NEW lists, IsFiniteSet(DOMAIN lists), \A i \in DOMAIN lists : IsFiniteSet(DOMAIN lists[i])
    PROVE  IsFiniteSet(Places(lists))
  <1> DEFINE Row(i) == {<<i, j>> : j \in DOMAIN lists[i]}
             Rows == {Row(i) : i \in DOMAIN lists}
  <1>1. \A i \in DOMAIN lists : IsFiniteSet(Row(i))
    <2> TAKE i \in DOMAIN lists
    <2>1. [j \in DOMAIN lists[i] |-> <<i, j>>] \in Surjection(DOMAIN lists[i], Row(i))
      BY DEF Surjection
    <2> QED BY <2>1, FS_Surjection
  <1>2. IsFiniteSet(Rows)
    <2>1. [i \in DOMAIN lists |-> Row(i)] \in Surjection(DOMAIN lists, Rows)
      BY DEF Surjection
    <2> QED BY <2>1, FS_Surjection
  <1>3. \A row \in Rows : IsFiniteSet(row)
    BY <1>1
  <1>4. Places(lists) = UNION Rows
    BY DEF Places
  <1> QED BY <1>2, <1>3, <1>4, FS_UNION

\* The places of links between known ends.
Known(layers) == {p \in Places(layers) : NoSerial \notin Pair(layers[p[1]][p[2]])}

Numbered(lists) == DOMAIN lists \subseteq Nat /\ \A i \in DOMAIN lists : DOMAIN lists[i] \subseteq Nat

\* The edges join every two known ends that some link joins.
LEMMA EdgesJoinWhatLinksJoin ==
    ASSUME NEW layers, Numbered(layers)
    PROVE  {Pair(k) : k \in _build_edges(layers)} = {Pair(layers[p[1]][p[2]]) : p \in Known(layers)}
  <1> DEFINE Link(p) == layers[p[1]][p[2]]
             First(q) == \A o \in Known(layers) : Before(o, q) => Pair(Link(o)) # Pair(Link(q))
  <1>1. _build_edges(layers) = {Link(p) : p \in {q \in Known(layers) : First(q)}}
    BY DEF _build_edges, Known
  <1>2. ASSUME NEW p \in Known(layers)
        PROVE  \E q \in Known(layers) : First(q) /\ Pair(Link(q)) = Pair(Link(p))
    <2> DEFINE Same == {q \in Known(layers) : Pair(Link(q)) = Pair(Link(p))}
    <2>1. Same \in SUBSET (Nat \X Nat) /\ Same # {}
      BY PlacesAreOrdered, <1>2 DEF Known, Numbered
    <2>2. PICK q \in Same : \A o \in Same : ~Before(o, q)
      BY <2>1, FirstPlace
    <2> QED BY <2>2
  <1> HIDE DEF Link, First
  <1>3. {Pair(k) : k \in _build_edges(layers)} = {Pair(Link(p)) : p \in Known(layers)}
    BY <1>1, <1>2
  <1> QED BY <1>3 DEF Link

\* No two edges join the same ends.
LEMMA OneEdgePerPair ==
    ASSUME NEW layers, Numbered(layers), IsFiniteSet(DOMAIN layers), \A i \in DOMAIN layers : IsFiniteSet(DOMAIN layers[i])
    PROVE  Cardinality({Pair(k) : k \in _build_edges(layers)}) = Cardinality(_build_edges(layers))
  <1> DEFINE Link(p) == layers[p[1]][p[2]]
             First(q) == \A o \in Known(layers) : Before(o, q) => Pair(Link(o)) # Pair(Link(q))
             Firsts == {q \in Known(layers) : First(q)}
             E == _build_edges(layers)
             P == {Pair(k) : k \in E}
  <1>1. E = {Link(p) : p \in Firsts}
    BY DEF _build_edges, Known
  <1>2. IsFiniteSet(E)
    <2>1. IsFiniteSet(Firsts)
      BY PlacesAreFinite, FS_Subset DEF Known
    <2>2. [p \in Firsts |-> Link(p)] \in Surjection(Firsts, E)
      BY <1>1 DEF Surjection
    <2> QED BY <2>1, <2>2, FS_Surjection
  <1>3. \A p, q \in Firsts : Pair(Link(p)) = Pair(Link(q)) => p = q
    <2>1. Firsts \subseteq Nat \X Nat
      BY PlacesAreOrdered DEF Known, Numbered
    <2>2. \A p, q \in Nat \X Nat : p = q \/ Before(p, q) \/ Before(q, p)
      BY PlacesAreOrdered DEF Numbered
    <2> HIDE DEF Link
    <2> QED BY <2>1, <2>2
  <1> HIDE DEF Link, Firsts
  <1>4. [k \in E |-> Pair(k)] \in Bijection(E, P)
    <2>1. \A a, b \in E : Pair(a) = Pair(b) => a = b
      BY <1>1, <1>3
    <2> HIDE DEF E
    <2> QED BY <2>1, Fun_IsBij
  <1> QED BY <1>2, <1>4, FS_Bijection DEF ExistsBijection

\* The known ends that the links of a list join.
Joined(links) == {Pair(links[j]) : j \in {k \in DOMAIN links : NoSerial \notin Pair(links[k])}}

\* The links of a layer 2 topology join what the links of its layers join.
LEMMA LinksOfL2 ==
    ASSUME NEW devices, NEW availabilities, NEW layers, NEW clients, NEW stacks, Numbered(layers)
    PROVE  Links(build_l2(devices, availabilities, layers, clients, stacks)) = UNION {Joined(layers[i]) : i \in DOMAIN layers}
  <1>1. Links(build_l2(devices, availabilities, layers, clients, stacks)) = {Pair(k) : k \in _build_edges(layers)}
    BY DEF Links, build_l2
  <1>2. {Pair(layers[p[1]][p[2]]) : p \in Known(layers)} = UNION {Joined(layers[i]) : i \in DOMAIN layers}
    <2> DEFINE Lhs == {Pair(layers[p[1]][p[2]]) : p \in Known(layers)}
               Rhs == UNION {Joined(layers[i]) : i \in DOMAIN layers}
    <2>1. ASSUME NEW e \in Lhs PROVE e \in Rhs
      <3>1. PICK p \in Known(layers) : e = Pair(layers[p[1]][p[2]])
        OBVIOUS
      <3>2. p[1] \in DOMAIN layers /\ p[2] \in DOMAIN layers[p[1]] /\ NoSerial \notin Pair(layers[p[1]][p[2]])
        BY DEF Known, Places
      <3>3. e \in Joined(layers[p[1]])
        BY <3>1, <3>2 DEF Joined
      <3> QED BY <3>2, <3>3
    <2>2. ASSUME NEW e \in Rhs PROVE e \in Lhs
      <3>1. PICK i \in DOMAIN layers : e \in Joined(layers[i])
        OBVIOUS
      <3>2. PICK j \in DOMAIN layers[i] : NoSerial \notin Pair(layers[i][j]) /\ e = Pair(layers[i][j])
        BY <3>1 DEF Joined
      <3>3. <<i, j>> \in Known(layers)
        BY <3>2 DEF Known, Places
      <3> QED BY <3>2, <3>3
    <2> QED BY <2>1, <2>2
  <1> QED BY <1>1, <1>2, EdgesJoinWhatLinksJoin

\* The nodes of a layer 2 topology are the devices with a serial.
LEMMA NamesOfL2 ==
    ASSUME NEW devices, NEW availabilities, NEW layers, NEW clients, NEW stacks
    PROVE  Names(build_l2(devices, availabilities, layers, clients, stacks)) = {d.serial : d \in {e \in devices : e.serial # NoSerial}}
  <1> DEFINE Node(d) == [id |-> d.serial, network |-> d.network, type |-> DeviceTypeOf(d),
                         status |-> Get(STATUS_MAP, Get(availabilities, d.serial, "offline"), "down"),
                         role |-> RoleOf(stacks, d.serial)]
             known == {e \in devices : e.serial # NoSerial}
  <1>1. build_l2(devices, availabilities, layers, clients, stacks).nodes = {Node(d) : d \in known}
    BY DEF build_l2
  <1>2. \A d : Node(d).id = d.serial
    OBVIOUS
  <1> HIDE DEF Node, known
  <1>3. {n.id : n \in {Node(d) : d \in known}} = {d.serial : d \in known}
    BY <1>2
  <1> QED BY <1>1, <1>3 DEF Names, known

\* A list of networks that the Dashboard lists, each once.
NetworkList(T) == T \in Seq(Range(T)) /\ IsInjective(T) /\ Range(T) \subseteq Range(NetworkOrder)

\* What was heard of the networks of a list has places.
LEMMA PartsAreLists ==
    ASSUME NEW T, NetworkList(T), NEW have, NEW data \in {LinkLayer, Vlans}
    PROVE  /\ DOMAIN T = 1 .. Len(T) /\ Len(T) \in Nat
           /\ DOMAIN Parts(have, T, data) = DOMAIN T
           /\ \A i \in DOMAIN T :
                 /\ T[i] \in Range(NetworkOrder)
                 /\ Parts(have, T, data)[i] = IF have[i + 1] THEN data[T[i]] ELSE <<>>
                 /\ \E n \in Nat : DOMAIN data[T[i]] = 1 .. n
                 /\ \E n \in Nat : DOMAIN Parts(have, T, data)[i] = 1 .. n
           /\ Numbered(Parts(have, T, data)) /\ IsFiniteSet(DOMAIN Parts(have, T, data))
           /\ \A i \in DOMAIN T : IsFiniteSet(DOMAIN Parts(have, T, data)[i])
  <1> DEFINE P == Parts(have, T, data)
  <1>1. DOMAIN T = 1 .. Len(T) /\ Len(T) \in Nat
    BY DEF NetworkList
  <1>2. /\ DOMAIN P = DOMAIN T
        /\ \A i \in DOMAIN T : P[i] = IF have[i + 1] THEN data[T[i]] ELSE <<>>
    BY DEF Parts
  <1>3. \A i \in DOMAIN T : T[i] \in Range(NetworkOrder)
    BY DEF NetworkList, Range
  <1>4. \A i \in DOMAIN T : data[T[i]] \in Seq(Range(data[T[i]]))
    BY <1>3, DashboardAssumption
  <1>5. \A i \in DOMAIN T : \E n \in Nat : DOMAIN data[T[i]] = 1 .. n
    BY <1>4
  <1>6. \A i \in DOMAIN T : \E n \in Nat : DOMAIN P[i] = 1 .. n
    <2>1. DOMAIN <<>> = 1 .. 0 /\ 0 \in Nat
      OBVIOUS
    <2> TAKE i \in DOMAIN T
    <2> HIDE DEF P
    <2>2. CASE have[i + 1]
      BY <2>2, <1>2, <1>5
    <2>3. CASE ~have[i + 1]
      <3>1. P[i] = <<>>
        BY <2>3, <1>2
      <3>2. DOMAIN P[i] = 1 .. 0
        BY <3>1, <2>1
      <3> QED BY <3>2, <2>1
    <2> QED BY <2>2, <2>3
  <1>7. \A i \in DOMAIN T : IsFiniteSet(DOMAIN P[i]) /\ DOMAIN P[i] \subseteq Nat
    BY <1>6, FS_Interval
  <1>8. IsFiniteSet(DOMAIN P)
    <2>1. IsFiniteSet(1 .. Len(T))
      BY <1>1, FS_Interval
    <2> HIDE DEF P
    <2> QED BY <2>1, <1>1, <1>2
  <1> HIDE DEF P
  <1>9. Numbered(P)
    BY <1>1, <1>2, <1>7 DEF Numbered
  <1> QED BY <1>1, <1>2, <1>3, <1>5, <1>6, <1>7, <1>8, <1>9 DEF P

\* The topology of some networks is the sum of the topologies of each: its
\* devices, and its links, each once.
LEMMA TopologiesAddUp ==
    ASSUME NEW T, NetworkList(T), NEW have
    PROVE  LET final == build_l2(In(Range(T)), Availabilities, Parts(have, T, LinkLayer), <<>>, <<>>)
               parts == {partial_l2([network |-> T[i], heard |-> have[i + 1]]) : i \in DOMAIN T}
           IN /\ Names(final) = UNION {Names(p) : p \in parts}
              /\ Links(final) = UNION {Links(p) : p \in parts}
              /\ Cardinality(final.edges) = Cardinality(Links(final))
  <1> DEFINE P == Parts(have, T, LinkLayer)
             final == build_l2(In(Range(T)), Availabilities, P, <<>>, <<>>)
             part(i) == partial_l2([network |-> T[i], heard |-> have[i + 1]])
             parts == {part(i) : i \in DOMAIN T}
  <1>1. /\ DOMAIN P = DOMAIN T /\ Numbered(P) /\ IsFiniteSet(DOMAIN P)
        /\ \A i \in DOMAIN P : IsFiniteSet(DOMAIN P[i])
        /\ \A i \in DOMAIN T : P[i] = IF have[i + 1] THEN LinkLayer[T[i]] ELSE <<>>
    BY PartsAreLists
  <1>2. ASSUME NEW i \in DOMAIN T
        PROVE  /\ Links(part(i)) = Joined(P[i])
               /\ Names(part(i)) = {d.serial : d \in {e \in In({T[i]}) : e.serial # NoSerial}}
    <2> DEFINE layers == <<IF have[i + 1] THEN LinkLayer[T[i]] ELSE <<>> >>
    <2>1. DOMAIN layers = {1} /\ layers[1] = P[i]
      BY <1>1
    <2>2. Numbered(layers)
      BY <2>1, <1>1 DEF Numbered
    <2>3. part(i) = build_l2(In({T[i]}), Availabilities, layers, <<>>, <<>>)
      BY DEF partial_l2
    <2> HIDE DEF layers, part, P
    <2>4. Links(part(i)) = UNION {Joined(layers[k]) : k \in DOMAIN layers}
      BY <2>2, <2>3, LinksOfL2
    <2>5. Names(part(i)) = {d.serial : d \in {e \in In({T[i]}) : e.serial # NoSerial}}
      <3>1. Names(build_l2(In({T[i]}), Availabilities, layers, <<>>, <<>>))
              = {d.serial : d \in {e \in In({T[i]}) : e.serial # NoSerial}}
        BY NamesOfL2
      <3> QED BY <2>3, <3>1
    <2>6. Links(part(i)) = Joined(P[i])
      BY <2>1, <2>4
    <2> QED BY <2>5, <2>6
  <1> HIDE DEF P, part
  <1>3. Links(final) = UNION {Links(p) : p \in parts}
    <2>1. Links(final) = UNION {Joined(P[i]) : i \in DOMAIN P}
      BY <1>1, LinksOfL2
    <2>2. UNION {Joined(P[i]) : i \in DOMAIN P} = UNION {Links(p) : p \in parts}
      BY <1>1, <1>2
    <2> QED BY <2>1, <2>2
  <1>4. Names(final) = UNION {Names(p) : p \in parts}
    <2>1. Names(final) = {d.serial : d \in {e \in In(Range(T)) : e.serial # NoSerial}}
      BY NamesOfL2
    <2> DEFINE serials(D) == {d.serial : d \in {e \in D : e.serial # NoSerial}}
    <2>2. \A d : d \in In(Range(T)) <=> \E i \in DOMAIN T : d \in In({T[i]})
      BY DEF In, Range
    <2>3. serials(In(Range(T))) = UNION {serials(In({T[i]})) : i \in DOMAIN T}
      <3>1. \A D, s : s \in serials(D) <=> \E d \in D : d.serial # NoSerial /\ s = d.serial
        OBVIOUS
      <3> HIDE DEF serials
      <3>2. \A s : s \in serials(In(Range(T))) <=> \E i \in DOMAIN T : s \in serials(In({T[i]}))
        <4> TAKE s
        <4>1. s \in serials(In(Range(T))) <=> \E d \in In(Range(T)) : d.serial # NoSerial /\ s = d.serial
          BY <3>1
        <4>2. \A i \in DOMAIN T : s \in serials(In({T[i]})) <=> \E d \in In({T[i]}) : d.serial # NoSerial /\ s = d.serial
          BY <3>1
        <4> QED BY <2>2, <4>1, <4>2
      <3>3. \A s : s \in UNION {serials(In({T[i]})) : i \in DOMAIN T} <=> \E i \in DOMAIN T : s \in serials(In({T[i]}))
        OBVIOUS
      <3> QED BY <3>2, <3>3
    <2>4. UNION {Names(p) : p \in parts} = UNION {serials(In({T[i]})) : i \in DOMAIN T}
      BY <1>2
    <2> QED BY <2>1, <2>3, <2>4
  <1>5. Cardinality(final.edges) = Cardinality(Links(final))
    <2>1. final.edges = _build_edges(P)
      BY DEF build_l2
    <2> HIDE DEF final
    <2> QED BY <2>1, <1>1, OneEdgePerPair DEF Links
  <1> QED BY <1>3, <1>4, <1>5 DEF P, part

-----------------------------------------------------------------------------
\* The routes between subnets at some places.
RoutesAmong(places, via) ==
    {[from |-> p[1], to |-> p[2], via |-> via] : p \in {q \in places \X places : Before(q[1], q[2])}}

\* They are one for each two places, from the first to the second.
LEMMA RoutesJoin ==
    ASSUME NEW places, NEW via, NEW x
    PROVE  x \in RoutesAmong(places, via) <=>
             \E p, q \in places : Before(p, q) /\ x = [from |-> p, to |-> q, via |-> via]
  <1> DEFINE Route(p, q) == [from |-> p, to |-> q, via |-> via]
  <1>1. x \in RoutesAmong(places, via) <=> \E w \in places \X places : Before(w[1], w[2]) /\ x = Route(w[1], w[2])
    BY DEF RoutesAmong
  <1> HIDE DEF Route
  <1>2. ASSUME NEW w \in places \X places, Before(w[1], w[2]) /\ x = Route(w[1], w[2])
        PROVE  \E p, q \in places : Before(p, q) /\ x = Route(p, q)
    BY <1>2
  <1>3. ASSUME NEW p \in places, NEW q \in places, Before(p, q) /\ x = Route(p, q)
        PROVE  \E w \in places \X places : Before(w[1], w[2]) /\ x = Route(w[1], w[2])
    <2>1. <<p, q>> \in places \X places /\ <<p, q>>[1] = p /\ <<p, q>>[2] = q
      OBVIOUS
    <2> QED BY <1>3, <2>1
  <1> QED BY <1>1, <1>2, <1>3 DEF Route

\* As many subnets have as many routes, whatever order they are in: a route
\* goes with the one between the matching subnets, in their own order.
LEMMA RoutesMatch ==
    ASSUME NEW A \in SUBSET (Nat \X Nat), NEW B \in SUBSET (Nat \X Nat), IsFiniteSet(A),
           NEW match \in Bijection(A, B), NEW via
    PROVE  /\ Cardinality(RoutesAmong(A, via)) = Cardinality(RoutesAmong(B, via))
           /\ RoutesAmong(A, via) = {} <=> RoutesAmong(B, via) = {}
  <1> DEFINE RA == RoutesAmong(A, via)
             RB == RoutesAmong(B, via)
             Route(p, q) == [from |-> p, to |-> q, via |-> via]
             F == [x \in RA |-> IF Before(match[x.from], match[x.to]) THEN Route(match[x.from], match[x.to])
                                ELSE Route(match[x.to], match[x.from])]
  <1>1. /\ \A p, q \in Nat \X Nat : p = q \/ Before(p, q) \/ Before(q, p)
        /\ \A p, q \in Nat \X Nat : ~(Before(p, q) /\ Before(q, p)) /\ ~Before(p, p)
    <2> DEFINE none == <<>>
    <2>1. DOMAIN none \subseteq Nat /\ \A i \in DOMAIN none : DOMAIN none[i] \subseteq Nat
      OBVIOUS
    <2> HIDE DEF none
    <2> QED BY <2>1, PlacesAreOrdered
  <1>2. /\ match \in [A -> B] /\ \A a, b \in A : match[a] = match[b] => a = b
        /\ \A b \in B : \E a \in A : match[a] = b
    BY DEF Bijection, Injection, Surjection, IsInjective
  <1>3. \A x : x \in RA <=> \E p, q \in A : Before(p, q) /\ x = Route(p, q)
    BY RoutesJoin
  <1>4. \A x : x \in RB <=> \E p, q \in B : Before(p, q) /\ x = Route(p, q)
    BY RoutesJoin
  <1>5. \A p, q : Route(p, q).from = p /\ Route(p, q).to = q
    OBVIOUS
  <1>6. \A p, q, s, t : Route(p, q) = Route(s, t) => p = s /\ q = t
    BY <1>5
  <1> HIDE DEF RA, RB, Route
  <1>7. \A x \in RA : x.from \in A /\ x.to \in A /\ Before(x.from, x.to) /\ x = Route(x.from, x.to)
    BY <1>3, <1>5
  <1>8. \A x \in RA : match[x.from] \in B /\ match[x.to] \in B /\ match[x.from] # match[x.to]
    BY <1>1, <1>2, <1>7
  <1>9. F \in [RA -> RB]
    <2> SUFFICES ASSUME NEW x \in RA PROVE F[x] \in RB
      OBVIOUS
    <2>1. Before(match[x.from], match[x.to]) \/ Before(match[x.to], match[x.from])
      BY <1>1, <1>8
    <2> QED BY <2>1, <1>4, <1>8
  <1>10. \A x, y \in RA : F[x] = F[y] => x = y
    <2> SUFFICES ASSUME NEW x \in RA, NEW y \in RA, F[x] = F[y] PROVE x = y
      OBVIOUS
    <2>1. \/ match[x.from] = match[y.from] /\ match[x.to] = match[y.to]
          \/ match[x.from] = match[y.to] /\ match[x.to] = match[y.from]
      BY <1>6
    <2>2. \/ x.from = y.from /\ x.to = y.to
          \/ x.from = y.to /\ x.to = y.from
      BY <2>1, <1>2, <1>7
    <2>3. x.from = y.from /\ x.to = y.to
      BY <2>2, <1>1, <1>7
    <2> QED BY <2>3, <1>7
  <1>11. \A y \in RB : \E x \in RA : F[x] = y
    <2> SUFFICES ASSUME NEW p \in B, NEW q \in B, Before(p, q) PROVE \E x \in RA : F[x] = Route(p, q)
      BY <1>4
    <2>1. PICK a \in A, b \in A : match[a] = p /\ match[b] = q
      BY <1>2
    <2>2. a # b /\ ~Before(q, p)
      BY <2>1, <1>1
    <2>3. CASE Before(a, b)
      <3>1. Route(a, b) \in RA
        BY <2>3, <1>3
      <3>2. F[Route(a, b)] = Route(p, q)
        BY <3>1, <2>1, <1>5
      <3> QED BY <3>1, <3>2
    <2>4. CASE Before(b, a)
      <3>1. Route(b, a) \in RA
        BY <2>4, <1>3
      <3>2. F[Route(b, a)] = Route(p, q)
        BY <3>1, <2>1, <2>2, <1>5
      <3> QED BY <3>1, <3>2
    <2> QED BY <2>2, <2>3, <2>4, <1>1
  <1>12. F \in Bijection(RA, RB)
    BY <1>9, <1>10, <1>11, Fun_IsBij
  <1>13. IsFiniteSet(RA)
    <2>1. IsFiniteSet(A \X A)
      BY FS_Product
    <2> DEFINE Pairs == {q \in A \X A : Before(q[1], q[2])}
    <2>2. IsFiniteSet(Pairs)
      BY <2>1, FS_Subset
    <2>3. RA = {Route(p[1], p[2]) : p \in Pairs}
      BY DEF RA, RoutesAmong, Route
    <2>4. [p \in Pairs |-> Route(p[1], p[2])] \in Surjection(Pairs, RA)
      BY <2>3 DEF Surjection
    <2> QED BY <2>2, <2>4, FS_Surjection
  <1>14. Cardinality(RA) = Cardinality(RB)
    BY <1>12, <1>13, FS_Bijection DEF ExistsBijection
  <1>15. RA = {} <=> RB = {}
    BY <1>9, <1>11
  <1> QED BY <1>14, <1>15 DEF RA, RB

\* A list of networks, and a list of some of them.
Covers(T, H) == NetworkList(T) /\ NetworkList(H) /\ Range(H) \subseteq Range(T)

\* The places of what was heard of T that are of networks of H.
Shared(T, had, H) == {p \in Places(Parts(had, T, Vlans)) : T[p[1]] \in Range(H)}

\* The subnets of the same networks match, whatever order they are asked in.
LEMMA SubnetsMatch ==
    ASSUME NEW T, NEW H, Covers(T, H), NEW hadT, NEW hadH,
           \A i \in DOMAIN T : hadT[i + 1], \A i \in DOMAIN H : hadH[i + 1]
    PROVE  \E match \in Bijection(Shared(T, hadT, H), Places(Parts(hadH, H, Vlans))) :
              \A p \in Shared(T, hadT, H) : T[p[1]] = H[match[p][1]] /\ match[p][2] = p[2]
  <1> DEFINE A == Shared(T, hadT, H)
             B == Places(Parts(hadH, H, Vlans))
             at(n) == CHOOSE j \in DOMAIN H : H[j] = n
             match == [p \in A |-> <<at(T[p[1]]), p[2]>>]
  <1>1. \A p : p \in A <=> \E i \in DOMAIN T : T[i] \in Range(H) /\ \E k \in DOMAIN Vlans[T[i]] : p = <<i, k>>
    <2>1. /\ DOMAIN Parts(hadT, T, Vlans) = DOMAIN T
          /\ \A i \in DOMAIN T : Parts(hadT, T, Vlans)[i] = Vlans[T[i]]
      BY PartsAreLists DEF Covers
    <2>2. \A p : p \in Places(Parts(hadT, T, Vlans)) <=> \E i \in DOMAIN T : \E k \in DOMAIN Vlans[T[i]] : p = <<i, k>>
      BY <2>1 DEF Places
    <2> QED BY <2>2 DEF Shared
  <1>2. \A p : p \in B <=> \E i \in DOMAIN H : \E k \in DOMAIN Vlans[H[i]] : p = <<i, k>>
    <2>1. /\ DOMAIN Parts(hadH, H, Vlans) = DOMAIN H
          /\ \A i \in DOMAIN H : Parts(hadH, H, Vlans)[i] = Vlans[H[i]]
      BY PartsAreLists DEF Covers
    <2> QED BY <2>1 DEF Places
  <1>3. \A i \in DOMAIN T : T[i] \in Range(H) => at(T[i]) \in DOMAIN H /\ H[at(T[i])] = T[i]
    BY DEF Range
  <1>4. \A i, j \in DOMAIN T : T[i] = T[j] => i = j
    BY DEF Covers, NetworkList, IsInjective
  <1>5. \A i, j \in DOMAIN H : H[i] = H[j] => i = j
    BY DEF Covers, NetworkList, IsInjective
  <1> HIDE DEF A, B, at
  <1>6. \A p \in A : /\ match[p] \in B /\ T[p[1]] = H[match[p][1]] /\ match[p][2] = p[2]
                     /\ p[1] \in DOMAIN T /\ p = <<p[1], p[2]>>
    BY <1>1, <1>2, <1>3
  <1>7. \A p, q \in A : match[p] = match[q] => p = q
    <2> SUFFICES ASSUME NEW p \in A, NEW q \in A, match[p] = match[q] PROVE p = q
      OBVIOUS
    <2>1. T[p[1]] = T[q[1]] /\ p[2] = q[2]
      BY <1>6
    <2>2. p[1] = q[1]
      BY <2>1, <1>4, <1>6
    <2> QED BY <2>1, <2>2, <1>6
  <1>8. \A b \in B : \E p \in A : match[p] = b
    <2> SUFFICES ASSUME NEW b \in B PROVE \E p \in A : match[p] = b
      OBVIOUS
    <2>6. PICK j \in DOMAIN H : \E k \in DOMAIN Vlans[H[j]] : b = <<j, k>>
      BY <1>2
    <2>7. PICK k \in DOMAIN Vlans[H[j]] : b = <<j, k>>
      BY <2>6
    <2>1. H[j] \in Range(T) /\ H[j] \in Range(H)
      BY DEF Covers, Range
    <2>2. PICK i \in DOMAIN T : T[i] = H[j]
      BY <2>1 DEF Range
    <2>3. <<i, k>> \in A
      BY <2>1, <2>2, <1>1
    <2>4. at(T[i]) = j
      BY <2>1, <2>2, <1>3, <1>5
    <2>5. match[<<i, k>>] = <<j, k>>
      BY <2>3, <2>4
    <2> QED BY <2>7, <2>3, <2>5
  <1>9. match \in Bijection(A, B)
    BY <1>6, <1>7, <1>8, Fun_IsBij
  <1> QED BY <1>6, <1>9 DEF A, B

\* The links of networks that all answered.
LEMMA LinksAsked ==
    ASSUME NEW H, NetworkList(H), NEW had, \A i \in DOMAIN H : had[i + 1], NEW D, NEW av, NEW c, NEW s
    PROVE  Links(build_l2(D, av, Parts(had, H, LinkLayer), c, s)) = UNION {Joined(LinkLayer[n]) : n \in Range(H)}
  <1> DEFINE Q == Parts(had, H, LinkLayer)
  <1>1. DOMAIN Q = DOMAIN H /\ (\A i \in DOMAIN H : Q[i] = LinkLayer[H[i]]) /\ Numbered(Q)
    BY PartsAreLists
  <1>2. Links(build_l2(D, av, Q, c, s)) = UNION {Joined(Q[i]) : i \in DOMAIN Q}
    BY <1>1, LinksOfL2
  <1> HIDE DEF Q
  <1>3. UNION {Joined(Q[i]) : i \in DOMAIN Q} = UNION {Joined(LinkLayer[n]) : n \in Range(H)}
    BY <1>1 DEF Range
  <1> QED BY <1>2, <1>3 DEF Q

\* The links that are streamed of a network that answered.
LEMMA LinksOfPartial ==
    ASSUME NEW e, e.network \in Range(NetworkOrder), e.heard
    PROVE  Links(partial_l2(e)) = Joined(LinkLayer[e.network])
  <1> DEFINE layers == <<IF e.heard THEN LinkLayer[e.network] ELSE <<>> >>
  <1>1. DOMAIN layers = {1} /\ layers[1] = LinkLayer[e.network]
    OBVIOUS
  <1>2. LinkLayer[e.network] \in Seq(Range(LinkLayer[e.network]))
    BY DashboardAssumption
  <1>3. DOMAIN LinkLayer[e.network] \subseteq Nat
    BY <1>2
  <1>4. partial_l2(e) = build_l2(In({e.network}), Availabilities, layers, <<>>, <<>>)
    BY DEF partial_l2
  <1> HIDE DEF layers
  <1>5. Numbered(layers)
    BY <1>1, <1>3 DEF Numbered
  <1>6. Links(partial_l2(e)) = UNION {Joined(layers[k]) : k \in DOMAIN layers}
    BY <1>4, <1>5, LinksOfL2
  <1> QED BY <1>1, <1>6

\* Those that are streamed of some networks, when all of them answered.
LEMMA LinksStreamed ==
    ASSUME NEW r, NEW T, NetworkList(T), NEW networks, networks \subseteq Range(T),
           streamed[r] = [i \in DOMAIN T |-> [network |-> T[i], heard |-> TRUE]]
    PROVE  StreamedLinks(r, networks) = UNION {Joined(LinkLayer[n]) : n \in networks}
  <1> DEFINE Event(n) == [network |-> n, heard |-> TRUE]
             Told == {f \in Range(streamed[r]) : f.network \in networks}
  <1>1. Told = {Event(n) : n \in networks}
    BY DEF Range
  <1>2. \A n \in networks : Event(n).network = n /\ Event(n).heard /\ n \in Range(NetworkOrder)
    BY DEF NetworkList
  <1> HIDE DEF Event
  <1>3. \A n \in networks : Links(partial_l2(Event(n))) = Joined(LinkLayer[n])
    BY <1>2, LinksOfPartial
  <1>4. StreamedLinks(r, networks) = UNION {Links(partial_l2(e)) : e \in Told}
    BY DEF StreamedLinks
  <1> HIDE DEF Told
  <1>5. {Links(partial_l2(e)) : e \in Told} = {Joined(LinkLayer[n]) : n \in networks}
    BY <1>1, <1>3
  <1> QED BY <1>4, <1>5

\* The routes of layer 3, of devices with a gateway and of devices without one.
LEMMA RoutesOfL3 ==
    ASSUME NEW networks, NEW ids, NEW devices
    PROVE  LET gateways == SelectSeq(devices, LAMBDA d : d.product = "appliance" /\ d.serial # NoSerial)
           IN build_l3(networks, ids, devices).routes =
                IF gateways = <<>> THEN {} ELSE RoutesAmong(Places(ids), Head(gateways).serial)
  <1> DEFINE gateways == SelectSeq(devices, LAMBDA d : d.product = "appliance" /\ d.serial # NoSerial)
             subnets == [p \in Places(ids) |-> [network |-> networks[p[1]], vlan |-> ids[p[1]][p[2]]]]
  <1>1. DOMAIN subnets = Places(ids)
    OBVIOUS
  <1>2. build_l3(networks, ids, devices).routes =
          IF gateways = <<>> THEN {}
          ELSE {[from |-> p[1], to |-> p[2], via |-> Head(gateways).serial] :
                   p \in {q \in (DOMAIN subnets) \X (DOMAIN subnets) : Before(q[1], q[2])}}
    BY DEF build_l3
  <1> HIDE DEF gateways, subnets
  <1>3. build_l3(networks, ids, devices).routes =
          IF gateways = <<>> THEN {}
          ELSE {[from |-> p[1], to |-> p[2], via |-> Head(gateways).serial] :
                   p \in {q \in Places(ids) \X Places(ids) : Before(q[1], q[2])}}
    BY <1>1, <1>2
  <1> QED BY <1>3 DEF RoutesAmong, gateways

\* Layer 3 of some networks has the subnets of them, as many routes as join two
\* of these, and the same gateway.
LEMMA SameL3 ==
    ASSUME NEW T, NEW H, Covers(T, H), NEW hadT, NEW hadH,
           \A i \in DOMAIN T : hadT[i + 1], \A i \in DOMAIN H : hadH[i + 1], NEW devices
    PROVE  LET part == Within(build_l3(T, Parts(hadT, T, Vlans), devices), Range(H))
               b == build_l3(H, Parts(hadH, H, Vlans), devices)
           IN /\ part.subnets = Range(b.subnets) /\ Vias(part) = Vias(b)
              /\ Cardinality(part.routes) = Cardinality(b.routes)
  <1> DEFINE P == Parts(hadT, T, Vlans)
             Q == Parts(hadH, H, Vlans)
             A == Shared(T, hadT, H)
             a == build_l3(T, P, devices)
             b == build_l3(H, Q, devices)
             part == Within(a, Range(H))
             gateways == SelectSeq(devices, LAMBDA d : d.product = "appliance" /\ d.serial # NoSerial)
             via == Head(gateways).serial
  <1>1. PICK match \in Bijection(A, Places(Q)) :
           \A p \in A : T[p[1]] = H[match[p][1]] /\ match[p][2] = p[2]
    BY SubnetsMatch
  <1>2. NetworkList(T) /\ NetworkList(H)
    BY DEF Covers
  <1>3. /\ DOMAIN P = DOMAIN T /\ \A i \in DOMAIN T : P[i] = Vlans[T[i]]
        /\ DOMAIN Q = DOMAIN H /\ \A i \in DOMAIN H : Q[i] = Vlans[H[i]]
        /\ Numbered(P) /\ Numbered(Q)
        /\ IsFiniteSet(DOMAIN P) /\ \A i \in DOMAIN P : IsFiniteSet(DOMAIN P[i])
    BY <1>2, PartsAreLists
  <1>4. a.subnets = [p \in Places(P) |-> [network |-> T[p[1]], vlan |-> P[p[1]][p[2]]]]
    BY DEF build_l3
  <1>5. b.subnets = [p \in Places(Q) |-> [network |-> H[p[1]], vlan |-> Q[p[1]][p[2]]]]
    BY DEF build_l3
  <1>6. a.routes = IF gateways = <<>> THEN {} ELSE RoutesAmong(Places(P), via)
    BY RoutesOfL3
  <1>7. b.routes = IF gateways = <<>> THEN {} ELSE RoutesAmong(Places(Q), via)
    BY RoutesOfL3
  <1>a. A = {p \in Places(P) : T[p[1]] \in Range(H)}
    BY DEF Shared
  <1>b. /\ part.subnets = {subnet \in Range(a.subnets) : subnet.network \in Range(H)}
        /\ part.routes = {x \in a.routes : /\ a.subnets[x.from].network \in Range(H)
                                           /\ a.subnets[x.to].network \in Range(H)}
    BY DEF Within
  <1> HIDE DEF P, Q, A, a, b, part, gateways, via
  <1>8. /\ match \in [A -> Places(Q)]
        /\ \A q \in Places(Q) : \E p \in A : match[p] = q
    BY <1>1 DEF Bijection, Surjection
  <1>9. \A p \in A : a.subnets[p] = b.subnets[match[p]]
    <2> SUFFICES ASSUME NEW p \in A PROVE a.subnets[p] = b.subnets[match[p]]
      OBVIOUS
    <2>1. match[p] \in Places(Q) /\ p \in Places(P)
      BY <1>8, <1>a
    <2>2. p[1] \in DOMAIN T /\ match[p][1] \in DOMAIN H
      BY <2>1, <1>3 DEF Places
    <2>3. P[p[1]][p[2]] = Q[match[p][1]][match[p][2]]
      BY <2>2, <1>1, <1>3
    <2> QED BY <2>1, <2>3, <1>1, <1>4, <1>5
  <1>c. \A p \in Places(P) : a.subnets[p].network = T[p[1]]
    BY <1>4
  <1>10. part.subnets = Range(b.subnets)
    <2>1. DOMAIN a.subnets = Places(P) /\ DOMAIN b.subnets = Places(Q)
      BY <1>4, <1>5
    <2>2. part.subnets = {a.subnets[p] : p \in A}
      BY <2>1, <1>a, <1>b, <1>c DEF Range
    <2>3. {a.subnets[p] : p \in A} = {b.subnets[q] : q \in Places(Q)}
      BY <1>8, <1>9
    <2> QED BY <2>1, <2>2, <2>3 DEF Range
  <1>11. /\ Places(P) \in SUBSET (Nat \X Nat) /\ Places(Q) \in SUBSET (Nat \X Nat)
         /\ IsFiniteSet(Places(P))
    BY <1>3, PlacesAreOrdered, PlacesAreFinite DEF Numbered
  <1>d. A \in SUBSET (Nat \X Nat) /\ IsFiniteSet(A)
    BY <1>11, <1>a, FS_Subset
  <1>12. /\ Cardinality(RoutesAmong(A, via)) = Cardinality(RoutesAmong(Places(Q), via))
         /\ RoutesAmong(A, via) = {} <=> RoutesAmong(Places(Q), via) = {}
    BY <1>1, <1>11, <1>d, RoutesMatch
  <1>e. part.routes = IF gateways = <<>> THEN {} ELSE RoutesAmong(A, via)
    <2>1. CASE gateways = <<>>
      BY <2>1, <1>b, <1>6
    <2>2. CASE gateways # <<>>
      <3> DEFINE Route(p, q) == [from |-> p, to |-> q, via |-> via]
      <3>1. \A x : x \in RoutesAmong(Places(P), via) <=> \E p, q \in Places(P) : Before(p, q) /\ x = Route(p, q)
        BY RoutesJoin
      <3>2. \A x : x \in RoutesAmong(A, via) <=> \E p, q \in A : Before(p, q) /\ x = Route(p, q)
        BY RoutesJoin
      <3>3. \A p, q : Route(p, q).from = p /\ Route(p, q).to = q
        OBVIOUS
      <3> HIDE DEF Route
      <3>4. \A x : x \in part.routes <=> \E p, q \in A : Before(p, q) /\ x = Route(p, q)
        BY <2>2, <3>1, <3>3, <1>6, <1>a, <1>b, <1>c
      <3>5. \A x : x \in part.routes <=> x \in RoutesAmong(A, via)
        BY <3>2, <3>4
      <3>6. part.routes = RoutesAmong(A, via)
        BY <3>5, <1>b
      <3> QED BY <2>2, <3>6
    <2> QED BY <2>1, <2>2
  <1>13. Cardinality(part.routes) = Cardinality(b.routes)
    BY <1>e, <1>7, <1>12
  <1>14. Vias(part) = Vias(b)
    <2>1. \A places, x : x \in RoutesAmong(places, via) => x.via = via
      <3> SUFFICES ASSUME NEW places, NEW x, x \in RoutesAmong(places, via) PROVE x.via = via
        OBVIOUS
      <3> QED BY RoutesJoin
    <2>2. part.routes = {} <=> b.routes = {}
      BY <1>e, <1>7, <1>12
    <2>3. (\A x \in part.routes : x.via = via) /\ \A x \in b.routes : x.via = via
      BY <1>e, <1>7, <2>1
    <2> QED BY <2>2, <2>3 DEF Vias
  <1> QED BY <1>10, <1>13, <1>14 DEF part, a, b, P, Q

\* A site with a device that is alerting is neither green nor unknown.
LEMMA AlertingShows ==
    ASSUME NEW D, IsFiniteSet(DOMAIN D), NEW networks, NEW av, NEW i \in DOMAIN networks, NEW k \in DOMAIN D,
           D[k].network = networks[i], D[k].serial \in DOMAIN av, av[D[k].serial] = "alerting"
    PROVE  build_sites(networks, D, av)[i].bucket \notin {"green", "unknown"}
  <1> DEFINE here == {j \in DOMAIN D : D[j].network = networks[i]}
             With(statuses) == Cardinality({j \in here : Get(av, D[j].serial, "") \in statuses})
             bad == {"alerting", "offline"}
             all == {"online", "alerting", "offline"}
  <1>1. build_sites(networks, D, av)[i].bucket = _health_bucket(With(bad), With(all))
    BY DEF build_sites
  <1>2. \A S : "alerting" \in S => With(S) \in Nat /\ With(S) # 0
    <2> SUFFICES ASSUME NEW S, "alerting" \in S PROVE With(S) \in Nat /\ With(S) # 0
      OBVIOUS
    <2> DEFINE those == {j \in here : Get(av, D[j].serial, "") \in S}
    <2>1. IsFiniteSet(those)
      BY FS_Subset
    <2>2. k \in those
      BY DEF Get
    <2> QED BY <2>1, <2>2, FS_CardinalityType, FS_EmptySet
  <1>3. With(bad) \in Nat /\ With(bad) # 0 /\ With(all) \in Nat /\ With(all) # 0
    BY <1>2
  <1> HIDE DEF With
  <1>4. _health_bucket(With(bad), With(all)) \in {"yellow", "orange", "red"}
    BY <1>3 DEF _health_bucket
  <1> QED BY <1>1, <1>4

-----------------------------------------------------------------------------
Watched == {"refresh", "l2", "l3"}

\* The parts that stage i of the stages S asks.
PartsOf(S, i) == {S[i][k][1] : k \in DOMAIN S[i]}

\* A stage is over when a later one is awaited, or the request is answered.
Over(r, i) == i < stage[r] \/ (i = stage[r] /\ pc[r] = "answered")

\* The calls that a request awaits are of its stage, what it heard is of that
\* stage and of those before, and it heard of every stage that is over unless
\* something was refused.
RequestInv(r, S) ==
    /\ stage[r] \in 0 .. Len(S)
    /\ \A c \in group[r] :
          pc[r] = "busy" /\ c.stage = stage[r] /\ (stage[r] > 0 => c.part \in PartsOf(S, stage[r]))
    /\ \A p \in got[r] :
          p = <<p[1], p[2]>> /\ p[1] \in 0 .. stage[r] /\ (p[1] > 0 => p[2] \in PartsOf(S, p[1]))
    /\ pc[r] = "answered" => stage[r] = Len(S)
    /\ pc[r] = "new" => stage[r] = 0
    /\ failures = 0 => \A i \in 1 .. Len(S) : Over(r, i) => \E p \in got[r] : p[1] = i

\* How many networks of the list T a refresh has streamed, and what it told.
Told(r, T) ==
    CASE pc[r] = "answered" -> Len(T)
      [] pc[r] # "answered" /\ stage[r] < 2 -> 0
      [] pc[r] # "answered" /\ stage[r] >= 2 -> IF stage[r] - 2 > Len(T) THEN Len(T) ELSE stage[r] - 2

StreamInv(r, T) ==
    streamed[r] = [i \in 1 .. Told(r, T) |-> [network |-> T[i], heard |-> <<i + 1, T[i]>> \in got[r]]]

TypeInv ==
    /\ failures \in Nat
    /\ DOMAIN pc = Requests /\ DOMAIN stage = Requests /\ DOMAIN group = Requests
    /\ DOMAIN got = Requests /\ DOMAIN streamed = Requests

RequestsInv ==
    /\ TypeInv
    /\ \A r \in Requests : ask[r].kind \in Watched =>
          /\ RequestInv(r, Stages(r))
          /\ ask[r].kind = "refresh" => StreamInv(r, target_networks(r))

\* A list of stages, none of them without a call.
StageList(S) == Len(S) \in Nat \ {0} /\ DOMAIN S = 1 .. Len(S) /\ \A i \in 1 .. Len(S) : S[i] # <<>>

\* The stages S of a refresh of the networks T.
RefreshStages(S, T) ==
    /\ Len(T) \in Nat /\ Len(T) + 1 <= Len(S)
    /\ \A i \in 1 .. Len(T) : PartsOf(S, i + 1) = {T[i]}

Same(r) ==
    /\ pc'[r] = pc[r] /\ stage'[r] = stage[r] /\ group'[r] = group[r] /\ got'[r] = got[r]
    /\ streamed'[r] = streamed[r] /\ (failures' = 0 => failures = 0)

\* What leaves a request as it is keeps what is known of it.
LEMMA SameKeeps ==
    ASSUME NEW r \in Requests, NEW S, RequestInv(r, S), Same(r)
    PROVE  RequestInv(r, S)' /\ \A T : StreamInv(r, T) => StreamInv(r, T)'
  <1>1. RequestInv(r, S)'
    BY DEF RequestInv, Same, Over
  <1>2. ASSUME NEW T, StreamInv(r, T)
        PROVE  StreamInv(r, T)'
    <2>1. Told(r, T)' = Told(r, T)
      BY DEF Told, Same
    <2> QED BY <1>2, <2>1 DEF StreamInv, Same
  <1> QED BY <1>1, <1>2

\* A request that ends without an answer.
LEMMA EndKeeps ==
    ASSUME TypeInv, NEW r \in Requests, NEW S, RequestInv(r, S), NEW how, how \notin {"new", "busy", "answered"},
           End(r, how), UNCHANGED <<stage, got, streamed>>, failures' = 0 => failures = 0, pc[r] = "busy"
    PROVE  RequestInv(r, S)' /\ \A T : StreamInv(r, T) => StreamInv(r, T)'
  <1>1. pc'[r] = how /\ group'[r] = {} /\ stage'[r] = stage[r] /\ got'[r] = got[r] /\ streamed'[r] = streamed[r]
    BY DEF End, TypeInv
  <1>2. RequestInv(r, S)'
    BY <1>1 DEF RequestInv, Over
  <1>3. ASSUME NEW T, StreamInv(r, T)
        PROVE  StreamInv(r, T)'
    <2>1. Told(r, T)' = Told(r, T)
      BY <1>1 DEF Told
    <2> QED BY <1>1, <1>3, <2>1 DEF StreamInv
  <1> QED BY <1>2, <1>3

\* The calls of a stage are of that stage and ask its parts.
LEMMA AwaitCalls ==
    ASSUME TypeInv, NEW r \in Requests, NEW i, NEW asked, Await(r, i, asked)
    PROVE  /\ stage'[r] = i
           /\ \A c \in group'[r] : c.stage = i /\ c.part \in {asked[k][1] : k \in DOMAIN asked}
  <1>1. stage'[r] = i /\ group'[r] = {Call(r, i, asked[k]) : k \in DOMAIN asked}
    BY DEF Await, TypeInv, Range
  <1> QED BY <1>1 DEF Call

\* A request that starts.
LEMMA StartKeeps ==
    ASSUME TypeInv, NEW r \in Requests, NEW S, S = Stages(r), StageList(S), RequestInv(r, S), Start(r)
    PROVE  RequestInv(r, S)' /\ \A T : StreamInv(r, T) => StreamInv(r, T)'
  <1>1. pc[r] = "new" /\ pc'[r] = "busy" /\ stage[r] = 0
    BY DEF Start, TypeInv, RequestInv
  <1>2. got'[r] = got[r] /\ streamed'[r] = streamed[r] /\ failures' = failures
    BY DEF Start
  <1>3. /\ stage'[r] \in {0, 1}
        /\ \A c \in group'[r] : c.stage = stage'[r] /\ (stage'[r] = 1 => c.part \in PartsOf(S, 1))
    <2>1. CASE Await(r, 1, Stages(r)[1])
      BY <2>1, AwaitCalls DEF PartsOf
    <2>2. CASE Await(r, 0, Asks("org", <<"organizations">>))
      BY <2>2, AwaitCalls
    <2> QED BY <2>1, <2>2 DEF Start
  <1>4. Len(S) \in Nat \ {0}
    BY DEF StageList
  <1>5. RequestInv(r, S)'
    BY <1>1, <1>2, <1>3, <1>4 DEF RequestInv, Over
  <1>6. ASSUME NEW T, StreamInv(r, T) PROVE StreamInv(r, T)'
    <2>1. Told(r, T)' = Told(r, T)
      BY <1>1, <1>3 DEF Told
    <2> QED BY <1>2, <1>6, <2>1 DEF StreamInv
  <1> QED BY <1>5, <1>6

\* What a request has heard after an answer or a refusal of its call c.
Hears(r, c, left, answered) ==
    /\ c \in group[r] /\ left \subseteq group[r]
    /\ answered = got[r] \/ answered = got[r] \cup {<<c.stage, c.part>>}
    /\ failures' = 0 => failures = 0 /\ (left = {} => answered = got[r] \cup {<<c.stage, c.part>>})

\* What is heard is of the stage that is awaited.
LEMMA HeardIsAwaited ==
    ASSUME NEW r, NEW S, RequestInv(r, S), NEW c, NEW left, NEW answered, Hears(r, c, left, answered)
    PROVE  /\ pc[r] = "busy" /\ c.stage = stage[r] /\ stage[r] \in Nat
           /\ \A p \in answered : p = <<p[1], p[2]>> /\ p[1] \in 0 .. stage[r] /\ (p[1] > 0 => p[2] \in PartsOf(S, p[1]))
           /\ \A i, x : i # stage[r] => (<<i, x>> \in answered <=> <<i, x>> \in got[r])
  BY DEF RequestInv, Hears

\* An answer or a refusal that leaves other calls of the stage.
LEMMA RestKeeps ==
    ASSUME TypeInv, NEW r \in Requests, NEW S, RequestInv(r, S), NEW c, NEW left, NEW answered,
           Hears(r, c, left, answered), Remaining(r, left, answered), left # {}
    PROVE  RequestInv(r, S)' /\ \A T : Len(T) \in Nat /\ StreamInv(r, T) => StreamInv(r, T)'
  <1>1. /\ pc[r] = "busy" /\ c.stage = stage[r] /\ stage[r] \in Nat
        /\ \A p \in answered : p = <<p[1], p[2]>> /\ p[1] \in 0 .. stage[r] /\ (p[1] > 0 => p[2] \in PartsOf(S, p[1]))
        /\ \A i, x : i # stage[r] => (<<i, x>> \in answered <=> <<i, x>> \in got[r])
    BY HeardIsAwaited
  <1>2. /\ pc' = pc /\ stage' = stage /\ streamed' = streamed
        /\ got'[r] = answered /\ group'[r] = left
    BY DEF Remaining, TypeInv
  <1>3. got[r] \subseteq answered /\ left \subseteq group[r] /\ (failures' = 0 => failures = 0)
    BY DEF Hears
  <1>4. RequestInv(r, S)'
    BY <1>1, <1>2, <1>3 DEF RequestInv, Over
  <1>5. ASSUME NEW T, Len(T) \in Nat, StreamInv(r, T) PROVE StreamInv(r, T)'
    <2>1. Told(r, T)' = Told(r, T)
      BY <1>2 DEF Told
    <2>2. \A i \in 1 .. Told(r, T) : i + 1 # stage[r]
      BY <1>1, <1>5 DEF Told
    <2> QED BY <1>1, <1>2, <1>5, <2>1, <2>2 DEF StreamInv
  <1> QED BY <1>4, <1>5

\* On to a stage, or to the answer after the last.
LEMMA Going ==
    ASSUME TypeInv, NEW r \in Requests, NEW S, S = Stages(r), StageList(S), NEW i \in Nat \ {0}, Go(r, i)
    PROVE  \/ /\ i <= Len(S) /\ pc' = pc /\ stage'[r] = i
              /\ \A c \in group'[r] : c.stage = i /\ c.part \in PartsOf(S, i)
           \/ i > Len(S) /\ pc'[r] = "answered" /\ group'[r] = {} /\ stage' = stage
  <1>1. CASE i <= Len(S)
    <2>1. Await(r, i, S[i]) /\ pc' = pc
      BY <1>1 DEF Go, StageList
    <2> QED BY <1>1, <2>1, AwaitCalls DEF PartsOf
  <1>2. CASE i > Len(S)
    BY <1>2 DEF Go, Finish, End, TypeInv, StageList
  <1> QED BY <1>1, <1>2 DEF StageList

\* The answer or the refusal that a stage waited for.
LEMMA OnKeeps ==
    ASSUME TypeInv, NEW r \in Requests, NEW S, S = Stages(r), StageList(S), RequestInv(r, S), NEW c, NEW answered,
           Hears(r, c, {}, answered), Remaining(r, {}, answered)
    PROVE  RequestInv(r, S)'
  <1>1. /\ pc[r] = "busy" /\ c.stage = stage[r] /\ stage[r] \in Nat
        /\ \A p \in answered : p = <<p[1], p[2]>> /\ p[1] \in 0 .. stage[r] /\ (p[1] > 0 => p[2] \in PartsOf(S, p[1]))
    BY HeardIsAwaited
  <1>2. got'[r] = answered /\ Go(r, stage[r] + 1)
    BY DEF Remaining, Proceed, TypeInv
  <1>3. got[r] \subseteq answered /\ (failures' = 0 => failures = 0 /\ <<stage[r], c.part>> \in answered)
    BY <1>1 DEF Hears
  <1>4. stage[r] \in 0 .. Len(S) /\ Len(S) \in Nat \ {0}
    BY DEF RequestInv, StageList
  <1>5. failures' = 0 => \A i \in 1 .. Len(S) : i <= stage[r] => \E p \in answered : p[1] = i
    <2> SUFFICES ASSUME failures' = 0, NEW i \in 1 .. Len(S), i <= stage[r] PROVE \E p \in answered : p[1] = i
      OBVIOUS
    <2>1. CASE i = stage[r]
      <3>1. <<stage[r], c.part>> \in answered /\ <<stage[r], c.part>>[1] = i
        BY <1>3, <2>1
      <3> QED BY <3>1
    <2>2. CASE i < stage[r]
      BY <2>2, <1>3 DEF RequestInv, Over
    <2> QED BY <2>1, <2>2, <1>1
  <1>6. CASE stage[r] + 1 <= Len(S) /\ pc' = pc /\ stage'[r] = stage[r] + 1
             /\ \A d \in group'[r] : d.stage = stage[r] + 1 /\ d.part \in PartsOf(S, stage[r] + 1)
    <2>1. failures' = 0 => \A i \in 1 .. Len(S) : Over(r, i)' => \E p \in got'[r] : p[1] = i
      BY <1>1, <1>2, <1>5, <1>6 DEF Over
    <2> QED BY <1>1, <1>2, <1>4, <1>6, <2>1 DEF RequestInv
  <1>7. CASE stage[r] + 1 > Len(S) /\ pc'[r] = "answered" /\ group'[r] = {} /\ stage' = stage
    <2>1. failures' = 0 => \A i \in 1 .. Len(S) : Over(r, i)' => \E p \in got'[r] : p[1] = i
      BY <1>1, <1>2, <1>5, <1>7 DEF Over
    <2> QED BY <1>1, <1>2, <1>4, <1>7, <2>1 DEF RequestInv
  <1> QED BY <1>1, <1>2, <1>6, <1>7, Going

\* One more element of a list.
LEMMA AppendNext ==
    ASSUME NEW n \in Nat, NEW e
    PROVE  Append([i \in 1 .. n |-> e[i]], e[n + 1]) = [i \in 1 .. n + 1 |-> e[i]]
  <1> DEFINE E == {e[i] : i \in 1 .. n + 1}
             s == [i \in 1 .. n |-> e[i]]
             t == Append(s, e[n + 1])
  <1>1. s \in Seq(E) /\ Len(s) = n /\ e[n + 1] \in E
    OBVIOUS
  <1> HIDE DEF s, E
  <1>2. t \in Seq(E) /\ Len(t) = n + 1
    BY <1>1
  <1>3. \A i \in 1 .. n + 1 : t[i] = IF i <= n THEN s[i] ELSE e[n + 1]
    BY <1>1
  <1> HIDE DEF t
  <1>4. \A i \in 1 .. n + 1 : t[i] = e[i]
    BY <1>3 DEF s
  <1>5. t = [i \in 1 .. n + 1 |-> e[i]]
    BY <1>2, <1>4
  <1> QED BY <1>5 DEF t, s

\* A refresh streams what it heard of a network as it goes on from its stage.
LEMMA OnStreams ==
    ASSUME TypeInv, NEW r \in Requests, NEW S, S = Stages(r), StageList(S), RequestInv(r, S), NEW c, NEW answered,
           Hears(r, c, {}, answered), Remaining(r, {}, answered),
           ask[r].kind = "refresh", NEW T, T = target_networks(r), RefreshStages(S, T), StreamInv(r, T)
    PROVE  StreamInv(r, T)'
  <1>1. /\ pc[r] = "busy" /\ c.stage = stage[r] /\ stage[r] \in Nat
        /\ \A i, x : i # stage[r] => (<<i, x>> \in answered <=> <<i, x>> \in got[r])
    BY HeardIsAwaited
  <1>2. got'[r] = answered /\ Go(r, stage[r] + 1)
    BY DEF Remaining, Proceed, TypeInv
  <1>3. stage[r] \in 0 .. Len(S) /\ Len(S) \in Nat \ {0} /\ Len(T) \in Nat /\ Len(T) + 1 <= Len(S)
    BY DEF RequestInv, StageList, RefreshStages
  <1>4. \/ pc'[r] = "busy" /\ stage'[r] = stage[r] + 1
        \/ pc'[r] = "answered" /\ stage[r] = Len(S)
    BY <1>1, <1>2, <1>3, Going
  <1> DEFINE Event(i) == [network |-> T[i], heard |-> <<i + 1, T[i]>> \in answered]
  <1>5. \A i \in 1 .. Told(r, T) : i + 1 # stage[r]
    BY <1>1, <1>3 DEF Told
  <1>6. streamed[r] = [i \in 1 .. Told(r, T) |-> Event(i)]
    BY <1>1, <1>5 DEF StreamInv
  <1>7. CASE stage[r] \in 2 .. Len(T) + 1
    <2>1. Told(r, T) = stage[r] - 2 /\ Told(r, T)' = stage[r] - 1
      BY <1>1, <1>3, <1>4, <1>7 DEF Told
    <2>2. streamed'[r] = Append(streamed[r], Event(stage[r] - 1))
      <3>1. InPhase2(r) /\ StreamNetwork(r, answered) = Event(stage[r] - 1)
        BY <1>1, <1>7 DEF InPhase2, StreamNetwork
      <3> HIDE DEF Event
      <3> QED BY <3>1 DEF Remaining, Proceed, TypeInv
    <2>3. streamed'[r] = [i \in 1 .. stage[r] - 1 |-> Event(i)]
      <3> DEFINE e == [i \in 1 .. Len(T) |-> Event(i)]
                 n == stage[r] - 2
      <3>1. n \in Nat /\ n + 1 = stage[r] - 1 /\ \A i \in 1 .. n + 1 : e[i] = Event(i)
        BY <1>3, <1>7
      <3> HIDE DEF e, Event
      <3>2. Append([i \in 1 .. n |-> e[i]], e[n + 1]) = [i \in 1 .. n + 1 |-> e[i]]
        BY <3>1, AppendNext
      <3>3. [i \in 1 .. n |-> e[i]] = [i \in 1 .. n |-> Event(i)]
        BY <3>1
      <3>4. [i \in 1 .. n + 1 |-> e[i]] = [i \in 1 .. n + 1 |-> Event(i)]
        BY <3>1
      <3>5. e[n + 1] = Event(n + 1)
        BY <3>1
      <3> QED BY <3>1, <3>2, <3>3, <3>4, <3>5, <2>1, <2>2, <1>6
    <2> QED BY <2>1, <2>3, <1>2 DEF StreamInv
  <1>8. CASE stage[r] \notin 2 .. Len(T) + 1
    <2>1. Told(r, T)' = Told(r, T)
      BY <1>1, <1>3, <1>4, <1>8 DEF Told
    <2>2. streamed'[r] = streamed[r]
      BY <1>8 DEF Remaining, Proceed, InPhase2
    <2> QED BY <2>1, <2>2, <1>2, <1>6 DEF StreamInv
  <1> QED BY <1>7, <1>8

-----------------------------------------------------------------------------
IsList(s) == Len(s) \in Nat /\ DOMAIN s = 1 .. Len(s) /\ s = [i \in 1 .. Len(s) |-> s[i]]

\* A function of the first n numbers is a list.
LEMMA ListOf ==
    ASSUME NEW s, NEW n \in Nat, s = [i \in 1 .. n |-> s[i]]
    PROVE  IsList(s) /\ Len(s) = n
  <1> DEFINE E == {s[i] : i \in 1 .. n}
  <1>1. s \in Seq(E)
    OBVIOUS
  <1>2. Len(s) = n /\ DOMAIN s = 1 .. n
    BY <1>1
  <1> QED BY <1>2 DEF IsList

\* So is a sequence.
LEMMA SeqIsList ==
    ASSUME NEW E, NEW s \in Seq(E)
    PROVE  IsList(s)
  BY DEF IsList

Joins(u, s, t) == u = s \o t

\* One list after another: its elements, and how many they are.
LEMMA Concatenation ==
    ASSUME NEW s, NEW t, IsList(s), IsList(t), NEW u, Joins(u, s, t)
    PROVE  /\ IsList(u) /\ Len(u) = Len(s) + Len(t)
           /\ \A i \in 1 .. Len(s) : u[i] = s[i]
           /\ \A i \in 1 .. Len(t) : u[Len(s) + i] = t[i]
  <1> DEFINE E == {s[i] : i \in 1 .. Len(s)} \cup {t[i] : i \in 1 .. Len(t)}
  <1>1. s \in Seq(E) /\ Len(s) \in Nat
    BY DEF IsList
  <1>2. t \in Seq(E) /\ Len(t) \in Nat
    BY DEF IsList
  <1> HIDE DEF E
  <1>3. u \in Seq(E) /\ Len(u) = Len(s) + Len(t)
    BY <1>1, <1>2 DEF Joins
  <1>4. IsList(u)
    BY <1>3, SeqIsList
  <1>5. \A i \in 1 .. Len(s) + Len(t) : u[i] = IF i <= Len(s) THEN s[i] ELSE t[i - Len(s)]
    BY <1>1, <1>2 DEF Joins
  <1>6. \A i \in 1 .. Len(s) : u[i] = s[i]
    BY <1>1, <1>2, <1>5
  <1>7. \A i \in 1 .. Len(t) : u[Len(s) + i] = t[i]
    BY <1>1, <1>2, <1>5
  <1> QED BY <1>3, <1>4, <1>6, <1>7

\* A filtered list is a list.
LEMMA FilterIsList ==
    ASSUME NEW s, IsFiniteSet(DOMAIN s), NEW D
    PROVE  IsList(Filter(s, D))
  <1> DEFINE at == {i \in DOMAIN s : s[i] \in D}
             t == Filter(s, D)
  <1>1. Cardinality(at) \in Nat
    BY FS_Subset, FS_CardinalityType
  <1>2. t = [i \in 1 .. Cardinality(at) |-> t[i]]
    BY DEF Filter
  <1> HIDE DEF at, t
  <1>3. IsList(t)
    BY <1>1, <1>2, ListOf
  <1> QED BY <1>3 DEF t

\* The serials of devices are a list.
LEMMA SerialsAreList ==
    ASSUME NEW D \in SUBSET Range(Devices)
    PROVE  IsList(Serials(D))
  <1> DEFINE K == {d \in D : d.serial # NoSerial}
             known == Listed[K]
             serials == Serials(D)
  <1>1. known = Filter(Devices, K)
    BY DEF Listed
  <1>2. IsFiniteSet(DOMAIN Devices)
    <2>1. Devices \in Seq(Range(Devices))
      BY DashboardAssumption
    <2>2. Len(Devices) \in Nat /\ DOMAIN Devices = 1 .. Len(Devices)
      BY <2>1
    <2>3. IsFiniteSet(1 .. Len(Devices))
      BY <2>2, FS_Interval
    <2> QED BY <2>2, <2>3
  <1>3. IsList(Filter(Devices, K))
    BY <1>2, FilterIsList
  <1> HIDE DEF K, known
  <1>4. serials = [i \in DOMAIN known |-> known[i].serial]
    BY DEF Serials, K, known
  <1> HIDE DEF serials
  <1>5. IsList(known)
    BY <1>1, <1>3
  <1>6. Len(known) \in Nat /\ serials = [i \in 1 .. Len(known) |-> serials[i]]
    BY <1>4, <1>5 DEF IsList
  <1>7. IsList(serials)
    BY <1>6, ListOf
  <1> QED BY <1>7 DEF serials

\* The refresh asks networks that the Dashboard lists, each once.
LEMMA TargetsAreNetworks ==
    ASSUME NEW r
    PROVE  NetworkList(target_networks(r)) /\ IsList(target_networks(r))
  <1>1. NetworkList(NetworkOrder)
    BY DashboardAssumption DEF NetworkList
  <1>2. ASSUME NEW n \in Range(NetworkOrder) PROVE NetworkList(<<n>>)
    <2>1. Range(<<n>>) = {n}
      BY DEF Range
    <2>2. <<n>> \in Seq({n})
      OBVIOUS
    <2>3. IsInjective(<<n>>)
      BY DEF IsInjective
    <2> QED BY <2>1, <2>2, <2>3 DEF NetworkList
  <1>3. NetworkList(target_networks(r))
    BY <1>1, <1>2 DEF target_networks
  <1> QED BY <1>3 DEF NetworkList, IsList

\* What the other routes ask is a list, whether it is listed or not.
LEMMA IdsAreList ==
    ASSUME NEW r
    PROVE  IsList(NetworkIds(r))
  <1>1. HashOrder \in Seq(Range(HashOrder))
    BY DashboardAssumption
  <1>2. ASSUME NEW n PROVE <<n>> \in Seq(Range(<<n>>))
    BY DEF Range
  <1>3. NetworkIds(r) \in Seq(Range(NetworkIds(r)))
    BY <1>1, <1>2 DEF NetworkIds
  <1> QED BY <1>3 DEF IsList

\* Stages that ask part by part.
LEMMA PartStages ==
    ASSUME NEW parts, IsList(parts), NEW whats, 1 \in DOMAIN whats, NEW S, S = PerPart(parts, whats)
    PROVE  IsList(S) /\ Len(S) = Len(parts) /\ \A i \in 1 .. Len(S) : S[i] # <<>> /\ PartsOf(S, i) = {parts[i]}
  <1>1. Len(parts) \in Nat /\ S = [i \in 1 .. Len(parts) |-> S[i]]
    BY DEF PerPart, IsList
  <1>2. IsList(S) /\ Len(S) = Len(parts)
    BY <1>1, ListOf
  <1>3. ASSUME NEW i \in 1 .. Len(parts) PROVE S[i] # <<>> /\ PartsOf(S, i) = {parts[i]}
    <2>1. S[i] = [k \in DOMAIN whats |-> <<parts[i], whats[k]>>]
      BY DEF PerPart, Asks, IsList
    <2>2. DOMAIN S[i] = DOMAIN whats
      BY <2>1
    <2>3. S[i] # <<>>
      BY <2>2
    <2>4. \A k \in DOMAIN whats : S[i][k][1] = parts[i]
      BY <2>1
    <2>5. PartsOf(S, i) = {parts[i]}
      BY <2>2, <2>4 DEF PartsOf
    <2> QED BY <2>3, <2>5
  <1> QED BY <1>2, <1>3

\* The first stage and those of some parts.
LEMMA FirstStages ==
    ASSUME NEW parts, IsList(parts), NEW whats, 1 \in DOMAIN whats, NEW first, first # <<>>,
           NEW S, Joins(S, <<first>>, PerPart(parts, whats))
    PROVE  /\ StageList(S) /\ Len(S) = Len(parts) + 1 /\ IsList(S)
           /\ \A i \in 1 .. Len(parts) : PartsOf(S, i + 1) = {parts[i]}
  <1> DEFINE A == <<first>>
             B == PerPart(parts, whats)
             n == Len(parts)
  <1>1. IsList(B) /\ Len(B) = n /\ n \in Nat /\ \A i \in 1 .. n : B[i] # <<>> /\ PartsOf(B, i) = {parts[i]}
    <2>1. n \in Nat
      BY DEF IsList
    <2>2. B = PerPart(parts, whats)
      OBVIOUS
    <2> HIDE DEF B
    <2>3. IsList(B) /\ Len(B) = Len(parts) /\ \A i \in 1 .. Len(B) : B[i] # <<>> /\ PartsOf(B, i) = {parts[i]}
      BY <2>2, PartStages
    <2> QED BY <2>1, <2>3
  <1>2. IsList(A) /\ Len(A) = 1 /\ A[1] # <<>>
    BY DEF IsList
  <1>3. Joins(S, A, B)
    BY DEF Joins
  <1> HIDE DEF A, B, n
  <1>4. /\ IsList(S) /\ Len(S) = 1 + n
        /\ \A i \in 1 .. 1 : S[i] = A[i]
        /\ \A i \in 1 .. n : S[1 + i] = B[i]
    <2>1. /\ IsList(S) /\ Len(S) = Len(A) + Len(B)
          /\ \A i \in 1 .. Len(A) : S[i] = A[i]
          /\ \A i \in 1 .. Len(B) : S[Len(A) + i] = B[i]
      <3>1. IsList(A) /\ IsList(B) /\ Joins(S, A, B)
        BY <1>1, <1>2, <1>3
      <3> QED BY <3>1, Concatenation
    <2> QED BY <2>1, <1>1, <1>2
  <1>5. \A i \in 1 .. n : S[i + 1] = B[i]
    <2> TAKE i \in 1 .. n
    <2>1. i + 1 = 1 + i
      BY <1>1
    <2> QED BY <2>1, <1>4
  <1>6. \A i \in 1 .. n + 1 : S[i] # <<>>
    <2> TAKE i \in 1 .. n + 1
    <2>1. CASE i = 1
      BY <2>1, <1>2, <1>4
    <2>2. CASE i # 1
      <3>1. i - 1 \in 1 .. n /\ (i - 1) + 1 = i
        BY <2>2, <1>1
      <3> QED BY <3>1, <1>1, <1>5
    <2> QED BY <2>1, <2>2
  <1>7. StageList(S)
    <2>1. 1 + n = n + 1 /\ n + 1 \in Nat \ {0}
      BY <1>1
    <2> QED BY <2>1, <1>4, <1>6 DEF StageList, IsList
  <1>8. \A i \in 1 .. n : PartsOf(S, i + 1) = {parts[i]}
    <2> TAKE i \in 1 .. n
    <2>1. S[i + 1] = B[i] /\ PartsOf(B, i) = {parts[i]}
      BY <1>1, <1>5
    <2> QED BY <2>1 DEF PartsOf
  <1> QED BY <1>1, <1>4, <1>7, <1>8 DEF n

\* The stages of a refresh: one for each network after the first, then more.
LEMMA StagesOfRefresh ==
    ASSUME NEW r, ask[r].kind = "refresh"
    PROVE  StageList(Stages(r)) /\ RefreshStages(Stages(r), target_networks(r))
  <1> DEFINE T == target_networks(r)
             first == Asks("org", <<"devices", "networks", "availabilities", "uplinks">>)
             whats == <<"links", "vlans">>
             AB == <<first>> \o PerPart(T, whats)
             serials == Serials(final_devices(r))
             clients == <<"clients">>
             C == PerPart(serials, clients)
             S == AB \o C
             n == Len(T)
             m == Len(C)
  <1>1. Stages(r) = S
    BY DEF Stages
  <1>2. IsList(T) /\ n \in Nat
    BY TargetsAreNetworks DEF IsList
  <1>3. IsList(serials)
    BY SerialsAreList DEF final_devices, In
  <1>4. first # <<>> /\ 1 \in DOMAIN whats /\ 1 \in DOMAIN clients
    BY DEF Asks
  <1> HIDE DEF T, first, whats, serials, clients
  <1>5. StageList(AB) /\ Len(AB) = n + 1 /\ IsList(AB) /\ \A i \in 1 .. n : PartsOf(AB, i + 1) = {T[i]}
    <2>1. Joins(AB, <<first>>, PerPart(T, whats))
      BY DEF Joins
    <2> HIDE DEF AB
    <2> QED BY <2>1, <1>2, <1>4, FirstStages
  <1>6. IsList(C) /\ m \in Nat /\ \A i \in 1 .. m : C[i] # <<>>
    BY <1>3, <1>4, PartStages DEF IsList
  <1> HIDE DEF AB, C, n, m
  <1>7. /\ IsList(S) /\ Len(S) = n + 1 + m
        /\ \A i \in 1 .. n + 1 : S[i] = AB[i]
        /\ \A i \in 1 .. m : S[n + 1 + i] = C[i]
    <2>1. /\ IsList(S) /\ Len(S) = Len(AB) + Len(C)
          /\ \A i \in 1 .. Len(AB) : S[i] = AB[i]
          /\ \A i \in 1 .. Len(C) : S[Len(AB) + i] = C[i]
      <3>1. Joins(S, AB, C)
        BY DEF Joins
      <3>2. IsList(AB) /\ IsList(C)
        BY <1>5, <1>6
      <3> HIDE DEF S
      <3> QED BY <3>1, <3>2, Concatenation
    <2>2. Len(AB) = n + 1 /\ Len(C) = m
      BY <1>5 DEF m
    <2> HIDE DEF S
    <2> QED BY <2>1, <2>2
  <1> HIDE DEF S
  <1>8. StageList(S)
    <2>1. \A i \in 1 .. n + 1 + m : S[i] # <<>>
      <3> TAKE i \in 1 .. n + 1 + m
      <3>1. CASE i <= n + 1
        BY <3>1, <1>2, <1>5, <1>7 DEF StageList
      <3>2. CASE i > n + 1
        <4>1. i - (n + 1) \in 1 .. m /\ n + 1 + (i - (n + 1)) = i
          BY <3>2, <1>2, <1>6
        <4> QED BY <4>1, <1>6, <1>7
      <3> QED BY <3>1, <3>2, <1>2
    <2> QED BY <2>1, <1>2, <1>6, <1>7 DEF StageList, IsList
  <1>9. RefreshStages(S, T)
    <2>1. \A i \in 1 .. n : PartsOf(S, i + 1) = {T[i]}
      <3> TAKE i \in 1 .. n
      <3>1. PartsOf(AB, i + 1) = {T[i]} /\ S[i + 1] = AB[i + 1]
        BY <1>2, <1>5, <1>7
      <3> QED BY <3>1 DEF PartsOf
    <2> QED BY <2>1, <1>2, <1>6, <1>7 DEF RefreshStages, n
  <1> QED BY <1>1, <1>8, <1>9 DEF T

\* The stages of the L2 and L3 routes: one for each network after the first.
LEMMA StagesOfRoutes ==
    ASSUME NEW r, ask[r].kind \in {"l2", "l3"}
    PROVE  StageList(Stages(r)) /\ Len(Stages(r)) = Len(NetworkIds(r)) + 1
  <1> DEFINE ids == NetworkIds(r)
             S == Stages(r)
  <1>1. IsList(ids)
    BY IdsAreList
  <1>2. CASE ask[r].kind = "l2"
    <2> DEFINE first == Asks("org", <<"devices", "availabilities", "uplinks">>)
               whats == <<"links", "stacks">>
    <2>1. first # <<>> /\ 1 \in DOMAIN whats
      BY DEF Asks
    <2>2. Joins(S, <<first>>, PerPart(ids, whats))
      BY <1>2 DEF Stages, Joins
    <2> HIDE DEF first, whats, ids, S
    <2>3. StageList(S) /\ Len(S) = Len(ids) + 1
      BY <1>1, <2>1, <2>2, FirstStages
    <2> QED BY <2>3 DEF ids, S
  <1>3. CASE ask[r].kind = "l3"
    <2> DEFINE first == Asks("org", <<"devices">>)
               whats == <<"vlans">>
    <2>1. first # <<>> /\ 1 \in DOMAIN whats
      BY DEF Asks
    <2>2. Joins(S, <<first>>, PerPart(ids, whats))
      BY <1>3 DEF Stages, Joins
    <2> HIDE DEF first, whats, ids, S
    <2>3. StageList(S) /\ Len(S) = Len(ids) + 1
      BY <1>1, <2>1, <2>2, FirstStages
    <2> QED BY <2>3 DEF ids, S
  <1> QED BY <1>2, <1>3

-----------------------------------------------------------------------------
\* What is fixed of a request: its stages S and, of a refresh, its networks T.
Fixed(r, S, T) ==
    /\ S = Stages(r) /\ StageList(S) /\ T = target_networks(r) /\ Len(T) \in Nat
    /\ ask[r].kind = "refresh" => RefreshStages(S, T)

Keeps(r, S, T) == RequestInv(r, S)' /\ (ask[r].kind = "refresh" => StreamInv(r, T)')

\* A stage that goes on, with its rest or to the next stage, keeps it.
LEMMA RemainingKeeps ==
    ASSUME TypeInv, NEW r \in Requests, NEW S, NEW T, Fixed(r, S, T), RequestInv(r, S),
           ask[r].kind = "refresh" => StreamInv(r, T),
           NEW c, NEW left, NEW answered, Hears(r, c, left, answered), Remaining(r, left, answered)
    PROVE  Keeps(r, S, T)
  <1>1. CASE left # {}
    BY <1>1, RestKeeps DEF Fixed, Keeps
  <1>2. CASE left = {}
    <2>1. Hears(r, c, {}, answered) /\ Remaining(r, {}, answered)
      BY <1>2
    <2>2. RequestInv(r, S)'
      BY <2>1, OnKeeps DEF Fixed
    <2>3. ASSUME ask[r].kind = "refresh" PROVE StreamInv(r, T)'
      <3>1. RefreshStages(S, T) /\ StreamInv(r, T)
        BY <2>3 DEF Fixed
      <3> QED BY <2>1, <2>3, <3>1, OnStreams DEF Fixed
    <2> QED BY <2>2, <2>3 DEF Keeps
  <1> QED BY <1>1, <1>2

\* An answer keeps what is known of a request, whichever request it is for.
LEMMA AnsweredKeeps ==
    ASSUME TypeInv, NEW r \in Requests, NEW S, NEW T, Fixed(r, S, T), RequestInv(r, S),
           ask[r].kind = "refresh" => StreamInv(r, T), NEW c, Answered(c)
    PROVE  Keeps(r, S, T)
  <1>1. CASE c.request = r /\ c \in group[r]
    <2> DEFINE answered == IF Part(c) = {c} THEN got[r] \cup {<<c.stage, c.part>>} ELSE got[r]
    <2>1. Remaining(r, group[r] \ {c}, answered) /\ failures' = failures
      BY <1>1 DEF Answered, Ignored
    <2>2. group[r] \ {c} = {} => Part(c) = {c}
      BY <1>1 DEF Part
    <2>3. Hears(r, c, group[r] \ {c}, answered)
      BY <1>1, <2>1, <2>2 DEF Hears
    <2> HIDE DEF answered
    <2> QED BY <2>1, <2>3, RemainingKeeps
  <1>2. CASE ~(c.request = r /\ c \in group[r])
    <2>1. Same(r)
      BY <1>2 DEF Answered, Ignored, Ignore, Remaining, Proceed, Go, Await, Finish, End, Same, TypeInv
    <2> QED BY <2>1, SameKeeps DEF Keeps
  <1> QED BY <1>1, <1>2

\* So does a failure, which is the only way to miss a part.
LEMMA FailedKeeps ==
    ASSUME TypeInv, NEW r \in Requests, NEW S, NEW T, Fixed(r, S, T), RequestInv(r, S),
           ask[r].kind = "refresh" => StreamInv(r, T), NEW c, NEW refused \in BOOLEAN, Failed(c, refused)
    PROVE  Keeps(r, S, T)
  <1>1. failures' # 0
    BY DEF Failed, TypeInv
  <1>2. CASE c.request = r /\ c \in group[r]
    <2>1. CASE Remaining(r, group[r] \ Part(c), got[r])
      <3>1. Hears(r, c, group[r] \ Part(c), got[r])
        BY <1>1, <1>2 DEF Hears
      <3> QED BY <2>1, <3>1, RemainingKeeps
    <2>2. CASE \E how \in {"error", "broken"} : End(r, how) /\ UNCHANGED <<stage, got, streamed>>
      <3>1. pc[r] = "busy"
        BY <1>2 DEF RequestInv
      <3>2. PICK how \in {"error", "broken"} : End(r, how) /\ UNCHANGED <<stage, got, streamed>>
        BY <2>2
      <3>3. how \notin {"new", "busy", "answered"}
        BY <3>2
      <3> QED BY <1>1, <3>1, <3>2, <3>3, EndKeeps DEF Keeps
    <2>3. \/ Remaining(r, group[r] \ Part(c), got[r])
          \/ \E how \in {"error", "broken"} : End(r, how) /\ UNCHANGED <<stage, got, streamed>>
      BY <1>2 DEF Failed, Ignored
    <2> QED BY <2>1, <2>2, <2>3
  <1>3. CASE ~(c.request = r /\ c \in group[r])
    <2>1. Same(r)
      BY <1>1, <1>3 DEF Failed, Ignored, Ignore, Remaining, Proceed, Go, Await, Finish, End, Same, TypeInv
    <2> QED BY <2>1, SameKeeps DEF Keeps
  <1> QED BY <1>2, <1>3

\* So do a request that starts and a page that leaves.
LEMMA RequestStepKeeps ==
    ASSUME TypeInv, NEW r \in Requests, NEW S, NEW T, Fixed(r, S, T), RequestInv(r, S),
           ask[r].kind = "refresh" => StreamInv(r, T), NEW q \in Requests, Start(q) \/ Leave(q)
    PROVE  Keeps(r, S, T)
  <1>1. CASE q # r
    <2>1. Same(r)
      BY <1>1 DEF Start, Leave, Await, End, Same, TypeInv
    <2> QED BY <2>1, SameKeeps DEF Keeps
  <1>2. CASE q = r /\ Start(r)
    BY <1>2, StartKeeps DEF Keeps, Fixed
  <1>3. CASE q = r /\ Leave(r)
    <2>1. /\ pc[r] = "busy" /\ End(r, "gone") /\ UNCHANGED <<stage, got, streamed>> /\ failures' = failures
      BY <1>3 DEF Leave
    <2>2. "gone" \notin {"new", "busy", "answered"}
      OBVIOUS
    <2> QED BY <2>1, <2>2, EndKeeps DEF Keeps
  <1> QED BY <1>1, <1>2, <1>3

\* A step changes no request's kind and network, and keeps the types.
LEMMA StepTypes ==
    ASSUME TypeInv, [Next]_vars
    PROVE  TypeInv' /\ ask' = ask
  <1>1. ASSUME NEW q \in Requests, Start(q) \/ Leave(q) PROVE TypeInv' /\ ask' = ask
    BY <1>1 DEF Start, Leave, Await, End, TypeInv
  <1>2. ASSUME NEW c, Send(c) PROVE TypeInv' /\ ask' = ask
    BY <1>2 DEF Send, TypeInv
  <1>3. ASSUME NEW c, Answered(c) PROVE TypeInv' /\ ask' = ask
    BY <1>3 DEF Answered, Ignore, Remaining, Proceed, Go, Await, Finish, End, TypeInv
  <1>4. ASSUME NEW c, NEW refused, Failed(c, refused) PROVE TypeInv' /\ ask' = ask
    BY <1>4 DEF Failed, Ignore, Remaining, Proceed, Go, Await, Finish, End, TypeInv
  <1>5. ASSUME UNCHANGED requestVars PROVE TypeInv' /\ ask' = ask
    BY <1>5 DEF requestVars, TypeInv
  <1> QED BY <1>1, <1>2, <1>3, <1>4, <1>5 DEF Next, vars

\* The stages and the networks of a request stay what they are.
LEMMA StagesStay ==
    ASSUME ask' = ask, NEW r
    PROVE  Stages(r)' = Stages(r) /\ target_networks(r)' = target_networks(r)
  <1>1. target_networks(r)' = target_networks(r)
    BY DEF target_networks
  <1>2. NetworkIds(r)' = NetworkIds(r) /\ FilteredDevices(r)' = FilteredDevices(r)
    BY DEF NetworkIds, FilteredDevices
  <1>3. final_devices(r)' = final_devices(r) /\ ap_serials(r)' = ap_serials(r)
    BY <1>1, <1>2 DEF final_devices, ap_serials
  <1>4. Stages(r)' = Stages(r)
    BY <1>1, <1>2, <1>3 DEF Stages
  <1> QED BY <1>1, <1>4

\* What is known of the requests is inductive.
LEMMA RequestsInvInductive ==
    /\ Init => RequestsInv
    /\ RequestsInv /\ [Next]_vars => RequestsInv'
  <1>1. ASSUME NEW r, ask[r].kind \in Watched
        PROVE  /\ StageList(Stages(r)) /\ Len(target_networks(r)) \in Nat
               /\ ask[r].kind = "refresh" => RefreshStages(Stages(r), target_networks(r))
    BY <1>1, StagesOfRefresh, StagesOfRoutes, TargetsAreNetworks DEF Watched, IsList
  <1>2. ASSUME Init PROVE RequestsInv
    <2>1. TypeInv
      BY <1>2 DEF Init, TypeInv
    <2>2. ASSUME NEW r \in Requests, ask[r].kind \in Watched
          PROVE  /\ RequestInv(r, Stages(r))
                 /\ ask[r].kind = "refresh" => StreamInv(r, target_networks(r))
      <3>1. Len(Stages(r)) \in Nat \ {0} /\ Len(target_networks(r)) \in Nat
        BY <2>2, <1>1 DEF StageList
      <3>2. pc[r] = "new" /\ stage[r] = 0 /\ group[r] = {} /\ got[r] = {} /\ streamed[r] = <<>>
        BY <1>2 DEF Init
      <3>3. RequestInv(r, Stages(r))
        BY <3>1, <3>2 DEF RequestInv, Over
      <3>4. StreamInv(r, target_networks(r))
        <4>1. Told(r, target_networks(r)) = 0
          BY <3>2 DEF Told
        <4> QED BY <3>2, <4>1 DEF StreamInv
      <3> QED BY <3>3, <3>4
    <2> QED BY <2>1, <2>2 DEF RequestsInv
  <1>3. ASSUME RequestsInv, [Next]_vars PROVE RequestsInv'
    <2>1. TypeInv /\ TypeInv' /\ ask' = ask
      BY <1>3, StepTypes DEF RequestsInv
    <2>2. ASSUME NEW r \in Requests, ask[r].kind \in Watched
          PROVE  (RequestInv(r, Stages(r)) /\ (ask[r].kind = "refresh" => StreamInv(r, target_networks(r))))'
      <3>1. PICK S, T : S = Stages(r) /\ T = target_networks(r)
        OBVIOUS
      <3>2. S = Stages(r)' /\ T = target_networks(r)'
        BY <2>1, <3>1, StagesStay
      <3>3. Fixed(r, S, T)
        BY <2>2, <3>1, <1>1 DEF Fixed
      <3>4. RequestInv(r, S) /\ (ask[r].kind = "refresh" => StreamInv(r, T))
        BY <1>3, <2>2, <3>1 DEF RequestsInv
      <3>5. Keeps(r, S, T)
        <4>1. ASSUME NEW q \in Requests, Start(q) \/ Leave(q) PROVE Keeps(r, S, T)
          BY <2>1, <3>3, <3>4, <4>1, RequestStepKeeps
        <4>2. ASSUME NEW c, Answered(c) PROVE Keeps(r, S, T)
          BY <2>1, <3>3, <3>4, <4>2, AnsweredKeeps
        <4>3. ASSUME NEW c, NEW refused \in BOOLEAN, Failed(c, refused) PROVE Keeps(r, S, T)
          BY <2>1, <3>3, <3>4, <4>3, FailedKeeps
        <4>4. CASE UNCHANGED <<pc, stage, group, got, streamed, failures>>
          <5>1. Same(r)
            BY <4>4 DEF Same
          <5> QED BY <3>4, <5>1, SameKeeps DEF Keeps
        <4>5. ASSUME NEW c, Send(c) PROVE Keeps(r, S, T)
          BY <4>4, <4>5 DEF Send
        <4>6. CASE UNCHANGED requestVars
          BY <4>4, <4>6 DEF requestVars
        <4> QED BY <1>3, <4>1, <4>2, <4>3, <4>5, <4>6 DEF Next, vars
      <3>6. RequestInv(r, S)' /\ (ask[r].kind = "refresh" => StreamInv(r, T)')
        BY <3>5 DEF Keeps
      <3> QED BY <2>1, <3>2, <3>6
    <2> QED BY <2>1, <2>2 DEF RequestsInv
  <1> QED BY <1>2, <1>3

\* A request that is answered has heard of every stage, when nothing was refused.
LEMMA WhatItHeard ==
    ASSUME RequestsInv, NEW r \in Requests, ask[r].kind \in Watched, pc[r] = "answered", failures = 0,
           NEW i \in 1 .. Len(Stages(r))
    PROVE  \E p \in got[r] : p[1] = i
  <1>1. RequestInv(r, Stages(r))
    BY DEF RequestsInv
  <1>2. Over(r, i)
    BY <1>1 DEF RequestInv, Over
  <1> QED BY <1>1, <1>2 DEF RequestInv

\* The stages that a request has heard something of.
Have(r) == [i \in DOMAIN Stages(r) |-> \E p \in got[r] : p[1] = i]

\* What each kind of request is answered with.
LEMMA Answers ==
    ASSUME NEW r
    PROVE  /\ ask[r].kind = "refresh" =>
                /\ answer(r).l2 = build_l2(final_devices(r), Availabilities, Parts(Have(r), target_networks(r), LinkLayer), <<>>, <<>>)
                /\ answer(r).l3 = build_l3(target_networks(r), Parts(Have(r), target_networks(r), Vlans), Listed[final_devices(r)])
           /\ ask[r].kind = "l2" =>
                answer(r).l2 = build_l2(FilteredDevices(r), Availabilities, Parts(Have(r), NetworkIds(r), LinkLayer), <<>>,
                                        FlattenSeq(Parts(Have(r), NetworkIds(r), Stacks)))
           /\ ask[r].kind = "l3" =>
                answer(r).l3 = build_l3(NetworkIds(r), Parts(Have(r), NetworkIds(r), Vlans), Listed[FilteredDevices(r)])
           /\ ask[r].kind = "sites" => answer(r).sites = build_sites(NetworkOrder, Devices, Availabilities)
  <1>1. CASE ask[r].kind = "refresh"
    BY <1>1 DEF answer, Final, Have
  <1>2. CASE ask[r].kind = "l2"
    BY <1>2 DEF answer, Have
  <1>3. CASE ask[r].kind = "l3"
    BY <1>3 DEF answer, Have
  <1>4. CASE ask[r].kind = "sites"
    BY <1>4 DEF answer
  <1> QED BY <1>1, <1>2, <1>3, <1>4

\* A node of layer 2 tells the network and the status of its device.
LEMMA NodesOfL2 ==
    ASSUME NEW devices, NEW availabilities, NEW layers, NEW clients, NEW stacks,
           NEW n \in build_l2(devices, availabilities, layers, clients, stacks).nodes
    PROVE  \E d \in devices : /\ n.network = d.network
                              /\ n.status = Get(STATUS_MAP, Get(availabilities, d.serial, "offline"), "down")
  <1> DEFINE Node(d) == [id |-> d.serial, network |-> d.network, type |-> DeviceTypeOf(d),
                         status |-> Get(STATUS_MAP, Get(availabilities, d.serial, "offline"), "down"),
                         role |-> RoleOf(stacks, d.serial)]
             known == {e \in devices : e.serial # NoSerial}
  <1>1. build_l2(devices, availabilities, layers, clients, stacks).nodes = {Node(d) : d \in known}
    BY DEF build_l2
  <1> HIDE DEF Node
  <1>2. PICK d \in devices : n = Node(d)
    BY <1>1
  <1>3. n.network = d.network /\ n.status = Get(STATUS_MAP, Get(availabilities, d.serial, "offline"), "down")
    BY <1>2 DEF Node
  <1> QED BY <1>3

\* When a refresh has answered, it has streamed of each network what was heard.
LEMMA StreamedParts ==
    ASSUME RequestsInv, NEW r \in Requests, ask[r].kind = "refresh", pc[r] = "answered"
    PROVE  streamed[r] = [i \in DOMAIN target_networks(r) |->
                             [network |-> target_networks(r)[i], heard |-> Have(r)[i + 1]]]
  <1> DEFINE T == target_networks(r)
             S == Stages(r)
             have == Have(r)
  <1>1. RequestInv(r, S) /\ StreamInv(r, T)
    BY DEF RequestsInv, Watched
  <1>2. NetworkList(T) /\ DOMAIN T = 1 .. Len(T) /\ Len(T) \in Nat
    BY TargetsAreNetworks DEF IsList
  <1>3. StageList(S) /\ RefreshStages(S, T)
    BY StagesOfRefresh
  <1>4. \A i \in 1 .. Len(T) : have[i + 1] = (<<i + 1, T[i]>> \in got[r])
    <2> TAKE i \in 1 .. Len(T)
    <2>1. i + 1 \in DOMAIN S /\ i + 1 \in Nat /\ i + 1 > 0
      BY <1>2, <1>3 DEF StageList, RefreshStages
    <2>2. have[i + 1] = \E p \in got[r] : p[1] = i + 1
      BY <2>1 DEF Have
    <2>3. (\E p \in got[r] : p[1] = i + 1) <=> <<i + 1, T[i]>> \in got[r]
      <3>1. ASSUME NEW p \in got[r], p[1] = i + 1 PROVE <<i + 1, T[i]>> \in got[r]
        <4>1. p = <<p[1], p[2]>> /\ p[2] \in PartsOf(S, i + 1)
          BY <1>1, <2>1, <3>1 DEF RequestInv
        <4>2. p[2] = T[i]
          BY <4>1, <1>3 DEF RefreshStages
        <4> QED BY <3>1, <4>1, <4>2
      <3>2. ASSUME <<i + 1, T[i]>> \in got[r] PROVE \E p \in got[r] : p[1] = i + 1
        <4>1. <<i + 1, T[i]>>[1] = i + 1
          OBVIOUS
        <4> QED BY <3>2, <4>1
      <3> QED BY <3>1, <3>2
    <2> HIDE DEF have, T
    <2>4. CASE <<i + 1, T[i]>> \in got[r]
      <3>1. (\E p \in got[r] : p[1] = i + 1) = TRUE /\ (<<i + 1, T[i]>> \in got[r]) = TRUE
        BY <2>3, <2>4
      <3> QED BY <3>1, <2>2
    <2>5. CASE <<i + 1, T[i]>> \notin got[r]
      <3>1. (\E p \in got[r] : p[1] = i + 1) = FALSE /\ (<<i + 1, T[i]>> \in got[r]) = FALSE
        BY <2>3, <2>5
      <3> QED BY <3>1, <2>2
    <2> QED BY <2>4, <2>5
  <1>5. Told(r, T) = Len(T)
    BY DEF Told
  <1>6. streamed[r] = [i \in 1 .. Len(T) |-> [network |-> T[i], heard |-> <<i + 1, T[i]>> \in got[r]]]
    BY <1>1, <1>5 DEF StreamInv
  <1> HIDE DEF T, have
  <1>7. streamed[r] = [i \in DOMAIN T |-> [network |-> T[i], heard |-> have[i + 1]]]
    BY <1>2, <1>4, <1>6
  <1> QED BY <1>7 DEF T, have

\* Whichever calls were refused, the final topology of the refresh is the sum
\* of what it streamed, for any number of networks and any links between their
\* devices.  Inductive is that a stage is heard when it is awaited and never
\* later: the events streamed and the answer read the same parts.
THEOREM AddUp == Spec => []PartialsAddUp
  <1>1. RequestsInv => PartialsAddUp
    <2> SUFFICES ASSUME RequestsInv, NEW r \in Requests, ask[r].kind = "refresh", pc[r] = "answered"
                 PROVE  LET parts == {partial_l2(e) : e \in Range(streamed[r])}
                            final == answer(r).l2
                        IN /\ Names(final) = UNION {Names(p) : p \in parts}
                           /\ Links(final) = UNION {Links(p) : p \in parts}
                           /\ Cardinality(final.edges) = Cardinality(Links(final))
      BY DEF PartialsAddUp
    <2> DEFINE T == target_networks(r)
               have == Have(r)
               Event(i) == [network |-> T[i], heard |-> have[i + 1]]
    <2>1. NetworkList(T)
      BY TargetsAreNetworks
    <2>2. answer(r).l2 = build_l2(In(Range(T)), Availabilities, Parts(have, T, LinkLayer), <<>>, <<>>)
      BY Answers DEF final_devices
    <2>3. streamed[r] = [i \in DOMAIN T |-> Event(i)]
      BY StreamedParts
    <2>4. {partial_l2(e) : e \in Range(streamed[r])} = {partial_l2(Event(i)) : i \in DOMAIN T}
      <3>1. Range(streamed[r]) = {Event(i) : i \in DOMAIN T}
        <4> HIDE DEF Event, T
        <4> QED BY <2>3 DEF Range
      <3> HIDE DEF Event, T
      <3> QED BY <3>1
    <2> HIDE DEF T, have
    <2> QED BY <2>1, <2>2, <2>4, TopologiesAddUp
  <1> QED BY <1>1, RequestsInvInductive, PTL DEF Spec

\* A route that is about the networks of a refresh, or about those of them that
\* have devices, asks these, and has the devices of the refresh.
LEMMA SameAsked ==
    ASSUME NEW r, NEW s, ask[r].network = ask[s].network, ask[r].network \in {All} \cup Range(NetworkOrder)
    PROVE  /\ Covers(target_networks(r), NetworkIds(s)) /\ Range(NetworkIds(s)) = About(s)
           /\ final_devices(r) = FilteredDevices(s)
  <1>1. NetworkList(target_networks(r))
    BY TargetsAreNetworks
  <1>2. CASE ask[r].network = All
    <2>1. target_networks(r) = NetworkOrder /\ NetworkIds(s) = HashOrder
      BY <1>2, DashboardAssumption DEF target_networks, NetworkIds
    <2>2. NetworkList(HashOrder)
      BY DashboardAssumption DEF NetworkList
    <2>3. Covers(target_networks(r), NetworkIds(s))
      BY <1>1, <2>1, <2>2, DashboardAssumption DEF Covers
    <2>4. Range(NetworkIds(s)) = About(s)
      BY <1>2, <2>1, DashboardAssumption DEF About
    <2>5. \A d \in Range(Devices) : d.network \in Range(NetworkOrder)
      BY DashboardAssumption
    <2>6. final_devices(r) = Range(Devices) /\ FilteredDevices(s) = Range(Devices)
      BY <1>2, <2>1, <2>5 DEF final_devices, FilteredDevices, In
    <2> QED BY <2>3, <2>4, <2>6
  <1>3. CASE ask[r].network # All
    <2>1. target_networks(r) = <<ask[r].network>> /\ NetworkIds(s) = <<ask[r].network>>
      BY <1>3 DEF target_networks, NetworkIds
    <2>2. Covers(target_networks(r), NetworkIds(s))
      BY <1>1, <2>1 DEF Covers
    <2>3. Range(target_networks(r)) = {ask[r].network} /\ Range(NetworkIds(s)) = {ask[r].network}
      BY <2>1 DEF Range
    <2>4. final_devices(r) = FilteredDevices(s)
      BY <1>3, <2>3 DEF final_devices, FilteredDevices
    <2>5. Range(NetworkIds(s)) = About(s)
      BY <1>3, <2>3 DEF About
    <2> QED BY <2>2, <2>4, <2>5
  <1> QED BY <1>2, <1>3

\* When nothing was refused, all networks that a request asks are heard.
LEMMA AllHeard ==
    ASSUME RequestsInv, failures = 0, NEW r \in Requests, pc[r] = "answered"
    PROVE  /\ ask[r].kind = "refresh" => \A i \in DOMAIN target_networks(r) : Have(r)[i + 1]
           /\ ask[r].kind \in {"l2", "l3"} => \A i \in DOMAIN NetworkIds(r) : Have(r)[i + 1]
  <1>1. ASSUME ask[r].kind \in Watched, NEW i \in 1 .. Len(Stages(r)), DOMAIN Stages(r) = 1 .. Len(Stages(r))
        PROVE  Have(r)[i]
    BY <1>1, WhatItHeard DEF Have
  <1>2. CASE ask[r].kind = "refresh"
    <2>1. /\ IsList(target_networks(r)) /\ Len(target_networks(r)) + 1 <= Len(Stages(r))
          /\ Len(Stages(r)) \in Nat /\ DOMAIN Stages(r) = 1 .. Len(Stages(r))
      BY <1>2, TargetsAreNetworks, StagesOfRefresh DEF StageList, RefreshStages
    <2>2. \A i \in DOMAIN target_networks(r) : i + 1 \in 1 .. Len(Stages(r))
      BY <2>1 DEF IsList
    <2> QED BY <1>1, <1>2, <2>1, <2>2 DEF Watched
  <1>3. CASE ask[r].kind \in {"l2", "l3"}
    <2>1. /\ IsList(NetworkIds(r)) /\ Len(NetworkIds(r)) + 1 = Len(Stages(r))
          /\ Len(Stages(r)) \in Nat /\ DOMAIN Stages(r) = 1 .. Len(Stages(r))
      BY <1>3, IdsAreList, StagesOfRoutes DEF StageList
    <2>2. \A i \in DOMAIN NetworkIds(r) : i + 1 \in 1 .. Len(Stages(r))
      BY <2>1 DEF IsList
    <2> QED BY <1>1, <1>3, <2>1, <2>2 DEF Watched
  <1> QED BY <1>2, <1>3

\* With nothing refused, the refresh, the L2, L3 and sites routes tell the same
\* of the networks that they are about, in whatever order Python lists a set of
\* networks, and whatever networks have no devices.
THEOREM Agreement == Spec => []RoutesAgree
  <1>1. RequestsInv => RoutesAgree
    <2> SUFFICES ASSUME RequestsInv, NEW r \in Requests, NEW s \in Requests, failures = 0, Comparable(r, s)
                 PROVE  LET a == answer(r)
                            b == answer(s)
                        IN /\ ask[r].kind = "refresh" /\ ask[s].kind = "l2" =>
                                 Names(a.l2) = Names(b.l2) /\ StreamedLinks(r, About(s)) = Links(b.l2)
                           /\ ask[r].kind = "refresh" /\ ask[s].kind = "l3" =>
                                 LET part == Within(a.l3, About(s))
                                 IN /\ part.subnets = Range(b.l3.subnets) /\ Vias(part) = Vias(b.l3)
                                    /\ Cardinality(part.routes) = Cardinality(b.l3.routes)
                           /\ ask[r].kind = "l2" /\ ask[s].kind = "sites" =>
                                 \A site \in Range(b.sites) : \A n \in a.l2.nodes :
                                     n.network = site.network /\ n.status = "alerting" =>
                                         site.bucket \notin {"green", "unknown"}
      BY DEF RoutesAgree
    <2>1. /\ Covers(target_networks(r), NetworkIds(s)) /\ Range(NetworkIds(s)) = About(s)
          /\ final_devices(r) = FilteredDevices(s)
      BY SameAsked DEF Comparable
    <2>2. /\ ask[r].kind = "refresh" => \A i \in DOMAIN target_networks(r) : Have(r)[i + 1]
          /\ ask[s].kind \in {"l2", "l3"} => \A i \in DOMAIN NetworkIds(s) : Have(s)[i + 1]
      BY AllHeard DEF Comparable
    <2>3. ASSUME ask[r].kind = "refresh", ask[s].kind = "l2"
          PROVE  Names(answer(r).l2) = Names(answer(s).l2) /\ StreamedLinks(r, About(s)) = Links(answer(s).l2)
      <3> DEFINE stacks == FlattenSeq(Parts(Have(s), NetworkIds(s), Stacks))
      <3>1. /\ answer(r).l2 = build_l2(final_devices(r), Availabilities, Parts(Have(r), target_networks(r), LinkLayer), <<>>, <<>>)
            /\ answer(s).l2 = build_l2(FilteredDevices(s), Availabilities, Parts(Have(s), NetworkIds(s), LinkLayer), <<>>, stacks)
        BY <2>3, Answers
      <3> HIDE DEF stacks
      <3>2. Names(answer(r).l2) = Names(answer(s).l2)
        <4> DEFINE L == Parts(Have(r), target_networks(r), LinkLayer)
                   M == Parts(Have(s), NetworkIds(s), LinkLayer)
        <4> HIDE DEF L, M
        <4>1. \A D, layers, st : Names(build_l2(D, Availabilities, layers, <<>>, st)) = {d.serial : d \in {e \in D : e.serial # NoSerial}}
          BY NamesOfL2
        <4>2. Names(build_l2(final_devices(r), Availabilities, L, <<>>, <<>>))
                = Names(build_l2(FilteredDevices(s), Availabilities, M, <<>>, stacks))
          BY <4>1, <2>1
        <4> QED BY <3>1, <4>2 DEF L, M
      <3>3. Links(answer(s).l2) = UNION {Joined(LinkLayer[n]) : n \in Range(NetworkIds(s))}
        BY <3>1, <2>1, <2>2, <2>3, LinksAsked DEF Covers
      <3>4. streamed[r] = [i \in DOMAIN target_networks(r) |-> [network |-> target_networks(r)[i], heard |-> TRUE]]
        <4> DEFINE T == target_networks(r)
                   have == Have(r)
        <4>1. streamed[r] = [i \in DOMAIN T |-> [network |-> T[i], heard |-> have[i + 1]]]
          BY <2>3, StreamedParts DEF Comparable
        <4>2. ASSUME NEW i \in DOMAIN T PROVE have[i + 1] = TRUE
          <5>1. IsList(T) /\ Len(T) + 1 <= Len(Stages(r)) /\ Len(Stages(r)) \in Nat /\ DOMAIN Stages(r) = 1 .. Len(Stages(r))
            BY <2>3, TargetsAreNetworks, StagesOfRefresh DEF StageList, RefreshStages
          <5>2. i + 1 \in 1 .. Len(Stages(r))
            BY <5>1 DEF IsList
          <5>3. \E p \in got[r] : p[1] = i + 1
            BY <5>2, <2>3, WhatItHeard DEF Watched, Comparable
          <5>4. have[i + 1] = \E p \in got[r] : p[1] = i + 1
            BY <5>1, <5>2 DEF Have
          <5>5. (\E p \in got[r] : p[1] = i + 1) = TRUE
            BY <5>3
          <5> HIDE DEF have
          <5> QED BY <5>4, <5>5
        <4> HIDE DEF T, have
        <4>3. streamed[r] = [i \in DOMAIN T |-> [network |-> T[i], heard |-> TRUE]]
          BY <4>1, <4>2
        <4> QED BY <4>3 DEF T
      <3>5. StreamedLinks(r, About(s)) = UNION {Joined(LinkLayer[n]) : n \in About(s)}
        BY <3>4, <2>1, LinksStreamed DEF Covers
      <3> QED BY <3>2, <3>3, <3>5, <2>1
    <2>4. ASSUME ask[r].kind = "refresh", ask[s].kind = "l3"
          PROVE  LET part == Within(answer(r).l3, About(s))
                 IN /\ part.subnets = Range(answer(s).l3.subnets) /\ Vias(part) = Vias(answer(s).l3)
                    /\ Cardinality(part.routes) = Cardinality(answer(s).l3.routes)
      <3> DEFINE devices == Listed[FilteredDevices(s)]
      <3>1. /\ answer(r).l3 = build_l3(target_networks(r), Parts(Have(r), target_networks(r), Vlans), devices)
            /\ answer(s).l3 = build_l3(NetworkIds(s), Parts(Have(s), NetworkIds(s), Vlans), devices)
        BY <2>1, <2>4, Answers
      <3> HIDE DEF devices
      <3>2. (\A i \in DOMAIN target_networks(r) : Have(r)[i + 1]) /\ \A i \in DOMAIN NetworkIds(s) : Have(s)[i + 1]
        BY <2>2, <2>4
      <3> QED BY <3>1, <3>2, <2>1, SameL3
    <2>5. ASSUME ask[r].kind = "l2", ask[s].kind = "sites", NEW site \in Range(answer(s).sites), NEW n \in answer(r).l2.nodes,
                 n.network = site.network, n.status = "alerting"
          PROVE  site.bucket \notin {"green", "unknown"}
      <3> DEFINE sites == build_sites(NetworkOrder, Devices, Availabilities)
      <3>1. answer(s).sites = sites
        BY <2>5, Answers
      <3>2. PICK i \in DOMAIN NetworkOrder : site = sites[i]
        BY <3>1, <2>5 DEF Range, build_sites
      <3>3. sites[i].network = NetworkOrder[i]
        BY DEF build_sites
      <3>4. PICK d \in FilteredDevices(r) :
               /\ n.network = d.network
               /\ n.status = Get(STATUS_MAP, Get(Availabilities, d.serial, "offline"), "down")
        <4> DEFINE layers == Parts(Have(r), NetworkIds(r), LinkLayer)
                   stacks == FlattenSeq(Parts(Have(r), NetworkIds(r), Stacks))
        <4>1. answer(r).l2 = build_l2(FilteredDevices(r), Availabilities, layers, <<>>, stacks)
          BY <2>5, Answers
        <4> HIDE DEF layers, stacks
        <4> QED BY <2>5, <4>1, NodesOfL2
      <3>5. d.serial \in DOMAIN Availabilities /\ Availabilities[d.serial] = "alerting"
        BY <3>4, <2>5 DEF Get, STATUS_MAP
      <3>6. PICK k \in DOMAIN Devices : Devices[k] = d
        BY DEF FilteredDevices, In, Range
      <3>7. IsFiniteSet(DOMAIN Devices)
        <4>1. Devices \in Seq(Range(Devices))
          BY DashboardAssumption
        <4>2. Len(Devices) \in Nat /\ DOMAIN Devices = 1 .. Len(Devices)
          BY <4>1
        <4>3. IsFiniteSet(1 .. Len(Devices))
          BY <4>2, FS_Interval
        <4> QED BY <4>2, <4>3
      <3>8. Devices[k].network = NetworkOrder[i] /\ Devices[k].serial \in DOMAIN Availabilities
               /\ Availabilities[Devices[k].serial] = "alerting"
        BY <2>5, <3>2, <3>3, <3>4, <3>5, <3>6
      <3>9. sites[i].bucket \notin {"green", "unknown"}
        BY <3>7, <3>8, AlertingShows
      <3> QED BY <3>2, <3>9
    <2> QED BY <2>3, <2>4, <2>5
  <1> QED BY <1>1, RequestsInvInductive, PTL DEF Spec
=============================================================================
