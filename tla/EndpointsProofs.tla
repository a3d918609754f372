--------------------------- MODULE EndpointsProofs ---------------------------
(***************************************************************************)
(* Theorems about three kinds of endpoints for every value of the          *)
(* constants.                                                              *)
(*                                                                         *)
(* processing::acceptor: the inductive invariant says that each connection *)
(* has a number, and a muxer, of its own, and that what its peer was sent, *)
(* what the muxer holds in memory and what it holds on disk make up the    *)
(* events of the peer, in order.                                           *)
(*                                                                         *)
(* lua::stream: the inductive invariant follows every event from the muxer *)
(* through the two queues to the script, and every acknowledgement back    *)
(* through the counters of the two threads.                                *)
(*                                                                         *)
(* rrd::output, with the rebuilder of the storage output: see the section. *)
(***************************************************************************)
EXTENDS Acceptor, LuaStream, RrdGraphs, QueueLemmas, FiniteSetTheorems

(* Where a peer is. *)
Stages == {"away", "backlog", "available", "opening", "open", "lost"}

(* Peers that were not given a feeder yet. *)
Fresh == {c \in Clients : client[c] \in {"away", "backlog", "available", "opening"}}

(* The numbers from s to n - 1. *)
Interval(s, n) == [i \in 1 .. n - s |-> s + i - 1]

(* Sequences put together, under names of their own so that the lemmas     *)
(* about them can be cited.                                                *)
PutLast(s, e) == Append(s, e)
Joined(g, m, d) == g \o (m \o d)
Joined2(l, x) == l \o x

(* What a peer was sent, then what its muxer holds in memory and on disk,  *)
(* is what was left in its file, then the events s .. n - 1.               *)
Content(g, m, d, l, s, n) == Joined(g, m, d) = Joined2(l, Interval(s, n))

(* Types, for any number of events. *)
AccShape ==
    /\ client \in [Clients -> Stages]
    /\ apc \in {"stopped", "accept", "handshake", "create", "reap", "sleep", "finished"}
    /\ fpc \in [Feeders -> {"none", "start", "run", "left", "clean", "done"}]
    /\ file \in [Feeders -> {"null", "linked", "unlinked"}]
    /\ mem \in [Feeders -> Seq(Nat)] /\ disk \in [Feeders -> Seq(Nat)]
    /\ hidden \in [Feeders -> Seq(Nat)] /\ hold \in [Feeders -> Seq(Nat)]
    /\ got \in [Feeders -> Seq(Nat)] /\ leftover \in [Feeders -> Seq(Nat)]
    /\ since \in [Feeders -> Nat] /\ next \in Nat \ {0} /\ starts \in Nat \ {0}
    /\ connections \in Nat /\ feeders \subseteq Subscribed

(* Every connection has used a peer of its own. *)
Numbers ==
    /\ connections + Cardinality(Fresh) <= Cardinality(Clients)
    /\ \A n \in Feeders : n > connections => fpc[n] = "none"
    /\ apc = "handshake" => current \in Clients
    /\ apc = "create" => connections \in Feeders /\ fpc[connections] # "none"

(* A feeder and its muxer: the file is used once the memory is full, the   *)
(* event the feeder holds is the oldest one, and none is missing.          *)
Fed(n) ==
    /\ file[n] \in {"null", "linked"} /\ (file[n] = "null" => disk[n] = <<>>)
    /\ Len(mem[n]) < Limit => disk[n] = <<>>
    /\ hold[n] # <<>> => mem[n] # <<>> /\ hold[n] = <<Head(mem[n])>>
    /\ since[n] <= next
    /\ Content(got[n], mem[n], disk[n], leftover[n], since[n], next)

(* In the first run no file is left by an earlier one. *)
NewInOneLife ==
    starts = 1 => \A n \in Feeders : /\ leftover[n] = <<>>
                                     /\ n > connections => disk[n] = <<>>

(* The inductive invariant of the acceptor. *)
AccInd ==
    /\ AccShape /\ Numbers
    /\ \A n \in Feeders : /\ Len(mem[n]) <= Limit /\ Len(hold[n]) <= 1
                          /\ fpc[n] \in {"start", "run"} => Fed(n)
                          /\ fpc[n] = "none" => hold[n] = <<>>
    /\ NewInOneLife

(* An event appended to the events in memory, none being on disk, comes    *)
(* last.                                                                   *)
LEMMA JoinMiddle ==
    ASSUME NEW S, NEW g \in Seq(S), NEW m \in Seq(S), NEW e \in S
    PROVE  Joined(g, PutLast(m, e), <<>>) = PutLast(Joined(g, m, <<>>), e)
  BY DEF Joined, PutLast

(* An event appended to the queue file comes last. *)
LEMMA JoinLast ==
    ASSUME NEW S, NEW g \in Seq(S), NEW m \in Seq(S), NEW d \in Seq(S), NEW e \in S
    PROVE  Joined(g, m, PutLast(d, e)) = PutLast(Joined(g, m, d), e)
  BY DEF Joined, PutLast

(* An event appended to the second of two joined sequences comes last. *)
LEMMA Joined2Last ==
    ASSUME NEW S, NEW l \in Seq(S), NEW x \in Seq(S), NEW e \in S
    PROVE  Joined2(l, PutLast(x, e)) = PutLast(Joined2(l, x), e)
  BY DEF Joined2, PutLast

(* Acknowledging the oldest event of the memory moves it, and changes no   *)
(* order.                                                                  *)
LEMMA JoinHead ==
    ASSUME NEW S, NEW g \in Seq(S), NEW m \in Seq(S), NEW d \in Seq(S), m # <<>>
    PROVE  Joined(Append(g, Head(m)), Tail(m), d) = Joined(g, m, d)
  BY DEF Joined

(* Taking the oldest event of the file into memory changes no order. *)
LEMMA RefillHead ==
    ASSUME NEW S, NEW m \in Seq(S), NEW d \in Seq(S), d # <<>>
    PROVE  Append(m, Head(d)) \o Tail(d) = m \o d
  OBVIOUS

(* Taking the oldest event of the file into memory changes no order, with  *)
(* what was acknowledged before it.                                        *)
LEMMA JoinRefill ==
    ASSUME NEW S, NEW g \in Seq(S), NEW m \in Seq(S), NEW d \in Seq(S), d # <<>>,
           NEW z, z = Append(m, Head(d))
    PROVE  Joined(g, z, Tail(d)) = Joined(g, m, d)
  <1>1. Append(m, Head(d)) \o Tail(d) = m \o d
    BY RefillHead
  <1> QED
    BY <1>1, Zenon DEF Joined

(* Sequences with the same elements are the same. *)
LEMMA SameSeq ==
    ASSUME NEW S, NEW d \in Seq(S), NEW f \in Seq(S), Len(f) = Len(d),
           \A i \in 1 .. Len(d) : f[i] = d[i]
    PROVE  f = d
  OBVIOUS

(* A sequence cut in two is the sequence. *)
LEMMA JoinCut ==
    ASSUME NEW S, NEW d \in Seq(S), NEW k \in 0 .. Len(d)
    PROVE  /\ SubSeq(d, 1, k) \in Seq(S) /\ SubSeq(d, k + 1, Len(d)) \in Seq(S)
           /\ Len(SubSeq(d, 1, k)) = k /\ Len(SubSeq(d, k + 1, Len(d))) = Len(d) - k
           /\ Joined(<<>>, SubSeq(d, 1, k), SubSeq(d, k + 1, Len(d))) = d
  <1> DEFINE a == SubSeq(d, 1, k)
             b == SubSeq(d, k + 1, Len(d))
             f == <<>> \o (a \o b)
  <1>0. Len(d) \in Nat /\ k \in Nat /\ k <= Len(d)
    OBVIOUS
  <1>1. a \in Seq(S) /\ Len(a) = k /\ \A i \in 1 .. k : a[i] = d[i]
    OBVIOUS
  <1>2. b \in Seq(S) /\ Len(b) = Len(d) - k /\ \A i \in 1 .. Len(d) - k : b[i] = d[k + i]
    OBVIOUS
  <1> HIDE DEF a, b
  <1>3. f \in Seq(S) /\ Len(f) = Len(d)
    BY <1>0, <1>1, <1>2
  <1>4. \A i \in 1 .. Len(d) : i <= k => f[i] = d[i]
    BY <1>0, <1>1, <1>2
  <1>5. \A i \in 1 .. Len(d) : i > k => f[i] = b[i - k] /\ i - k \in 1 .. Len(d) - k
    BY <1>0, <1>1, <1>2
  <1>6. \A i \in 1 .. Len(d) : i > k => f[i] = d[i]
    <2> SUFFICES ASSUME NEW i \in 1 .. Len(d), i > k PROVE f[i] = d[i]
      OBVIOUS
    <2>1. f[i] = b[i - k] /\ i - k \in 1 .. Len(d) - k
      BY <1>5
    <2>2. k + (i - k) = i
      BY <1>0
    <2> HIDE DEF f
    <2> QED
      BY <2>1, <2>2, <1>2
  <1> HIDE DEF f
  <1>7. \A i \in 1 .. Len(d) : f[i] = d[i]
    BY <1>0, <1>4, <1>6
  <1>8. f = d
    BY <1>3, <1>7, SameSeq
  <1> QED
    BY <1>1, <1>2, <1>8 DEF a, b, f, Joined

(* A new event, put after all the others in memory or in the file, keeps   *)
(* what a feeder holds equal to what was left to it and what was           *)
(* published since.                                                        *)
LEMMA Grows ==
    ASSUME NEW g \in Seq(Nat), NEW m \in Seq(Nat), NEW d \in Seq(Nat), NEW l \in Seq(Nat),
           NEW s \in Nat, NEW n \in Nat, NEW z, s <= n, Content(g, m, d, l, s, n)
    PROVE  /\ d = <<>> /\ z = Append(m, n) => Content(g, z, d, l, s, n + 1)
           /\ z = Append(d, n) => Content(g, m, z, l, s, n + 1)
  <1>1. Interval(s, n) \in Seq(Nat) /\ Interval(s, n + 1) = PutLast(Interval(s, n), n)
    BY DEF Interval, PutLast
  <1>2. Joined2(l, Interval(s, n + 1)) = PutLast(Joined2(l, Interval(s, n)), n)
    BY <1>1, Joined2Last
  <1>3. Joined(g, m, PutLast(d, n)) = PutLast(Joined(g, m, d), n)
    BY JoinLast
  <1>4. Joined(g, PutLast(m, n), <<>>) = PutLast(Joined(g, m, <<>>), n)
    BY JoinMiddle
  <1>5. Append(m, n) = PutLast(m, n) /\ Append(d, n) = PutLast(d, n)
    BY DEF PutLast
  <1> QED
    BY <1>2, <1>3, <1>4, <1>5 DEF Content

(* The initial state of the acceptor. *)
LEMMA AccInitInd == AccInit => AccInd
  <1> SUFFICES ASSUME AccInit PROVE AccInd
    OBVIOUS
  <1>1. AccShape
    BY DEF AccInit, AccShape, Stages, Subscribed, Feeders
  <1>2. Fresh = Clients
    BY DEF AccInit, Fresh
  <1>3. Cardinality(Clients) \in Nat
    BY AcceptorAssumption, FS_CardinalityType
  <1>4. Numbers
    BY <1>2, <1>3 DEF AccInit, Numbers
  <1>5. NewInOneLife
    BY DEF AccInit, NewInOneLife
  <1>6. \A n \in Feeders : Len(mem[n]) <= Limit /\ Len(hold[n]) <= 1 /\ fpc[n] = "none" /\ hold[n] = <<>>
    BY AcceptorAssumption DEF AccInit
  <1> QED
    BY <1>1, <1>4, <1>5, <1>6 DEF AccInd

(* Peers that are not fresh any more do not become fresh again. *)
LEMMA FreshShrinks ==
    ASSUME Fresh' \subseteq Fresh, connections' = connections, Numbers, connections \in Nat
    PROVE  connections' + Cardinality(Fresh') <= Cardinality(Clients)
  <1>1. IsFiniteSet(Fresh) /\ IsFiniteSet(Fresh')
    BY AcceptorAssumption, FS_Subset DEF Fresh
  <1>2. Cardinality(Fresh') <= Cardinality(Fresh)
    BY <1>1, FS_Subset
  <1>3. Cardinality(Fresh) \in Nat /\ Cardinality(Fresh') \in Nat /\ Cardinality(Clients) \in Nat
    BY <1>1, AcceptorAssumption, FS_CardinalityType
  <1> QED
    BY <1>2, <1>3 DEF Numbers

(* Steps that touch no feeder and no muxer keep the invariant. *)
LEMMA QuietInd ==
    ASSUME AccInd, UNCHANGED <<muxers, next, since, leftover, got, starts, connections, fpc>>,
           client' \in [Clients -> Stages], Fresh' \subseteq Fresh,
           apc' \in {"stopped", "accept", "handshake", "create", "reap", "sleep", "finished"},
           feeders' \subseteq Subscribed,
           apc' = "handshake" => current' \in Clients, apc' = "create" => apc = "create"
    PROVE  AccInd'
  <1>1. Subscribed' = Subscribed
    BY DEF Subscribed
  <1>2. AccShape'
    BY <1>1 DEF AccInd, AccShape, muxers
  <1>3. Numbers'
    BY FreshShrinks DEF AccInd, AccShape, Numbers
  <1>4. NewInOneLife'
    BY DEF AccInd, NewInOneLife, muxers
  <1> QED
    BY <1>2, <1>3, <1>4 DEF AccInd, Fed, muxers

(* What the peers do: connecting, hanging up, and being taken out of the   *)
(* backlog.                                                                *)
LEMMA PeersInd ==
    ASSUME AccInd, NEW c \in Clients, Connect(c) \/ Disconnect(c) \/ HandleAccept(c)
    PROVE  AccInd'
  <1>1. PICK s \in {"backlog", "available", "lost"} :
             /\ client' = [client EXCEPT ![c] = s]
             /\ s # "lost" => c \in Fresh
    <2>1. CASE Connect(c)
      BY <2>1 DEF Connect, Fresh
    <2>2. CASE Disconnect(c)
      BY <2>2 DEF Disconnect
    <2>3. CASE HandleAccept(c)
      BY <2>3 DEF HandleAccept, Fresh
    <2> QED
      BY <2>1, <2>2, <2>3
  <1>2. client' \in [Clients -> Stages] /\ Fresh' \subseteq Fresh
    <2>1. client \in [Clients -> Stages] /\ s \in Stages
      BY DEF AccInd, AccShape, Stages
    <2>2. client' \in [Clients -> Stages]
      BY <2>1, <1>1
    <2>3. ASSUME NEW k \in Fresh' PROVE k \in Fresh
      BY <2>1, <2>3, <1>1 DEF Fresh
    <2> QED
      BY <2>2, <2>3
  <1>3. /\ UNCHANGED <<muxers, next, since, leftover, got, starts, connections, fpc, feeders,
                       apc, current>>
    BY DEF Connect, Disconnect, HandleAccept
  <1>4. /\ feeders' \subseteq Subscribed
        /\ apc' \in {"stopped", "accept", "handshake", "create", "reap", "sleep", "finished"}
        /\ apc' = "handshake" => current' \in Clients
    BY <1>3 DEF AccInd, AccShape, Numbers
  <1> QED
    BY <1>2, <1>3, <1>4, QuietInd

(* The steps of the acceptor thread that create and destroy no feeder. *)
LEMMA AcceptorQuietInd ==
    ASSUME AccInd,
           HandleAcceptError \/ Start \/ Open \/ HandshakeFails \/ FeederCreated \/ Sleep
             \/ Finished \/ Exit
    PROVE  AccInd'
  <1> DEFINE apcs == {"stopped", "accept", "handshake", "create", "reap", "sleep", "finished"}
  <1>1. UNCHANGED <<muxers, next, since, leftover, got, starts, connections, fpc>>
    BY DEF HandleAcceptError, Start, Open, HandshakeFails, FeederCreated, Sleep, Finished, Exit
  <1>2. client' \in [Clients -> Stages] /\ Fresh' \subseteq Fresh
    <2>1. CASE UNCHANGED client
      BY <2>1 DEF AccInd, AccShape, Fresh
    <2>2. CASE Open
      BY <2>2 DEF AccInd, AccShape, Fresh, Open, Stages
    <2> QED
      BY <2>1, <2>2
      DEF HandleAcceptError, Start, HandshakeFails, FeederCreated, Sleep, Finished, Exit, tcp
  <1>3. apc' \in apcs /\ (apc' = "create" => apc = "create")
    BY DEF HandleAcceptError, Start, Open, HandshakeFails, FeederCreated, Sleep, Finished, Exit,
           AccInd, AccShape
  <1>4. apc' = "handshake" => current' \in Clients
    BY DEF HandleAcceptError, Start, Open, HandshakeFails, FeederCreated, Sleep, Finished, Exit,
           AccInd, Numbers
  <1>5. feeders' \subseteq Subscribed
    <2>1. CASE UNCHANGED feeders
      BY <2>1 DEF AccInd, AccShape
    <2>2. CASE FeederCreated
      BY <2>2 DEF FeederCreated, AccInd, AccShape, Numbers, Subscribed
    <2> QED
      BY <2>1, <2>2
      DEF HandleAcceptError, Start, Open, HandshakeFails, Sleep, Finished, Exit
  <1> QED
    BY <1>1, <1>2, <1>3, <1>4, <1>5, QuietInd

(* A feeder thread begins its loop, leaves it, and ends. *)
LEMMA TurnInd ==
    ASSUME AccInd, NEW n \in Feeders, FeederRuns(n) \/ LeaveLoop(n) \/ Finish(n)
    PROVE  AccInd'
  <1>1. PICK p \in {"run", "left", "clean"} : /\ fpc' = [fpc EXCEPT ![n] = p]
                                              /\ p = "run" => fpc[n] = "start"
                                              /\ fpc[n] # "none"
    BY DEF FeederRuns, LeaveLoop, Finish
  <1>2. UNCHANGED <<muxers, next, since, leftover, got, starts, connections, client, feeders,
                    apc, current>>
    BY DEF FeederRuns, LeaveLoop, Finish, tcp
  <1>3. \A k \in Feeders : /\ fpc'[k] \in {"none", "start", "run", "left", "clean", "done"}
                           /\ fpc'[k] = "none" <=> fpc[k] = "none"
                           /\ fpc'[k] \in {"start", "run"} => fpc[k] \in {"start", "run"}
    BY <1>1 DEF AccInd, AccShape
  <1>4. Subscribed' = Subscribed
    BY <1>3 DEF Subscribed
  <1>5. AccShape'
    BY <1>1, <1>2, <1>4 DEF AccInd, AccShape, muxers
  <1>6. Fresh' = Fresh
    BY <1>2 DEF Fresh
  <1>7. Numbers'
    BY <1>2, <1>3, <1>6 DEF AccInd, Numbers
  <1>8. NewInOneLife'
    BY <1>2 DEF AccInd, NewInOneLife, muxers
  <1>9. ASSUME NEW k \in Feeders
        PROVE  /\ Len(mem[k])' <= Limit /\ Len(hold[k])' <= 1
               /\ fpc'[k] \in {"start", "run"} => Fed(k)'
               /\ fpc'[k] = "none" => hold'[k] = <<>>
    BY <1>2, <1>3 DEF AccInd, Fed, muxers
  <1> QED
    BY <1>5, <1>7, <1>8, <1>9 DEF AccInd

(* publish() puts the event in the memory of every subscribed muxer, or    *)
(* in its queue file when the memory is full.                              *)
LEMMA PublishInd ==
    ASSUME AccInd, PublishAll,
           UNCHANGED <<client, apc, current, connections, feeders, fpc, since, leftover, got,
                       starts>>
    PROVE  AccInd'
  <1> DEFINE q(n) == IF n \in Subscribed THEN PublishTo(n, next)
                     ELSE [m |-> mem[n], f |-> file[n], d |-> disk[n], h |-> hidden[n]]
  <1>1. /\ next \in Nat /\ next' = next + 1 /\ hold' = hold
        /\ mem' = [n \in Feeders |-> q(n).m] /\ file' = [n \in Feeders |-> q(n).f]
        /\ disk' = [n \in Feeders |-> q(n).d] /\ hidden' = [n \in Feeders |-> q(n).h]
    BY DEF PublishAll, AccInd, AccShape
  <1>2. ASSUME NEW n \in Feeders
        PROVE  /\ mem[n] \in Seq(Nat) /\ disk[n] \in Seq(Nat) /\ hidden[n] \in Seq(Nat)
               /\ file[n] \in {"null", "linked", "unlinked"} /\ got[n] \in Seq(Nat)
               /\ leftover[n] \in Seq(Nat) /\ since[n] \in Nat /\ hold[n] \in Seq(Nat)
    BY DEF AccInd, AccShape
  <1>3. ASSUME NEW n \in Feeders
        PROVE  /\ q(n).m \in Seq(Nat) /\ q(n).d \in Seq(Nat) /\ q(n).h \in Seq(Nat)
               /\ q(n).f \in {"null", "linked", "unlinked"}
               /\ Len(q(n).m) <= Limit
               /\ n > connections => q(n).d = disk[n]
    <2>1. CASE n \notin Subscribed
      BY <2>1, <1>2 DEF AccInd
    <2>2. CASE n \in Subscribed /\ Len(mem[n]) < Limit
      <3>1. q(n) = [m |-> Append(mem[n], next), f |-> file[n], d |-> disk[n], h |-> hidden[n]]
        BY <2>2 DEF PublishTo
      <3>2. Append(mem[n], next) \in Seq(Nat) /\ Len(Append(mem[n], next)) = Len(mem[n]) + 1
        BY <1>1, <1>2
      <3>3. Len(mem[n]) \in Nat /\ Limit \in Nat
        BY <1>2, AcceptorAssumption
      <3>4. Len(mem[n]) + 1 <= Limit
        BY <2>2, <3>3
      <3>5. /\ q(n).m = Append(mem[n], next) /\ q(n).f = file[n] /\ q(n).d = disk[n]
            /\ q(n).h = hidden[n]
        BY <3>1
      <3> HIDE DEF q
      <3> QED
        BY <3>5, <3>2, <3>4, <1>2
    <2>3. CASE n \in Subscribed /\ ~ Len(mem[n]) < Limit
      <3>1. ~ n > connections
        BY <2>3 DEF AccInd, Numbers, Subscribed
      <3>2. Append(hidden[n], next) \in Seq(Nat) /\ Append(disk[n], next) \in Seq(Nat)
        BY <1>1, <1>2
      <3>3. Len(mem[n]) <= Limit
        BY DEF AccInd
      <3> QED
        BY <2>3, <3>1, <3>2, <3>3, <1>2 DEF PublishTo
    <2> QED
      BY <2>1, <2>2, <2>3
  <1>4. ASSUME NEW n \in Feeders, fpc[n] \in {"start", "run"} PROVE Fed(n)'
    <2>1. Fed(n) /\ n \in Subscribed /\ Len(mem[n]) <= Limit
      BY <1>4 DEF AccInd, Subscribed
    <2>2. Content(got[n], mem[n], disk[n], leftover[n], since[n], next)
      BY <2>1 DEF Fed
    <2>3. since[n] <= next /\ since[n] <= next + 1
      BY <2>1, <1>1, <1>2 DEF Fed
    <2>5. since'[n] = since[n] /\ leftover'[n] = leftover[n] /\ got'[n] = got[n]
          /\ hold'[n] = hold[n] /\ since'[n] <= next' /\ next' = next + 1
      BY <1>1, <2>3
    <2>6. CASE Len(mem[n]) < Limit
      <3>1. q(n) = [m |-> Append(mem[n], next), f |-> file[n], d |-> disk[n], h |-> hidden[n]]
        BY <2>6, <2>1 DEF PublishTo
      <3>2. /\ mem'[n] = Append(mem[n], next) /\ disk'[n] = disk[n] /\ file'[n] = file[n]
            /\ disk[n] = <<>>
        BY <3>1, <2>6, <2>1, <1>1 DEF Fed
      <3>3. Content(got[n], mem'[n], disk[n], leftover[n], since[n], next + 1)
        BY <3>2, <2>2, <2>3, <1>1, <1>2, Grows
      <3>4. Append(mem[n], next) # <<>>
            /\ (mem[n] # <<>> => Head(Append(mem[n], next)) = Head(mem[n]))
        <4>1. PICK q1 \in Seq(Nat), e \in Nat : q1 = mem[n] /\ e = next
          BY <1>1, <1>2
        <4>2. Append(q1, e) # <<>> /\ (q1 # <<>> => Head(Append(q1, e)) = Head(q1))
          BY ONLY q1 \in Seq(Nat), e \in Nat
        <4> QED
          BY <4>1, <4>2
      <3>5. hold[n] # <<>> => mem'[n] # <<>> /\ hold[n] = <<Head(mem'[n])>>
        BY <3>2, <3>4, <2>1 DEF Fed
      <3>6. file'[n] \in {"null", "linked"} /\ disk'[n] = <<>>
        BY <3>2, <2>1 DEF Fed
      <3> QED
        BY <2>5, <3>2, <3>3, <3>5, <3>6 DEF Fed
    <2>7. CASE ~ Len(mem[n]) < Limit
      <3>1. q(n) = [m |-> mem[n], f |-> "linked", d |-> Append(disk[n], next), h |-> hidden[n]]
        BY <2>7, <2>1 DEF PublishTo, Fed
      <3>2. mem'[n] = mem[n] /\ disk'[n] = Append(disk[n], next) /\ file'[n] = "linked"
        BY <3>1, <1>1
      <3>3. Content(got[n], mem[n], disk'[n], leftover[n], since[n], next + 1)
        BY <3>2, <2>2, <2>3, <1>1, <1>2, Grows
      <3>5. /\ hold'[n] # <<>> => mem'[n] # <<>> /\ hold'[n] = <<Head(mem'[n])>>
            /\ ~ Len(mem'[n]) < Limit /\ file'[n] = "linked"
        BY <2>1, <2>5, <2>7, <3>2 DEF Fed
      <3> QED
        BY <2>5, <3>2, <3>3, <3>5 DEF Fed
    <2> QED
      BY <2>6, <2>7
  <1> HIDE DEF q
  <1>5. /\ mem' \in [Feeders -> Seq(Nat)] /\ disk' \in [Feeders -> Seq(Nat)]
        /\ hidden' \in [Feeders -> Seq(Nat)]
        /\ file' \in [Feeders -> {"null", "linked", "unlinked"}]
        /\ \A n \in Feeders : Len(mem'[n]) <= Limit
        /\ \A n \in Feeders : n > connections => disk'[n] = disk[n]
    BY <1>1, <1>3
  <1>6. Subscribed' = Subscribed /\ Fresh' = Fresh
    BY DEF Subscribed, Fresh
  <1>7. AccShape'
    BY <1>1, <1>5, <1>6 DEF AccInd, AccShape
  <1>8. Numbers'
    BY <1>6 DEF AccInd, Numbers
  <1>9. NewInOneLife'
    BY <1>5 DEF AccInd, NewInOneLife
  <1> QED
    BY <1>1, <1>4, <1>5, <1>7, <1>8, <1>9 DEF AccInd

(* A feeder takes the oldest event of its muxer. *)
LEMMA FromMuxerInd == ASSUME AccInd, NEW n \in Feeders, FromMuxer(n) PROVE AccInd'
  <1>1. /\ hold' = [hold EXCEPT ![n] = <<Head(mem[n])>>]
        /\ UNCHANGED <<client, apc, current, connections, feeders, fpc, since, leftover, got,
                       starts, mem, file, disk, hidden, next>>
        /\ mem[n] # <<>> /\ fpc[n] = "run"
    BY DEF FromMuxer, tcp
  <1>2. mem[n] \in Seq(Nat) /\ Head(mem[n]) \in Nat
    BY <1>1 DEF AccInd, AccShape
  <1>3. hold' \in [Feeders -> Seq(Nat)]
    BY <1>1, <1>2 DEF AccInd, AccShape
  <1>4. Subscribed' = Subscribed /\ Fresh' = Fresh
    BY <1>1 DEF Subscribed, Fresh
  <1>5. AccShape'
    BY <1>1, <1>3, <1>4 DEF AccInd, AccShape
  <1>6. Numbers'
    BY <1>1, <1>4 DEF AccInd, Numbers
  <1>7. NewInOneLife'
    BY <1>1 DEF AccInd, NewInOneLife
  <1>8. ASSUME NEW k \in Feeders
        PROVE  /\ Len(mem[k])' <= Limit /\ Len(hold[k])' <= 1
               /\ fpc'[k] \in {"start", "run"} => Fed(k)'
               /\ fpc'[k] = "none" => hold'[k] = <<>>
    <2>1. CASE k # n
      <3>1. hold'[k] = hold[k]
        BY <2>1, <1>1 DEF AccInd, AccShape
      <3> QED
        BY <3>1, <1>1 DEF AccInd, Fed
    <2>2. CASE k = n
      <3>1. hold'[k] = <<Head(mem[n])>> /\ Len(hold'[k]) = 1
        BY <2>2, <1>1, <1>2 DEF AccInd, AccShape
      <3>2. Len(mem[n]) <= Limit /\ Fed(n)
        BY <1>1 DEF AccInd
      <3>3. Fed(n)'
        BY <3>1, <3>2, <2>2, <1>1 DEF Fed
      <3> QED
        BY <3>1, <3>2, <3>3, <2>2, <1>1
    <2> QED
      BY <2>1, <2>2
  <1> QED
    BY <1>5, <1>6, <1>7, <1>8 DEF AccInd

(* A feeder has written an event to its peer and acknowledges it: the      *)
(* muxer refills its memory from the file.                                 *)
LEMMA ToClientInd == ASSUME AccInd, NEW n \in Feeders, ToClient(n) PROVE AccInd'
  <1> DEFINE r == Refill(n)
             h == hold[n][1]
  <1>1. /\ got' = [got EXCEPT ![n] = Append(@, h)] /\ hold' = [hold EXCEPT ![n] = <<>>]
        /\ mem' = [mem EXCEPT ![n] = r.m] /\ file' = [file EXCEPT ![n] = r.f]
        /\ disk' = [disk EXCEPT ![n] = r.d] /\ hidden' = [hidden EXCEPT ![n] = r.h]
        /\ UNCHANGED <<client, apc, current, connections, feeders, fpc, next, since, leftover,
                       starts>>
        /\ fpc[n] = "run" /\ hold[n] # <<>>
    BY DEF ToClient, tcp
  <1>2. ASSUME NEW k \in Feeders
        PROVE  /\ mem[k] \in Seq(Nat) /\ disk[k] \in Seq(Nat) /\ hidden[k] \in Seq(Nat)
               /\ file[k] \in {"null", "linked", "unlinked"} /\ got[k] \in Seq(Nat)
               /\ leftover[k] \in Seq(Nat) /\ since[k] \in Nat /\ hold[k] \in Seq(Nat)
    BY DEF AccInd, AccShape
  <1>3. Fed(n) /\ Len(mem[n]) <= Limit
    BY <1>1 DEF AccInd
  <1>4. mem[n] # <<>> /\ h = Head(mem[n]) /\ h \in Nat /\ Tail(mem[n]) \in Seq(Nat)
        /\ Len(Tail(mem[n])) = Len(mem[n]) - 1 /\ Len(mem[n]) \in Nat
    <2>1. mem[n] # <<>> /\ hold[n] = <<Head(mem[n])>> /\ mem[n] \in Seq(Nat)
      BY <1>1, <1>2, <1>3 DEF Fed
    <2>2. h = Head(mem[n])
      BY <2>1
    <2> HIDE DEF h
    <2> QED
      BY <2>1, <2>2
  <1>5. Append(got[n], h) \in Seq(Nat)
    BY <1>2, <1>4
  <1>6. /\ r.m \in Seq(Nat) /\ r.d \in Seq(Nat) /\ r.h \in Seq(Nat) /\ r.f \in {"null", "linked"}
        /\ Len(r.m) <= Limit /\ (Len(r.m) < Limit => r.d = <<>>) /\ (r.f = "null" => r.d = <<>>)
        /\ Joined(Append(got[n], h), r.m, r.d) = Joined(got[n], mem[n], disk[n])
        /\ disk[n] = <<>> => r.d = <<>>
    <2>1. Joined(Append(got[n], h), Tail(mem[n]), disk[n]) = Joined(got[n], mem[n], disk[n])
      BY <1>2, <1>4, JoinHead
    <2>2. Len(mem[n]) - 1 < Limit /\ Limit \in Nat
      BY <1>3, <1>4, AcceptorAssumption
    <2>3. CASE disk[n] = <<>>
      <3>1. r.m = Tail(mem[n]) /\ r.d = disk[n] /\ r.h \in Seq(Nat) /\ r.f = "null"
        BY <2>3, <1>2, <1>3 DEF Refill, Fed
      <3> QED
        BY <3>1, <2>1, <2>2, <2>3, <1>2, <1>4
    <2>4. CASE disk[n] # <<>>
      <3>1. file[n] = "linked" /\ ~ Len(mem[n]) < Limit
        BY <2>4, <1>3 DEF Fed
      <3>2. r = [m |-> Append(Tail(mem[n]), Head(disk[n])), f |-> "linked",
                 d |-> Tail(disk[n]), h |-> hidden[n]]
        BY <2>4, <3>1 DEF Refill
      <3>3. /\ Append(Tail(mem[n]), Head(disk[n])) \in Seq(Nat) /\ Tail(disk[n]) \in Seq(Nat)
            /\ Len(Append(Tail(mem[n]), Head(disk[n]))) = Len(mem[n])
        BY <2>4, <1>2, <1>4
      <3>4. Joined(Append(got[n], h), r.m, r.d) = Joined(Append(got[n], h), Tail(mem[n]), disk[n])
        <4>1. r.m = Append(Tail(mem[n]), Head(disk[n])) /\ r.d = Tail(disk[n])
          BY <3>2
        <4> DEFINE g == Append(got[n], h)
                   m == Tail(mem[n])
                   z == r.m
        <4>2. g \in Seq(Nat) /\ m \in Seq(Nat) /\ disk[n] \in Seq(Nat) /\ z = Append(m, Head(disk[n]))
          BY <4>1, <1>2, <1>4, <1>5
        <4> HIDE DEF g, m, z
        <4>3. Joined(g, z, Tail(disk[n])) = Joined(g, m, disk[n])
          BY <4>2, <2>4, JoinRefill
        <4> QED
          BY <4>1, <4>3 DEF g, m, z
      <3> QED
        BY <3>1, <3>2, <3>3, <3>4, <2>1, <2>4, <1>2, <1>3
    <2> QED
      BY <2>3, <2>4
  <1>7. Fed(n)'
    <2>1. /\ got'[n] = Append(got[n], h) /\ hold'[n] = <<>> /\ mem'[n] = r.m
          /\ file'[n] = r.f /\ disk'[n] = r.d
          /\ leftover'[n] = leftover[n] /\ since'[n] = since[n] /\ next' = next
      BY <1>1 DEF AccInd, AccShape
    <2> HIDE DEF r, h
    <2>2. Content(got'[n], mem'[n], disk'[n], leftover'[n], since'[n], next')
      BY <2>1, <1>3, <1>6 DEF Content, Fed
    <2> QED
      BY <2>1, <2>2, <1>3, <1>6 DEF Fed
  <1> HIDE DEF r, h
  <1>8. ASSUME NEW k \in Feeders
        PROVE  /\ Len(mem[k])' <= Limit /\ Len(hold[k])' <= 1
               /\ fpc'[k] \in {"start", "run"} => Fed(k)'
               /\ fpc'[k] = "none" => hold'[k] = <<>>
               /\ disk[k] = <<>> => disk'[k] = <<>>
    <2>1. CASE k # n
      <3>1. hold'[k] = hold[k] /\ mem'[k] = mem[k] /\ got'[k] = got[k] /\ disk'[k] = disk[k]
            /\ file'[k] = file[k]
        BY <2>1, <1>1 DEF AccInd, AccShape
      <3> QED
        BY <3>1, <1>1 DEF AccInd, Fed
    <2>2. CASE k = n
      <3>1. hold'[k] = <<>> /\ mem'[k] = r.m /\ disk'[k] = r.d
        BY <2>2, <1>1 DEF AccInd, AccShape
      <3> QED
        BY <3>1, <2>2, <1>1, <1>6, <1>7
    <2> QED
      BY <2>1, <2>2
  <1>9. AccShape'
    <2>1. /\ got' \in [Feeders -> Seq(Nat)] /\ mem' \in [Feeders -> Seq(Nat)]
          /\ disk' \in [Feeders -> Seq(Nat)] /\ hidden' \in [Feeders -> Seq(Nat)]
          /\ file' \in [Feeders -> {"null", "linked", "unlinked"}]
      BY <1>1, <1>5, <1>6 DEF AccInd, AccShape
    <2>2. <<>> \in Seq(Nat)
      OBVIOUS
    <2>3. hold' \in [Feeders -> Seq(Nat)]
      BY <1>1, <2>2 DEF AccInd, AccShape
    <2> QED
      BY <1>1, <2>1, <2>3 DEF AccInd, AccShape, Subscribed
  <1>10. Numbers' /\ NewInOneLife'
    <2>1. Fresh' = Fresh
      BY <1>1 DEF Fresh
    <2> QED
      BY <1>1, <1>8, <2>1 DEF AccInd, Numbers, NewInOneLife
  <1> QED
    BY <1>8, <1>9, <1>10 DEF AccInd

(* A feeder that ends removes the queue files of its muxer. *)
LEMMA RemoveQueueFilesInd ==
    ASSUME AccInd, NEW n \in Feeders, RemoveQueueFiles(n) PROVE AccInd'
  <1>1. PICK h \in Seq(Nat), f \in {"null", "linked", "unlinked"} :
             /\ fpc' = [fpc EXCEPT ![n] = "done"]
             /\ disk' = [disk EXCEPT ![n] = <<>>]
             /\ hidden' = [hidden EXCEPT ![n] = h]
             /\ file' = [file EXCEPT ![n] = f]
    BY DEF RemoveQueueFiles, AccInd, AccShape
  <1>2. /\ fpc[n] = "clean" /\ client' = [client EXCEPT ![fclient[n]] = "lost"]
        /\ UNCHANGED <<apc, current, connections, feeders, mem, hold, next, since, leftover, got,
                       starts>>
    BY DEF RemoveQueueFiles
  <1>3. client' \in [Clients -> Stages] /\ Fresh' \subseteq Fresh
    BY <1>2 DEF AccInd, AccShape, Fresh, Stages
  <1>4. ASSUME NEW k \in Feeders
        PROVE  /\ Len(mem[k])' <= Limit /\ Len(hold[k])' <= 1
               /\ fpc'[k] \in {"start", "run"} => Fed(k)'
               /\ fpc'[k] = "none" <=> fpc[k] = "none"
               /\ fpc'[k] = "none" => hold'[k] = <<>>
               /\ disk[k] = <<>> => disk'[k] = <<>>
    <2>1. CASE k # n
      <3>1. disk'[k] = disk[k] /\ file'[k] = file[k] /\ fpc'[k] = fpc[k]
        BY <2>1, <1>1 DEF AccInd, AccShape
      <3> QED
        BY <3>1, <1>2 DEF AccInd, Fed
    <2>2. CASE k = n
      <3>1. disk'[k] = <<>> /\ fpc'[k] = "done"
        BY <2>2, <1>1 DEF AccInd, AccShape
      <3> QED
        BY <3>1, <2>2, <1>2 DEF AccInd
    <2> QED
      BY <2>1, <2>2
  <1>5. Subscribed' = Subscribed
    BY <1>4 DEF Subscribed
  <1>6. AccShape'
    <2>1. <<>> \in Seq(Nat)
      OBVIOUS
    <2>2. /\ fpc' \in [Feeders -> {"none", "start", "run", "left", "clean", "done"}]
          /\ disk' \in [Feeders -> Seq(Nat)] /\ hidden' \in [Feeders -> Seq(Nat)]
          /\ file' \in [Feeders -> {"null", "linked", "unlinked"}]
      BY <1>1, <2>1 DEF AccInd, AccShape
    <2> QED
      BY <1>2, <1>3, <1>5, <2>2 DEF AccInd, AccShape
  <1>7. Numbers'
    <2>1. connections' + Cardinality(Fresh') <= Cardinality(Clients)
      BY <1>2, <1>3, FreshShrinks DEF AccInd, AccShape
    <2> QED
      BY <2>1, <1>2, <1>4 DEF AccInd, Numbers
  <1>8. NewInOneLife'
    BY <1>2, <1>4 DEF AccInd, NewInOneLife
  <1> QED
    BY <1>4, <1>6, <1>7, <1>8 DEF AccInd

(* A new connection: its number has no feeder yet, its muxer takes over    *)
(* the file of that number that a previous run has left.                   *)
LEMMA CreateFeederInd == AccInd /\ CreateFeeder => AccInd'
  <1> SUFFICES ASSUME AccInd, CreateFeeder PROVE AccInd'
    OBVIOUS
  <1>0. PICK n \in Nat : n = connections + 1
    BY DEF AccInd, AccShape
  <1> DEFINE d == disk[n]
  <1>1. current \in Clients /\ client[current] = "opening" /\ connections \in Nat /\ n \in Nat
    BY DEF CreateFeeder, NewFeeder, AccInd, AccShape, Numbers
  <1>2. /\ n \in Feeders /\ Fresh' \subseteq Fresh
        /\ n + Cardinality(Fresh') <= Cardinality(Clients)
    <2>1. IsFiniteSet(Fresh) /\ current \in Fresh
      BY <1>1, AcceptorAssumption, FS_Subset DEF Fresh
    <2>2. /\ Cardinality(Fresh \ {current}) = Cardinality(Fresh) - 1
          /\ Cardinality(Fresh \ {current}) \in Nat /\ Cardinality(Clients) \in Nat
          /\ Cardinality(Fresh) \in Nat
      BY <2>1, AcceptorAssumption, FS_RemoveElement, FS_CardinalityType
    <2>3. client' = [client EXCEPT ![current] = "open"] /\ client \in [Clients -> Stages]
      BY DEF CreateFeeder, NewFeeder, AccInd, AccShape
    <2>4. Fresh' = Fresh \ {current}
      BY <2>3, <1>1 DEF Fresh
    <2>5. connections + Cardinality(Fresh) <= Cardinality(Clients)
      BY DEF AccInd, Numbers
    <2> QED
      BY <2>2, <2>4, <2>5, <1>0, <1>1 DEF Feeders
  <1>3. /\ connections' = n /\ apc' = "create"
        /\ client' = [client EXCEPT ![current] = "open"]
        /\ fpc' = [fpc EXCEPT ![n] = "start"]
        /\ mem' = [mem EXCEPT ![n] = Loaded(d)] /\ disk' = [disk EXCEPT ![n] = Unloaded(d)]
        /\ file' = [file EXCEPT ![n] = IF Len(d) < Limit THEN "null" ELSE "linked"]
        /\ since' = [since EXCEPT ![n] = next] /\ leftover' = [leftover EXCEPT ![n] = d]
        /\ got' = [got EXCEPT ![n] = <<>>]
        /\ UNCHANGED <<feeders, hold, hidden, next, starts>>
    BY <1>0 DEF CreateFeeder, NewFeeder
  <1>4. /\ d \in Seq(Nat) /\ fpc[n] = "none" /\ hold[n] = <<>> /\ next \in Nat
    BY <1>0, <1>1, <1>2 DEF AccInd, AccShape, Numbers
  <1>5. /\ Loaded(d) \in Seq(Nat) /\ Unloaded(d) \in Seq(Nat) /\ Len(Loaded(d)) <= Limit
        /\ Len(Loaded(d)) < Limit => Unloaded(d) = <<>>
        /\ Len(d) < Limit => Unloaded(d) = <<>>
        /\ Joined(<<>>, Loaded(d), Unloaded(d)) = d
    <2> DEFINE k == IF Len(d) < Limit THEN Len(d) ELSE Limit
    <2>1. Len(d) \in Nat /\ Limit \in Nat
      BY <1>4, AcceptorAssumption
    <2> HIDE DEF d
    <2>2. /\ k \in 0 .. Len(d) /\ k <= Limit /\ (k < Limit => k = Len(d))
          /\ Len(d) < Limit => k = Len(d)
      BY <2>1
    <2>3. /\ Loaded(d) = SubSeq(d, 1, k) /\ Len(Loaded(d)) = k
          /\ Loaded(d) \in Seq(Nat)
      BY <2>2, <1>4, JoinCut DEF Loaded
    <2>4. Unloaded(d) = SubSeq(d, k + 1, Len(d))
      BY <2>3 DEF Unloaded
    <2> HIDE DEF k
    <2>5. /\ Unloaded(d) \in Seq(Nat) /\ Len(Unloaded(d)) = Len(d) - k
          /\ Joined(<<>>, Loaded(d), Unloaded(d)) = d
      BY <2>2, <2>3, <2>4, <1>4, JoinCut
    <2>6. Len(Unloaded(d)) = 0 => Unloaded(d) = <<>>
      BY <2>5
    <2> QED
      BY <2>1, <2>2, <2>3, <2>5, <2>6
  <1>6. Content(<<>>, Loaded(d), Unloaded(d), d, next, next)
    <2>1. Interval(next, next) = <<>>
      BY <1>4 DEF Interval
    <2> HIDE DEF d
    <2>2. Joined2(d, <<>>) = d
      BY <1>4 DEF Joined2
    <2> QED
      BY <1>5, <2>1, <2>2 DEF Content
  <1> HIDE DEF d
  <1>7. /\ mem'[n] = Loaded(d) /\ disk'[n] = Unloaded(d) /\ since'[n] = next
        /\ leftover'[n] = d /\ got'[n] = <<>> /\ fpc'[n] = "start"
        /\ file'[n] = IF Len(d) < Limit THEN "null" ELSE "linked"
    BY <1>2, <1>3 DEF AccInd, AccShape
  <1>8. Fed(n)'
    <2>1. since'[n] <= next' /\ hold'[n] = <<>>
      BY <1>3, <1>4, <1>7
    <2>2. file'[n] \in {"null", "linked"} /\ (file'[n] = "null" => disk'[n] = <<>>)
      BY <1>5, <1>7
    <2>3. Len(mem'[n]) < Limit => disk'[n] = <<>>
      BY <1>5, <1>7
    <2>4. Content(got'[n], mem'[n], disk'[n], leftover'[n], since'[n], next')
      BY <1>3, <1>6, <1>7
    <2> QED
      BY <2>1, <2>2, <2>3, <2>4 DEF Fed
  <1>9. ASSUME NEW k \in Feeders
        PROVE  /\ Len(mem[k])' <= Limit /\ Len(hold[k])' <= 1
               /\ fpc'[k] \in {"start", "run"} => Fed(k)'
               /\ fpc'[k] = "none" => hold'[k] = <<>>
               /\ k # n => disk'[k] = disk[k] /\ fpc'[k] = fpc[k] /\ leftover'[k] = leftover[k]
    <2>1. CASE k # n
      <3>1. /\ disk'[k] = disk[k] /\ fpc'[k] = fpc[k] /\ leftover'[k] = leftover[k]
            /\ mem'[k] = mem[k] /\ file'[k] = file[k] /\ since'[k] = since[k]
            /\ got'[k] = got[k]
        BY <2>1, <1>3 DEF AccInd, AccShape
      <3> QED
        BY <3>1, <1>3 DEF AccInd, Fed
    <2>2. CASE k = n
      <3>1. hold'[k] = <<>> /\ Len(mem'[k]) <= Limit /\ Len(hold'[k]) <= 1
        BY <2>2, <1>3, <1>4, <1>5, <1>7
      <3> QED
        BY <3>1, <2>2, <1>8
    <2> QED
      BY <2>1, <2>2
  <1>10. AccShape'
    <2>1. <<>> \in Seq(Nat)
      OBVIOUS
    <2>2. /\ fpc' \in [Feeders -> {"none", "start", "run", "left", "clean", "done"}]
          /\ file' \in [Feeders -> {"null", "linked", "unlinked"}]
          /\ client' \in [Clients -> Stages]
      BY <1>3 DEF AccInd, AccShape, Stages
    <2>3. /\ mem' \in [Feeders -> Seq(Nat)] /\ disk' \in [Feeders -> Seq(Nat)]
          /\ got' \in [Feeders -> Seq(Nat)] /\ leftover' \in [Feeders -> Seq(Nat)]
          /\ since' \in [Feeders -> Nat]
      BY <1>3, <1>4, <1>5, <2>1 DEF AccInd, AccShape
    <2>4. feeders' \subseteq Subscribed'
      BY <1>3, <1>7, <1>9 DEF AccInd, AccShape, Subscribed
    <2>5. connections' \in Nat
      BY <1>0, <1>1, <1>3
    <2> QED
      BY <1>3, <2>2, <2>3, <2>4, <2>5 DEF AccInd, AccShape
  <1>11. Numbers'
    <2>1. ASSUME NEW k \in Feeders, k > n PROVE fpc'[k] = "none"
      <3>1. k # n /\ k > connections
        BY <2>1, <1>0, <1>1 DEF Feeders
      <3> QED
        BY <3>1, <1>9 DEF AccInd, Numbers
    <2> QED
      BY <2>1, <1>2, <1>3, <1>7 DEF Numbers
  <1>12. NewInOneLife'
    <2> SUFFICES ASSUME starts = 1, NEW k \in Feeders
                 PROVE  leftover'[k] = <<>> /\ (k > n => disk'[k] = <<>>)
      BY <1>3 DEF NewInOneLife
    <2>1. n > connections
      BY <1>0, <1>1
    <2>2. d = <<>>
      BY <2>1, <1>2 DEF AccInd, NewInOneLife, d
    <2>3. k > n => k # n /\ k > connections
      BY <1>0, <1>1 DEF Feeders
    <2>4. k # n => leftover'[k] = <<>>
      BY <1>9 DEF AccInd, NewInOneLife
    <2> QED
      BY <2>2, <2>3, <2>4, <1>7, <1>9 DEF AccInd, NewInOneLife
  <1> QED
    BY <1>9, <1>10, <1>11, <1>12 DEF AccInd

(* The destruction of a feeder and of its muxer. *)
LEMMA DestroyInd ==
    ASSUME AccInd, NEW n \in feeders, Destroy(n),
           UNCHANGED <<client, apc, current, connections, next, starts>>, apc # "create"
    PROVE  AccInd'
  <1>1. /\ fpc' = [fpc EXCEPT ![n] = "none"] /\ feeders' = feeders \ {n}
        /\ mem' = [mem EXCEPT ![n] = <<>>] /\ hold' = [hold EXCEPT ![n] = <<>>]
        /\ file' = [file EXCEPT ![n] = "null"] /\ hidden' = [hidden EXCEPT ![n] = <<>>]
        /\ since' = [since EXCEPT ![n] = 0] /\ got' = [got EXCEPT ![n] = <<>>]
        /\ leftover' = [leftover EXCEPT ![n] = <<>>] /\ disk' = disk
        /\ UNCHANGED <<client, apc, current, connections, next, starts>>
    BY DEF Destroy
  <1>2. n \in Feeders /\ <<>> \in Seq(Nat)
    BY DEF AccInd, AccShape, Subscribed
  <1>3. ASSUME NEW k \in Feeders
        PROVE  /\ Len(mem[k])' <= Limit /\ Len(hold[k])' <= 1
               /\ fpc'[k] \in {"start", "run"} => Fed(k)'
               /\ fpc'[k] = "none" => hold'[k] = <<>>
               /\ fpc[k] = "none" => fpc'[k] = "none"
               /\ k # n => fpc'[k] = fpc[k]
               /\ leftover[k] = <<>> => leftover'[k] = <<>>
    <2>1. CASE k # n
      <3>1. /\ fpc'[k] = fpc[k] /\ leftover'[k] = leftover[k] /\ hold'[k] = hold[k]
            /\ mem'[k] = mem[k] /\ file'[k] = file[k] /\ since'[k] = since[k]
            /\ got'[k] = got[k]
        BY <2>1, <1>1 DEF AccInd, AccShape
      <3> QED
        BY <3>1, <1>1 DEF AccInd, Fed
    <2>2. CASE k = n
      <3>1. fpc'[k] = "none" /\ leftover'[k] = <<>> /\ hold'[k] = <<>> /\ mem'[k] = <<>>
        BY <2>2, <1>1, <1>2 DEF AccInd, AccShape
      <3> QED
        BY <3>1, <2>2, AcceptorAssumption
    <2> QED
      BY <2>1, <2>2
  <1>4. AccShape'
    <2>1. /\ fpc' \in [Feeders -> {"none", "start", "run", "left", "clean", "done"}]
          /\ file' \in [Feeders -> {"null", "linked", "unlinked"}]
      BY <1>1 DEF AccInd, AccShape
    <2>2. /\ mem' \in [Feeders -> Seq(Nat)] /\ hold' \in [Feeders -> Seq(Nat)]
          /\ got' \in [Feeders -> Seq(Nat)] /\ leftover' \in [Feeders -> Seq(Nat)]
          /\ hidden' \in [Feeders -> Seq(Nat)] /\ since' \in [Feeders -> Nat]
      BY <1>1, <1>2 DEF AccInd, AccShape
    <2>3. feeders' \subseteq Subscribed'
      BY <1>1, <1>3 DEF AccInd, AccShape, Subscribed
    <2> QED
      BY <1>1, <2>1, <2>2, <2>3 DEF AccInd, AccShape
  <1>5. Fresh' = Fresh
    BY DEF Fresh
  <1>6. Numbers'
    BY <1>1, <1>3, <1>5 DEF AccInd, Numbers
  <1>7. NewInOneLife'
    BY <1>1, <1>3 DEF AccInd, NewInOneLife
  <1> QED
    BY <1>3, <1>4, <1>6, <1>7 DEF AccInd

(* The acceptor thread destroys the feeders whose threads have ended, at   *)
(* its turns or at its end.                                                *)
LEMMA ReapInd == AccInd /\ (Reap \/ \E n \in Feeders : DestroyFeeder(n)) => AccInd'
  <1> SUFFICES ASSUME AccInd, Reap \/ \E n \in Feeders : DestroyFeeder(n) PROVE AccInd'
    OBVIOUS
  <1>1. /\ UNCHANGED <<client, current, connections, next, starts>>
        /\ apc # "create" /\ apc' # "create" /\ (apc' # apc => apc' = "accept")
    BY DEF Reap, DestroyFeeder, tcp
  <1>2. CASE \E n \in feeders : Destroy(n)
    <2>1. PICK n \in feeders : Destroy(n)
      BY <1>2
    <2>2. fpc' # fpc
      <3>1. fpc[n] = "done" /\ fpc' = [fpc EXCEPT ![n] = "none"] /\ n \in Feeders
        BY <2>1 DEF Destroy, AccInd, AccShape, Subscribed
      <3>2. fpc'[n] = "none"
        BY <3>1 DEF AccInd, AccShape
      <3> QED
        BY <3>1, <3>2
    <2>3. apc' = apc
      BY <2>2 DEF Reap, DestroyFeeder
    <2> QED
      BY <1>1, <2>1, <2>3, DestroyInd
  <1>3. CASE ~ \E n \in feeders : Destroy(n)
    <2>1. UNCHANGED <<fpc, feeders, muxers, since, leftover, got>>
      BY <1>3 DEF Reap, DestroyFeeder
    <2>2. Fresh' = Fresh
      BY <1>1 DEF Fresh
    <2>3. /\ client' \in [Clients -> Stages] /\ feeders' \subseteq Subscribed
          /\ apc' \in {"stopped", "accept", "handshake", "create", "reap", "sleep", "finished"}
          /\ apc' = "handshake" => current' \in Clients
      BY <1>1, <2>1 DEF AccInd, AccShape, Numbers
    <2> QED
      BY <1>1, <2>1, <2>2, <2>3, QuietInd
  <1> QED
    BY <1>2, <1>3

(* The process ends and starts again: the queue files are left. *)
LEMMA RestartInd == AccInd /\ Restart => AccInd'
  <1> SUFFICES ASSUME AccInd, Restart PROVE AccInd'
    OBVIOUS
  <1>1. /\ starts' = starts + 1 /\ starts \in Nat \ {0} /\ apc' = "stopped"
        /\ connections' = 0 /\ feeders' = {} /\ fpc' = [n \in Feeders |-> "none"]
        /\ mem' = [n \in Feeders |-> <<>>] /\ hold' = [n \in Feeders |-> <<>>]
        /\ file' = [n \in Feeders |-> "null"] /\ hidden' = [n \in Feeders |-> <<>>]
        /\ since' = [n \in Feeders |-> 0] /\ got' = [n \in Feeders |-> <<>>]
        /\ leftover' = [n \in Feeders |-> <<>>] /\ disk' = disk /\ next' = next
        /\ client' = [c \in Clients |-> IF client[c] = "away" THEN "away" ELSE "lost"]
    BY DEF Restart, AccInd, AccShape
  <1>2. <<>> \in Seq(Nat) /\ starts' \in Nat \ {0} /\ starts' # 1
    BY <1>1
  <1>3. AccShape'
    BY <1>1, <1>2 DEF AccInd, AccShape, Stages, Subscribed
  <1>4. Numbers'
    <2>1. Fresh' \subseteq Clients
      BY DEF Fresh
    <2>2. Cardinality(Fresh') <= Cardinality(Clients) /\ Cardinality(Fresh') \in Nat
      BY <2>1, AcceptorAssumption, FS_Subset, FS_CardinalityType
    <2>3. connections' + Cardinality(Fresh') <= Cardinality(Clients)
      BY <1>1, <2>2
    <2> QED
      BY <1>1, <2>3 DEF Numbers
  <1>5. NewInOneLife'
    BY <1>2 DEF NewInOneLife
  <1>6. ASSUME NEW n \in Feeders
        PROVE  mem'[n] = <<>> /\ hold'[n] = <<>> /\ fpc'[n] = "none"
    BY <1>1
  <1>7. Len(<<>>) = 0 /\ 0 <= Limit
    BY AcceptorAssumption
  <1> QED
    BY <1>3, <1>4, <1>5, <1>6, <1>7 DEF AccInd

(* The inductive invariant holds in every reachable state of the           *)
(* acceptor, for any number of peers, connections, events and restarts.    *)
THEOREM AccInductive == AccSpec => []AccInd
  <1>1. AccInd /\ [AccNext]_accVars => AccInd'
    <2> SUFFICES ASSUME AccInd, [AccNext]_accVars PROVE AccInd'
      OBVIOUS
    <2>1. CASE UNCHANGED accVars
      <3>1. Fresh' = Fresh /\ Subscribed' = Subscribed
        BY <2>1 DEF accVars, tcp, Fresh, Subscribed
      <3>2. AccShape' /\ Numbers' /\ NewInOneLife'
        BY <2>1, <3>1 DEF accVars, tcp, muxers, AccInd, AccShape, Numbers, NewInOneLife
      <3> QED
        BY <2>1, <3>2 DEF accVars, tcp, muxers, AccInd, Fed
    <2>2. CASE Publish \/ \E n \in Feeders : FromClient(n)
      <3>1. /\ PublishAll
            /\ UNCHANGED <<client, apc, current, connections, feeders, fpc, since, leftover, got,
                           starts>>
        BY <2>2 DEF Publish, FromClient, tcp
      <3> QED
        BY <3>1, PublishInd
    <2> QED
      BY <2>1, <2>2, PeersInd, AcceptorQuietInd, TurnInd, FromMuxerInd, ToClientInd,
         RemoveQueueFilesInd, CreateFeederInd, ReapInd, RestartInd
      DEF AccNext
  <1> QED
    BY <1>1, AccInitInd, PTL DEF AccSpec

(* processing::acceptor gives every connection a feeder of its own: each   *)
(* peer is sent what an earlier run has left in the file of its number     *)
(* and then every event published since its feeder was created, in order,  *)
(* and in the first run nothing else.                                      *)
THEOREM AccFeeds == AccSpec => []AcceptorInv
  <1>1. AccInd => AcceptorInv
    <2> SUFFICES ASSUME AccInd PROVE AcceptorInv
      OBVIOUS
    <2>1. AccTypeOK
      BY DEF AccInd, AccShape, AccTypeOK
    <2>2. ASSUME NEW n \in Subscribed, fpc[n] \in {"start", "run"}
          PROVE  got[n] \o Queued(n)
                   = leftover[n] \o [i \in 1 .. next - since[n] |-> since[n] + i - 1]
      <3>1. Fed(n)
        BY <2>2 DEF AccInd, Subscribed
      <3>2. Queued(n) = mem[n] \o disk[n]
        BY <3>1 DEF Queued, Fed
      <3>3. got[n] \o (mem[n] \o disk[n]) = leftover[n] \o Interval(since[n], next)
        BY <3>1, Zenon DEF Fed, Content, Joined, Joined2
      <3> QED
        BY <3>2, <3>3, Zenon DEF Interval
    <2>3. LeftoverOnlyAfterRestart
      BY DEF AccInd, NewInOneLife, LeftoverOnlyAfterRestart
    <2> QED
      BY <2>1, <2>2, <2>3 DEF AcceptorInv, FeedConserved
  <1> QED
    BY <1>1, AccInductive, PTL

-----------------------------------------------------------------------------
(* lua::stream *)

(* The events the script was handed and has answered for. *)
dealt == returned + acksCount + total

(* The inductive invariant of the Lua stream: every event is in one place  *)
(* between the muxer and the script, and so is every acknowledgement.      *)
LuaInd ==
    /\ LuaTypeOK
    /\ dealt + Len(events) + Len(exposed) = given
    /\ Follows(events, dealt) /\ Follows(exposed, dealt + Len(events))
    /\ retval <= acksCount /\ (cpc # "acks" => retval = 0)
    /\ \A e \in 1 .. dealt : e \in settled \union stack
    /\ \A e \in 1 .. returned + acksCount : e \in settled
    /\ tpc = "done" => events = <<>>
    /\ cpc = "joined" => tpc = "done"

(* The initial state of the Lua stream. *)
LEMMA LuaInitInd == LuaInit => LuaInd
  <1> SUFFICES ASSUME LuaInit PROVE LuaInd
    OBVIOUS
  <1>1. dealt = 0 /\ returned + acksCount = 0
    BY DEF LuaInit, dealt
  <1>2. LuaTypeOK
    <2>1. 0 \in 0 .. ScriptEvents
      BY LuaAssumption
    <2>2. exposed \in Seq(ScriptEvent) /\ events \in Seq(ScriptEvent)
      BY DEF LuaInit
    <2> QED
      BY <2>1, <2>2 DEF LuaInit, LuaTypeOK
  <1>3. Follows(events, dealt) /\ Follows(exposed, dealt + Len(events))
    BY FollowsEmpty DEF LuaInit
  <1>4. dealt + Len(events) + Len(exposed) = given /\ 1 .. dealt = {}
    BY <1>1 DEF LuaInit
  <1> QED
    BY <1>1, <1>2, <1>3, <1>4 DEF LuaInit, LuaInd

(* write() queues the next event. *)
LEMMA WriteInd == LuaInd /\ Write => LuaInd'
  <1> SUFFICES ASSUME LuaInd, Write PROVE LuaInd'
    OBVIOUS
  <1>1. given + 1 \in ScriptEvent /\ given \in Nat
    BY LuaAssumption DEF LuaInd, LuaTypeOK, Write, ScriptEvent
  <1>2. exposed \in Seq(ScriptEvent) /\ dealt + Len(events) \in Nat
        /\ given + 1 = dealt + Len(events) + Len(exposed) + 1
        /\ Follows(exposed, dealt + Len(events))
    BY LuaAssumption DEF LuaInd, LuaTypeOK, ScriptEvent, dealt
  <1>3. /\ exposed' = Append(exposed, given + 1)
        /\ exposed' \in Seq(ScriptEvent) /\ Len(exposed') = Len(exposed) + 1
        /\ Follows(exposed', dealt + Len(events))
    BY <1>1, <1>2, FollowsAppend DEF Write
  <1>4. dealt' = dealt /\ events' = events /\ given' = given + 1
    BY DEF Write, threadVars, dealt
  <1> QED
    BY <1>1, <1>2, <1>3, <1>4, LuaAssumption
    DEF LuaInd, LuaTypeOK, Write, threadVars, scriptVars, ScriptEvent, dealt

(* The other steps of the failover thread. *)
LEMMA CallerInd == LuaInd /\ (Flush \/ TakeAcks \/ Destruct \/ Join) => LuaInd'
  <1> SUFFICES ASSUME LuaInd, Flush \/ TakeAcks \/ Destruct \/ Join PROVE LuaInd'
    OBVIOUS
  <1>1. CASE Flush
    BY <1>1, LuaAssumption
    DEF LuaInd, LuaTypeOK, Flush, threadVars, scriptVars, dealt
  <1>2. CASE TakeAcks
    <2>1. /\ returned \in Nat /\ acksCount \in Nat /\ retval \in Nat /\ total \in Nat
          /\ retval <= acksCount /\ acksCount <= ScriptEvents
          /\ dealt + Len(events) + Len(exposed) = given /\ given <= ScriptEvents
          /\ given \in Nat /\ Len(events) \in Nat /\ Len(exposed) \in Nat
          /\ dealt = returned + acksCount + total
      BY LuaAssumption DEF LuaInd, LuaTypeOK, dealt
    <2>2. /\ returned' + acksCount' = returned + acksCount
          /\ returned' \in 0 .. ScriptEvents /\ acksCount' \in 0 .. ScriptEvents
          /\ dealt' = dealt
      BY <1>2, <2>1, LuaAssumption DEF TakeAcks, dealt, threadVars
    <2>3. /\ UNCHANGED <<exposed, events, flush, exit, hasFlush, given, tpc, total,
                          stack, settled>>
          /\ retval' = 0 /\ cpc' = "idle" /\ 0 <= acksCount'
      BY <1>2, <2>2 DEF TakeAcks, threadVars, scriptVars
    <2>4. retval' \in 0 .. ScriptEvents
      BY <2>3, LuaAssumption
    <2> QED
      BY <2>2, <2>3, <2>4
      DEF LuaInd, LuaTypeOK
  <1>3. CASE Destruct
    BY <1>3 DEF LuaInd, LuaTypeOK, Destruct, threadVars, scriptVars, dealt
  <1>4. CASE Join
    BY <1>4 DEF LuaInd, LuaTypeOK, Join, threadVars, scriptVars, dealt
  <1> QED
    BY <1>1, <1>2, <1>3, <1>4

(* The thread calls flush() of the script, which settles what the script   *)
(* has kept or nothing.                                                    *)
LEMMA CallFlushInd == ASSUME NEW done \in BOOLEAN, LuaInd, CallFlush(done) PROVE LuaInd'
  <1>1. /\ returned \in Nat /\ acksCount \in Nat /\ total \in Nat
        /\ dealt + Len(events) + Len(exposed) = given /\ given <= ScriptEvents
        /\ given \in Nat /\ Len(events) \in Nat /\ Len(exposed) \in Nat
    BY LuaAssumption DEF LuaInd, LuaTypeOK
  <1>2. /\ acksCount' = IF done THEN acksCount + total ELSE acksCount
        /\ total' = IF done THEN 0 ELSE total
        /\ returned' = returned
    BY DEF CallFlush, Acknowledge, callerVars
  <1>3. /\ dealt' = dealt /\ total' \in 0 .. ScriptEvents /\ acksCount' \in 0 .. ScriptEvents
        /\ acksCount <= acksCount' /\ acksCount' \in Nat
    BY <1>1, <1>2, LuaAssumption DEF dealt, LuaInd, LuaTypeOK
  <1>4. /\ settled' \union stack' = settled \union stack
        /\ settled \subseteq settled'
        /\ done => settled' = settled \union stack
        /\ settled' \subseteq ScriptEvent /\ stack' \subseteq ScriptEvent
    BY DEF CallFlush, LuaInd, LuaTypeOK
  <1>5. \A e \in 1 .. returned' + acksCount' : e \in settled'
    <2>1. CASE done
      <3>1. returned' + acksCount' = dealt
        BY <2>1, <1>1, <1>2 DEF dealt
      <3> QED
        BY <3>1, <2>1, <1>4 DEF LuaInd
    <2>2. CASE ~done
      BY <2>2, <1>2, <1>4 DEF LuaInd
    <2> QED
      BY <2>1, <2>2
  <1>6. \A e \in 1 .. dealt' : e \in settled' \union stack'
    BY <1>3, <1>4 DEF LuaInd
  <1>7. /\ UNCHANGED <<exposed, events, flush, exit, hasFlush, cpc, retval, given>>
        /\ tpc = "flush" /\ tpc' = "flushed"
    BY DEF CallFlush, callerVars
  <1>8. retval \in Nat /\ retval <= acksCount'
    BY <1>1, <1>3, LuaAssumption DEF LuaInd, LuaTypeOK
  <1> QED
    BY <1>2, <1>3, <1>4, <1>5, <1>6, <1>7, <1>8 DEF LuaInd, LuaTypeOK

(* The thread hands the script an event: it is settled, kept, or settled   *)
(* with all that was kept.                                                 *)
LEMMA HandleInd == ASSUME NEW what \in Outcome, LuaInd, Handle(what) PROVE LuaInd'
  <1>1. /\ returned \in Nat /\ acksCount \in Nat /\ total \in Nat
        /\ dealt + Len(events) + Len(exposed) = given /\ given <= ScriptEvents
        /\ given \in Nat /\ Len(events) \in Nat /\ Len(exposed) \in Nat /\ dealt \in Nat
        /\ events \in Seq(ScriptEvent) /\ Follows(events, dealt) /\ events # <<>>
    BY LuaAssumption DEF LuaInd, LuaTypeOK, Handle, dealt
  <1>2. /\ Head(events) = dealt + 1 /\ Head(events) \in ScriptEvent
        /\ Tail(events) \in Seq(ScriptEvent) /\ Len(Tail(events)) = Len(events) - 1
        /\ Follows(Tail(events), dealt + 1)
    BY <1>1, FollowsTail
  <1>3. /\ acksCount' = IF what = "send" THEN acksCount + total + 1 ELSE acksCount
        /\ total' = IF what = "send" THEN 0 ELSE total + 1
        /\ returned' = returned
    BY <1>1 DEF Handle, Acknowledge, callerVars
  <1>4. /\ dealt' = dealt + 1
        /\ total' \in 0 .. ScriptEvents /\ acksCount' \in 0 .. ScriptEvents
        /\ acksCount <= acksCount' /\ acksCount' \in Nat
    <2>1. Len(events) >= 1
      BY <1>1, <1>2
    <2> QED
      BY <2>1, <1>1, <1>3, LuaAssumption DEF dealt, LuaInd, LuaTypeOK
  <1>5. /\ settled' \union stack' = settled \union stack \union {Head(events)}
        /\ settled \subseteq settled'
        /\ what = "send" => settled' = settled \union stack \union {Head(events)}
        /\ settled' \subseteq ScriptEvent /\ stack' \subseteq ScriptEvent
    <2>1. CASE what = "send"
      BY <2>1, <1>2 DEF Handle, LuaInd, LuaTypeOK
    <2>2. CASE what = "keep"
      BY <2>2, <1>2 DEF Handle, LuaInd, LuaTypeOK
    <2>3. CASE what = "refuse"
      BY <2>3, <1>2 DEF Handle, LuaInd, LuaTypeOK
    <2> QED
      BY <2>1, <2>2, <2>3 DEF Outcome
  <1>6. \A e \in 1 .. dealt' : e \in settled' \union stack'
    <2> SUFFICES ASSUME NEW e \in 1 .. dealt' PROVE e \in settled' \union stack'
      OBVIOUS
    <2>1. e \in 1 .. dealt \/ e = Head(events)
      BY <1>1, <1>2, <1>4
    <2> QED
      BY <2>1, <1>5 DEF LuaInd
  <1>7. \A e \in 1 .. returned' + acksCount' : e \in settled'
    <2>1. CASE what = "send"
      <3>1. returned' + acksCount' = dealt'
        BY <2>1, <1>1, <1>3 DEF dealt
      <3> QED
        BY <3>1, <2>1, <1>5, <1>6
    <2>2. CASE what # "send"
      BY <2>2, <1>3, <1>5 DEF LuaInd
    <2> QED
      BY <2>1, <2>2
  <1>8. /\ UNCHANGED <<exposed, flush, exit, hasFlush, cpc, retval, given>>
        /\ tpc' = "flush" /\ tpc = "handle" /\ events' = Tail(events)
    BY DEF Handle, callerVars
  <1>9. /\ dealt' + Len(events') + Len(exposed') = given'
        /\ dealt' + Len(events') = dealt + Len(events)
        /\ Follows(events', dealt') /\ events' \in Seq(ScriptEvent)
    BY <1>1, <1>2, <1>4, <1>8
  <1>10. retval \in Nat /\ retval <= acksCount'
    BY <1>1, <1>4, LuaAssumption DEF LuaInd, LuaTypeOK
  <1> QED
    BY <1>3, <1>4, <1>5, <1>6, <1>7, <1>8, <1>9, <1>10 DEF LuaInd, LuaTypeOK

(* The thread takes the exposed queue when its own is empty. *)
LEMMA SwapInd == LuaInd /\ Swap => LuaInd'
  <1> SUFFICES ASSUME LuaInd, Swap PROVE LuaInd'
    OBVIOUS
  <1>1. /\ returned \in Nat /\ acksCount \in Nat /\ total \in Nat /\ dealt \in Nat
        /\ dealt + Len(events) + Len(exposed) = given
        /\ events \in Seq(ScriptEvent) /\ exposed \in Seq(ScriptEvent)
        /\ Follows(events, dealt) /\ Follows(exposed, dealt + Len(events))
    BY LuaAssumption DEF LuaInd, LuaTypeOK, dealt
  <1>2. /\ UNCHANGED <<total, acksCount, flush, exit, hasFlush, cpc, retval, given,
                       returned, stack, settled>>
        /\ dealt' = dealt /\ tpc = "swap" /\ tpc' = "handle"
    BY DEF Swap, callerVars, scriptVars, dealt
  <1>3. /\ events' \in Seq(ScriptEvent) /\ exposed' \in Seq(ScriptEvent)
        /\ dealt' + Len(events') + Len(exposed') = given'
        /\ Follows(events', dealt') /\ Follows(exposed', dealt' + Len(events'))
    <2>1. CASE events = <<>>
      <3>1. exposed' = <<>> /\ events' = exposed
        BY <2>1 DEF Swap
      <3>2. dealt + Len(events) = dealt
        BY <2>1, <1>1
      <3> QED
        BY <3>1, <3>2, <2>1, <1>1, <1>2, FollowsEmpty
    <2>2. CASE events # <<>>
      BY <2>2, <1>1, <1>2 DEF Swap
    <2> QED
      BY <2>1, <2>2
  <1> QED
    BY <1>2, <1>3 DEF LuaInd, LuaTypeOK

(* Any step of the thread of the script. *)
LEMMA ThreadInd == LuaInd /\ Thread => LuaInd'
  <1> SUFFICES ASSUME LuaInd, Thread PROVE LuaInd'
    OBVIOUS
  <1>1. CASE FlushDone
    BY <1>1 DEF LuaInd, LuaTypeOK, FlushDone, callerVars, scriptVars, dealt
  <1>2. CASE NoFlush
    BY <1>2 DEF LuaInd, LuaTypeOK, NoFlush, callerVars, scriptVars, dealt
  <1>3. CASE Leave
    BY <1>3 DEF LuaInd, LuaTypeOK, Leave, callerVars, scriptVars, dealt
  <1>4. CASE Wait
    BY <1>4 DEF LuaInd, LuaTypeOK, Wait, callerVars, scriptVars, dealt
  <1> QED
    BY <1>1, <1>2, <1>3, <1>4, SwapInd, CallFlushInd, HandleInd DEF Thread

(* The inductive invariant of the Lua stream holds in every reachable      *)
(* state, for any number of events.                                        *)
THEOREM LuaInductive == LuaSpec => []LuaInd
  <1>1. LuaInd /\ [LuaNext]_luaVars => LuaInd'
    <2> SUFFICES ASSUME LuaInd, [LuaNext]_luaVars PROVE LuaInd'
      OBVIOUS
    <2>1. CASE UNCHANGED luaVars
      BY <2>1 DEF luaVars, callerVars, threadVars, scriptVars, LuaInd, LuaTypeOK, dealt
    <2> QED
      BY <2>1, WriteInd, CallerInd, ThreadInd DEF LuaNext
  <1> QED
    BY <1>1, LuaInitInd, PTL DEF LuaSpec

(* The acknowledgements a Lua script gives are neither lost nor doubled    *)
(* between the two threads on their way to the muxer, and cover settled    *)
(* events only.                                                            *)
THEOREM LuaAcknowledges == LuaSpec => []LuaAcks
  <1>1. LuaInd => LuaAcks
    <2> SUFFICES ASSUME LuaInd PROVE LuaAcks
      OBVIOUS
    <2>1. /\ dealt \in Nat /\ Len(events) \in Nat /\ Len(exposed) \in Nat
          /\ dealt + Len(events) + Len(exposed) = given
      BY LuaAssumption DEF LuaInd, LuaTypeOK, dealt
    <2>2. dealt = handled
      BY <2>1 DEF handled
    <2> QED
      BY <2>2 DEF LuaInd, LuaAcks, dealt
  <1> QED
    BY <1>1, LuaInductive, PTL

-----------------------------------------------------------------------------
(***************************************************************************)
(* The rebuild of graphs, for any number of checks, rebuilds and mishaps:  *)
(* the invariant GraphKept of RrdGraphs.                                   *)
(*                                                                         *)
(* GraphKept only speaks of moments when nothing is on its way.  What it   *)
(* lacks to be inductive is what is on its way between them: the rows in   *)
(* the file, in the channel and still to be sent are, in this order, the   *)
(* first k checks; every later check that is not known to be missing is in *)
(* the list of the output or in the channel, where all before it are       *)
(* smaller, so that the file will take it; and exactly one end event       *)
(* follows when the rebuilder is through with the graph.                   *)
(***************************************************************************)
(* What is on its way to the output. *)
GraphEvent == [type : {"live", "row", "start", "end", "remove"}, graph : Graph, time : Nat]

(* Types; what is not queued is stored, and a check has the time of its    *)
(* number.                                                                 *)
GraphTypes ==
    /\ checks \in Nat /\ perfdata \in Seq(Nat) /\ Len(perfdata) <= checks
    /\ \A i \in 1 .. Len(perfdata) : perfdata[i] = checks - Len(perfdata) + i
    /\ dataBin = 1 .. checks - Len(perfdata)
    /\ rpc \in {"wait", "next", "start", "select", "rows", "done"} /\ graph \in Graph
    /\ rows \subseteq 1 .. checks /\ started \in 0 .. checks
    /\ missing \in [Graph -> SUBSET Nat] /\ spoiled \in [Graph -> BOOLEAN]
    /\ channel \in Seq(GraphEvent)
    /\ \A i \in 1 .. Len(channel) :
          channel[i].time <= checks /\ (channel[i].type = "live" => channel[i].time # 0)
    /\ held \in [Graph -> Seq(Nat)] /\ rrd \in [Graph -> SUBSET Nat]
    /\ \A g \in Graph : /\ \A i \in 1 .. Len(held[g]) : held[g][i] <= checks
                        /\ \A u \in rrd[g] : u <= checks

(* Event i is one of the given type for g; rows not sent yet; what the     *)
(* file has when the start event, at p, has been written (p = 0) or not;   *)
(* rows on their way.                                                      *)
Is(g, i, type) == channel[i].graph = g /\ channel[i].type = type
Pending(g) == IF rpc = "rows" /\ graph = g THEN rows ELSE {}
Base(g, p) == IF p = 0 THEN rrd[g] ELSE {}
RowsIn(g, p) == {channel[i].time : i \in {i \in p + 1 .. Len(channel) : Is(g, i, "row")}}

(* A check that will be written from the list, or from the channel: all    *)
(* before it are smaller.                                                  *)
Lists(g, i, t) == held[g][i] = t /\ \A j \in 1 .. i - 1 : held[g][j] < t
Carries(g, i, t) ==
    /\ Is(g, i, "live") /\ channel[i].time = t
    /\ \A j \in 1 .. i - 1 : Is(g, j, "live") => channel[j].time < t

(* A check that will be written behind the rows; one that will be written  *)
(* when there is no rebuild.                                               *)
Coming(g, p, t) ==
    \/ p = 0 /\ \E i \in 1 .. Len(held[g]) : Lists(g, i, t)
    \/ /\ \E i \in p + 1 .. Len(channel) : Carries(g, i, t)
       /\ \A j \in 1 .. Len(held[g]) : held[g][j] < t
Arrives(g, t) ==
    \/ t \in rrd[g]
    \/ /\ \E i \in 1 .. Len(channel) : Carries(g, i, t)
       /\ \A u \in rrd[g] : u < t

(* No rebuild of g is under way: the output will have all. *)
Plain(g) ==
    /\ held[g] = NoCache /\ ~ Rebuilding(g)
    /\ \A i \in 1 .. Len(channel) : channel[i].graph = g => channel[i].type = "live"
    /\ \A t \in 1 .. checks : t \in missing[g] \/ Arrives(g, t)

(* A rebuild is: its start event is at p, or was written, *)
Begun(g, p) ==
    /\ p = 0 => held[g] # NoCache
    /\ p > 0 => Is(g, p, "start")
    /\ \A i \in p + 1 .. Len(channel) :
          channel[i].graph = g => channel[i].type \in {"live", "row", "end"}

(* its end event is sent when the rebuilder is through with g, *)
EndsAt(g, p, e) ==
    /\ Is(g, e, "end")
    /\ \A i \in p + 1 .. Len(channel) : (Is(g, i, "end") => i = e) /\ (Is(g, i, "row") => i < e)
Closing(g, p) ==
    /\ Rebuilding(g) => \A i \in p + 1 .. Len(channel) : ~ Is(g, i, "end")
    /\ ~ Rebuilding(g) => \E e \in p + 1 .. Len(channel) : EndsAt(g, p, e)

(* its rows are written, sent and read in rising order, *)
Rising(g, p) ==
    /\ \A i \in p + 1 .. Len(channel) : Is(g, i, "row") =>
          /\ \A u \in Base(g, p) : u < channel[i].time
          /\ \A j \in p + 1 .. i - 1 : Is(g, j, "row") => channel[j].time < channel[i].time
          /\ \A u \in Pending(g) : channel[i].time < u
    /\ \A u \in Base(g, p) : \A v \in Pending(g) : u < v

(* they are the first k checks, and what comes later is on its way, *)
Complete(g, p, k) ==
    /\ Base(g, p) \union RowsIn(g, p) \union Pending(g) = 1 .. k
    /\ \A t \in k + 1 .. checks : t \in missing[g] \/ Coming(g, p, t)

(* or the history is not read yet. *)
Unread(g, p) ==
    /\ Base(g, p) = {} /\ RowsIn(g, p) = {}
    /\ \A t \in started + 1 .. checks : Coming(g, p, t)
Covered(g, p) ==
    /\ Rebuilding(g) /\ rpc = "select" => Unread(g, p)
    /\ ~ (Rebuilding(g) /\ rpc = "select") => \E k \in Nat : Complete(g, p, k)
Within(g, p) == Begun(g, p) /\ Closing(g, p) /\ Rising(g, p) /\ Covered(g, p)
GraphOK(g) == spoiled[g] \/ Plain(g) \/ \E p \in 0 .. Len(channel) : Within(g, p)

(* The inductive invariant. *)
GraphInd == GraphTypes /\ \A g \in Graph : GraphOK(g)

(* What it is to be a row on its way. *)
LEMMA RowsInIs ==
    ASSUME NEW g, NEW p, NEW u
    PROVE  u \in RowsIn(g, p) <=> \E i \in p + 1 .. Len(channel) : Is(g, i, "row") /\ u = channel[i].time
  BY DEF RowsIn

(* Only a rebuild that reads has rows still to send. *)
LEMMA PendingIs ==
    ASSUME NEW g
    PROVE  /\ ~ Rebuilding(g) => Pending(g) = {}
           /\ Rebuilding(g) /\ rpc = "rows" => Pending(g) = rows
           /\ Rebuilding(g) /\ rpc = "select" => Pending(g) = {}
  BY DEF Rebuilding, Pending

(* Events were added behind those that were there. *)
Grown(g) ==
    /\ Len(channel') \in Nat /\ Len(channel) <= Len(channel')
    /\ \A i \in 1 .. Len(channel) : channel'[i] = channel[i]
    /\ held'[g] = held[g]

(* What was on its way is so still. *)
LEMMA GrownIs ==
    ASSUME GraphTypes, NEW g \in Graph, Grown(g)
    PROVE  /\ \A i \in 1 .. Len(channel) : \A type : Is(g, i, type)' <=> Is(g, i, type)
           /\ \A i \in 1 .. Len(channel) : \A t : Carries(g, i, t) => Carries(g, i, t)'
<1>1. PICK n, m \in Nat : n = Len(channel) /\ m = Len(channel') /\ n <= m
  BY DEF GraphTypes, Grown
<1>2. \A i \in 1 .. n : channel'[i] = channel[i]
  BY <1>1 DEF Grown
<1>3. \A i \in 1 .. n : \A type : Is(g, i, type)' <=> Is(g, i, type)
  BY <1>2 DEF Is
<1>4. ASSUME NEW i \in 1 .. n, NEW t, Carries(g, i, t) PROVE Carries(g, i, t)'
  <2>1. \A j \in 1 .. i - 1 : j \in 1 .. n
    OBVIOUS
  <2> QED
    BY <1>2, <1>3, <1>4, <2>1 DEF Carries
<1> QED
  BY <1>1, <1>3, <1>4

(* What comes behind the start comes still, *)
LEMMA GrownComing ==
    ASSUME GraphTypes, NEW g \in Graph, Grown(g), NEW p \in Nat, NEW t, Coming(g, p, t)
    PROVE  Coming(g, p, t)'
<1>1. PICK n, m \in Nat : n = Len(channel) /\ m = Len(channel') /\ n <= m
  BY DEF GraphTypes, Grown
<1>2. held'[g] = held[g]
  BY DEF Grown
<1>3. CASE p = 0 /\ \E i \in 1 .. Len(held[g]) : Lists(g, i, t)
  BY <1>2, <1>3 DEF Coming, Lists
<1>4. CASE /\ \E i \in p + 1 .. Len(channel) : Carries(g, i, t)
           /\ \A j \in 1 .. Len(held[g]) : held[g][j] < t
  <2>1. PICK i \in p + 1 .. n : Carries(g, i, t)
    BY <1>1, <1>4
  <2>2. i \in 1 .. n /\ i \in p + 1 .. m
    BY <1>1
  <2>3. Carries(g, i, t)'
    BY <1>1, <2>1, <2>2, GrownIs
  <2> QED
    BY <1>1, <1>2, <1>4, <2>2, <2>3 DEF Coming
<1> QED
  BY <1>3, <1>4 DEF Coming

(* and so does what comes without a rebuild. *)
LEMMA GrownArrives ==
    ASSUME GraphTypes, NEW g \in Graph, Grown(g), rrd'[g] = rrd[g], NEW t, Arrives(g, t)
    PROVE  Arrives(g, t)'
<1>1. PICK n, m \in Nat : n = Len(channel) /\ m = Len(channel') /\ n <= m
  BY DEF GraphTypes, Grown
<1>2. CASE t \in rrd[g]
  BY <1>2 DEF Arrives
<1>3. CASE /\ \E i \in 1 .. Len(channel) : Carries(g, i, t)
           /\ \A u \in rrd[g] : u < t
  <2>1. PICK i \in 1 .. n : Carries(g, i, t)
    BY <1>1, <1>3
  <2>2. i \in 1 .. m
    BY <1>1
  <2>3. Carries(g, i, t)'
    BY <1>1, <2>1, GrownIs
  <2> QED
    BY <1>1, <1>3, <2>2, <2>3 DEF Arrives
<1> QED
  BY <1>2, <1>3 DEF Arrives

(* Those that are added for g are checks, every new one among them. *)
More(g) ==
    /\ Grown(g) /\ rrd'[g] = rrd[g] /\ missing'[g] = missing[g]
    /\ checks' \in Nat /\ checks <= checks'
    /\ \A i \in Len(channel) + 1 .. Len(channel') : channel'[i].graph = g => channel'[i].type = "live"
    /\ \A t \in checks + 1 .. checks' :
          \E i \in Len(channel) + 1 .. Len(channel') : Carries(g, i, t)'

(* A rebuild of g goes on, or none does. *)
Steady(g) ==
    /\ Rebuilding(g)' <=> Rebuilding(g)
    /\ Rebuilding(g) => rpc' = rpc /\ rows' = rows /\ started' = started

(* New checks are written like the others, *)
LEMMA MorePlain ==
    ASSUME GraphTypes, NEW g \in Graph, More(g), Steady(g), Plain(g) PROVE Plain(g)'
<1>1. PICK n, m \in Nat : n = Len(channel) /\ m = Len(channel') /\ n <= m
  BY DEF GraphTypes, More, Grown
<1>2. /\ held'[g] = NoCache /\ ~ Rebuilding(g)' /\ Grown(g) /\ rrd'[g] = rrd[g]
      /\ missing'[g] = missing[g]
  BY DEF More, Grown, Steady, Plain
<1>3. ASSUME NEW i \in 1 .. m, channel'[i].graph = g PROVE channel'[i].type = "live"
  <2>1. CASE i \in 1 .. n
    BY <1>1, <1>3, <2>1 DEF More, Grown, Plain
  <2>2. CASE i \in n + 1 .. m
    BY <1>1, <1>3, <2>2 DEF More
  <2> QED
    BY <1>1, <2>1, <2>2
<1>4. ASSUME NEW t \in 1 .. checks', t \notin missing[g] PROVE Arrives(g, t)'
  <2>1. checks \in Nat /\ checks' \in Nat
    BY DEF GraphTypes, More
  <2>2. CASE t \in 1 .. checks
    <3>1. Arrives(g, t)
      BY <1>4, <2>2 DEF Plain
    <3> QED
      BY <1>2, <3>1, GrownArrives
  <2>3. CASE t \in checks + 1 .. checks'
    <3>1. PICK i \in n + 1 .. m : Carries(g, i, t)'
      BY <1>1, <2>3 DEF More
    <3>2. i \in 1 .. m
      BY <1>1
    <3>3. \A u \in rrd'[g] : u < t
      BY <1>2, <2>1, <2>3 DEF GraphTypes
    <3> QED
      BY <1>1, <3>1, <3>2, <3>3 DEF Arrives
  <2> QED
    BY <2>1, <2>2, <2>3
<1> QED
  BY <1>1, <1>2, <1>3, <1>4 DEF Plain

(* in a rebuild as well, where they come behind the rows or in the list. *)
LEMMA MoreWithin ==
    ASSUME GraphTypes, NEW g \in Graph, More(g), Steady(g),
           NEW p \in 0 .. Len(channel), Within(g, p)
    PROVE  Within(g, p)'
<1>1. PICK n, m \in Nat : n = Len(channel) /\ m = Len(channel') /\ n <= m
  BY DEF GraphTypes, More, Grown
<1>2. /\ Grown(g) /\ rrd'[g] = rrd[g] /\ missing'[g] = missing[g] /\ held'[g] = held[g]
      /\ \A i \in 1 .. n : channel'[i] = channel[i]
      /\ \A i \in n + 1 .. m : channel'[i].graph = g => channel'[i].type = "live"
  BY <1>1 DEF More, Grown
<1>3. Begun(g, p) /\ Closing(g, p) /\ Rising(g, p) /\ Covered(g, p)
  BY DEF Within
<1>4. \A i \in 1 .. n : \A type : Is(g, i, type)' <=> Is(g, i, type)
  BY <1>1, <1>2, GrownIs
<1>5. \A i \in n + 1 .. m : ~ Is(g, i, "row")' /\ ~ Is(g, i, "end")'
  BY <1>2 DEF Is
<1>6. p \in 0 .. n /\ p \in Nat
  BY <1>1
<1>7. \A i \in p + 1 .. m : i \in 1 .. n \/ i \in n + 1 .. m
  BY <1>6
<1>8. \A i \in p + 1 .. n : i \in 1 .. n /\ i \in p + 1 .. m
  BY <1>1, <1>6
<1>9. \A i \in p + 1 .. m : Is(g, i, "row")' \/ Is(g, i, "end")' => i \in p + 1 .. n /\ i \in 1 .. n
  BY <1>5, <1>6, <1>7
<1>10. Base(g, p)' = Base(g, p) /\ Pending(g)' = Pending(g)
  <2>1. Base(g, p)' = Base(g, p)
    BY <1>2 DEF Base
  <2>2. Pending(g)' = Pending(g)
    BY DEF Steady, Pending, Rebuilding
  <2> QED
    BY <2>1, <2>2
<1>11. Begun(g, p)'
  <2>1. ASSUME NEW i \in p + 1 .. m, channel'[i].graph = g
        PROVE  channel'[i].type \in {"live", "row", "end"}
    <3>1. CASE i \in 1 .. n
      <4>1. i \in p + 1 .. n
        BY <1>6, <3>1
      <4> QED
        BY <1>1, <1>2, <1>3, <2>1, <3>1, <4>1 DEF Begun
    <3>2. CASE i \in n + 1 .. m
      BY <1>2, <2>1, <3>2
    <3> QED
      BY <1>7, <3>1, <3>2
  <2>2. p > 0 => Is(g, p, "start")'
    BY <1>3, <1>4, <1>6 DEF Begun
  <2>3. p = 0 => held'[g] # NoCache
    BY <1>2, <1>3 DEF Begun
  <2> QED
    BY <1>1, <2>1, <2>2, <2>3 DEF Begun
<1>12. Closing(g, p)'
  <2>1. CASE Rebuilding(g)
    <3>1. \A i \in p + 1 .. m : ~ Is(g, i, "end")'
      BY <1>1, <1>3, <1>4, <1>9, <2>1 DEF Closing
    <3> QED
      BY <1>1, <2>1, <3>1 DEF Closing, Steady
  <2>2. CASE ~ Rebuilding(g)
    <3>1. PICK e \in p + 1 .. n : EndsAt(g, p, e)
      BY <1>1, <1>3, <2>2 DEF Closing
    <3>2. e \in p + 1 .. m /\ e \in 1 .. n
      BY <1>8
    <3>3. Is(g, e, "end")'
      BY <1>4, <3>1, <3>2 DEF EndsAt
    <3>4. \A i \in p + 1 .. m : (Is(g, i, "end")' => i = e) /\ (Is(g, i, "row")' => i < e)
      BY <1>1, <1>4, <1>9, <3>1 DEF EndsAt
    <3>5. EndsAt(g, p, e)'
      BY <1>1, <3>3, <3>4 DEF EndsAt
    <3> QED
      BY <1>1, <2>2, <3>2, <3>5 DEF Closing, Steady
  <2> QED
    BY <2>1, <2>2
<1>13. Rising(g, p)'
  <2>1. ASSUME NEW i \in p + 1 .. m, Is(g, i, "row")'
        PROVE  /\ \A u \in Base(g, p) : u < channel'[i].time
               /\ \A j \in p + 1 .. i - 1 : Is(g, j, "row")' => channel'[j].time < channel'[i].time
               /\ \A u \in Pending(g) : channel'[i].time < u
    <3>1. i \in p + 1 .. n /\ i \in 1 .. n /\ channel'[i] = channel[i]
      BY <1>2, <1>9, <2>1
    <3>2. Is(g, i, "row")
      BY <1>4, <2>1, <3>1
    <3>3. \A j \in p + 1 .. i - 1 : j \in 1 .. n
      BY <1>6, <3>1
    <3>4. /\ \A u \in Base(g, p) : u < channel[i].time
          /\ \A j \in p + 1 .. i - 1 : Is(g, j, "row") => channel[j].time < channel[i].time
          /\ \A u \in Pending(g) : channel[i].time < u
      BY <1>1, <1>3, <3>1, <3>2 DEF Rising
    <3> QED
      BY <1>2, <1>4, <3>1, <3>3, <3>4
  <2>2. \A u \in Base(g, p) : \A v \in Pending(g) : u < v
    BY <1>3 DEF Rising
  <2> QED
    BY <1>1, <1>10, <2>1, <2>2 DEF Rising
<1>14. RowsIn(g, p)' = RowsIn(g, p)
  <2>1. \A u : u \in RowsIn(g, p)' <=> \E i \in p + 1 .. m : Is(g, i, "row")' /\ u = channel'[i].time
    BY <1>1 DEF RowsIn
  <2>2. \A u : u \in RowsIn(g, p) <=> \E i \in p + 1 .. n : Is(g, i, "row") /\ u = channel[i].time
    BY <1>1, RowsInIs
  <2>3. ASSUME NEW u \in RowsIn(g, p)' PROVE u \in RowsIn(g, p)
    BY <1>2, <1>4, <1>9, <2>1, <2>2
  <2>4. ASSUME NEW u \in RowsIn(g, p) PROVE u \in RowsIn(g, p)'
    BY <1>2, <1>4, <1>8, <2>1, <2>2
  <2> QED
    BY <2>3, <2>4
<1>15. \A t : Coming(g, p, t) => Coming(g, p, t)'
  BY <1>2, <1>6, GrownComing
<1>16. ASSUME NEW t \in checks + 1 .. checks' PROVE Coming(g, p, t)'
  <2>1. PICK i \in n + 1 .. m : Carries(g, i, t)'
    BY <1>1 DEF More
  <2>2. i \in p + 1 .. m
    BY <1>6
  <2>3. \A j \in 1 .. Len(held'[g]) : held'[g][j] < t
    <3>1. PICK h \in Seq(Nat) : h = held[g]
      BY DEF GraphTypes
    <3>2. checks \in Nat /\ \A j \in 1 .. Len(h) : h[j] <= checks
      BY <3>1 DEF GraphTypes
    <3>3. \A j \in 1 .. Len(h) : h[j] \in Nat
      BY <3>1
    <3>4. checks < t /\ t \in Nat
      BY <3>2
    <3> QED
      BY <1>2, <3>1, <3>2, <3>3, <3>4
  <2> QED
    BY <1>1, <2>1, <2>2, <2>3 DEF Coming
<1>17. checks \in Nat /\ checks' \in Nat /\ checks <= checks' /\ started \in Nat
  BY DEF GraphTypes, More
<1>18. Covered(g, p)'
  <2>1. CASE Rebuilding(g) /\ rpc = "select"
    <3>1. Unread(g, p) /\ started' = started /\ rpc' = "select" /\ Rebuilding(g)'
      BY <1>3, <2>1 DEF Covered, Steady
    <3>2. ASSUME NEW t \in started + 1 .. checks' PROVE Coming(g, p, t)'
      <4>1. t \in started + 1 .. checks \/ t \in checks + 1 .. checks'
        BY <1>17
      <4> QED
        BY <1>15, <1>16, <3>1, <4>1 DEF Unread
    <3>3. Unread(g, p)'
      BY <1>10, <1>14, <3>1, <3>2 DEF Unread
    <3> QED
      BY <3>1, <3>3 DEF Covered
  <2>2. CASE ~ (Rebuilding(g) /\ rpc = "select")
    <3>1. PICK k \in Nat : Complete(g, p, k)
      BY <1>3, <2>2 DEF Covered
    <3>2. ASSUME NEW t \in k + 1 .. checks', t \notin missing[g] PROVE Coming(g, p, t)'
      <4>1. t \in k + 1 .. checks \/ t \in checks + 1 .. checks'
        BY <1>17
      <4> QED
        BY <1>15, <1>16, <3>1, <3>2, <4>1 DEF Complete
    <3>3. Complete(g, p, k)'
      BY <1>2, <1>10, <1>14, <3>1, <3>2 DEF Complete
    <3>4. ~ (Rebuilding(g)' /\ rpc' = "select")
      BY <2>2 DEF Steady
    <3> QED
      BY <3>3, <3>4 DEF Covered
  <2> QED
    BY <2>1, <2>2
<1> QED
  BY <1>11, <1>12, <1>13, <1>18 DEF Within

(* Publishing checks keeps what holds of a graph. *)
LEMMA MoreOK ==
    ASSUME GraphTypes, NEW g \in Graph, GraphOK(g), More(g),
           spoiled'[g] \/ (Steady(g) /\ spoiled'[g] = spoiled[g])
    PROVE  GraphOK(g)'
<1>1. CASE spoiled'[g]
  BY <1>1 DEF GraphOK
<1>2. CASE Plain(g) /\ Steady(g)
  BY <1>2, MorePlain DEF GraphOK
<1>3. ASSUME NEW p \in 0 .. Len(channel), Within(g, p), Steady(g) PROVE GraphOK(g)'
  <2>1. Within(g, p)'
    BY <1>3, MoreWithin
  <2>2. p \in 0 .. Len(channel')
    <3>1. Len(channel) \in Nat /\ Len(channel') \in Nat /\ Len(channel) <= Len(channel')
      BY DEF GraphTypes, More, Grown
    <3> QED
      BY <3>1
  <2> QED
    BY <2>1, <2>2 DEF GraphOK
<1> QED
  BY <1>1, <1>2, <1>3 DEF GraphOK

(* One more event. *)
LEMMA OneMore ==
    ASSUME GraphTypes, NEW e \in GraphEvent, channel' = Append(channel, e)
    PROVE  /\ channel' \in Seq(GraphEvent) /\ Len(channel) \in Nat
           /\ Len(channel') = Len(channel) + 1
           /\ \A i \in 1 .. Len(channel) : channel'[i] = channel[i]
           /\ channel'[Len(channel) + 1] = e
           /\ \A g \in Graph : held'[g] = held[g] => Grown(g)
<1>1. /\ channel' \in Seq(GraphEvent) /\ Len(channel) \in Nat
      /\ Len(channel') = Len(channel) + 1
      /\ \A i \in 1 .. Len(channel) : channel'[i] = channel[i]
      /\ channel'[Len(channel) + 1] = e
  BY ToSetAppend DEF GraphTypes
<1>2. Len(channel') \in Nat /\ Len(channel) <= Len(channel')
  BY <1>1
<1> QED
  BY <1>1, <1>2 DEF Grown

(* An event of the other graph. *)
LEMMA OtherMore ==
    ASSUME GraphTypes, NEW e \in GraphEvent, channel' = Append(channel, e),
           NEW g \in Graph, e.graph # g \/ e.type = "live",
           checks' = checks, held' = held, rrd' = rrd, missing'[g] = missing[g]
    PROVE  More(g)
<1>1. PICK n \in Nat : n = Len(channel) /\ Len(channel') = n + 1 /\ channel'[n + 1] = e
  BY OneMore
<1>2. Grown(g)
  BY OneMore
<1>3. \A i \in n + 1 .. n + 1 : i = n + 1
  OBVIOUS
<1>4. checks \in Nat /\ checks <= checks /\ checks + 1 .. checks = {}
  BY DEF GraphTypes
<1> QED
  BY <1>1, <1>2, <1>3, <1>4 DEF More

(* Nothing new for the output. *)
LEMMA NoneMore ==
    ASSUME GraphTypes, NEW g \in Graph,
           UNCHANGED <<channel, checks>>, held'[g] = held[g], rrd'[g] = rrd[g],
           missing'[g] = missing[g]
    PROVE  More(g)
<1>1. Len(channel) \in Nat /\ checks \in Nat
  BY DEF GraphTypes
<1>2. /\ Len(channel) + 1 .. Len(channel) = {} /\ checks + 1 .. checks = {}
      /\ Len(channel) <= Len(channel) /\ checks <= checks
  BY <1>1
<1> QED
  BY <1>1, <1>2 DEF More, Grown

(* The events that are published: *)
LEMMA OrderIs ==
    ASSUME NEW g \in Graph, NEW type \in {"start", "end", "remove"}
    PROVE  /\ Order(type, g) \in GraphEvent /\ Order(type, g).graph = g /\ Order(type, g).type = type
           /\ Order(type, g).time = 0
  BY DEF Order, GraphEvent

(* a row, *)
LEMMA StoredIs ==
    ASSUME NEW g \in Graph, NEW t \in Nat
    PROVE  /\ Stored(g, t) \in GraphEvent /\ Stored(g, t).graph = g /\ Stored(g, t).type = "row"
           /\ Stored(g, t).time = t
  BY DEF Stored, GraphEvent

(* and a check. *)
LEMMA CheckedIs ==
    ASSUME NEW g \in Graph, NEW t \in Nat
    PROVE  /\ Checked(g, t) \in GraphEvent /\ Checked(g, t).graph = g /\ Checked(g, t).type = "live"
           /\ Checked(g, t).time = t
  BY DEF Checked, GraphEvent

(* A start event begins: all checks are published. *)
LEMMA StartOK ==
    ASSUME GraphTypes, NEW g \in Graph, g = graph, SendRebuildStart PROVE GraphOK(g)'
<1>2. /\ rpc = "start" /\ channel' = Append(channel, Order("start", g)) /\ started' = checks
      /\ rpc' = "select" /\ graph' = graph /\ checks' = checks
  BY DEF SendRebuildStart, PublishGraph, Proceed
<1>3. PICK n \in Nat : n = Len(channel) /\ Len(channel') = n + 1
                       /\ channel'[n + 1] = Order("start", g)
  BY <1>2, OneMore, OrderIs
<1>4. PICK p \in Nat : p = n + 1
  OBVIOUS
<1>5. /\ p # 0 /\ p > 0 /\ p + 1 .. n + 1 = {} /\ p \in 0 .. n + 1
  BY <1>4
<1>6. Rebuilding(g)' /\ rpc' = "select"
  BY <1>2 DEF Rebuilding
<1>7. Begun(g, p)'
  BY <1>3, <1>4, <1>5, OrderIs DEF Begun, Is
<1>8. Closing(g, p)'
  BY <1>3, <1>5, <1>6 DEF Closing
<1>9. Base(g, p)' = {} /\ Pending(g)' = {} /\ RowsIn(g, p)' = {}
  BY <1>2, <1>3, <1>5 DEF Base, Pending, RowsIn
<1>10. Rising(g, p)'
  BY <1>3, <1>5, <1>9 DEF Rising
<1>11. Covered(g, p)'
  <2>1. started' + 1 .. checks' = {}
    BY <1>2 DEF GraphTypes
  <2> QED
    BY <1>6, <1>9, <2>1 DEF Covered, Unread
<1>12. Within(g, p)'
  BY <1>7, <1>8, <1>10, <1>11 DEF Within
<1> QED
  BY <1>3, <1>5, <1>12 DEF GraphOK

(* What the rows, the channel and the list have does not change. *)
LEMMA SelectOK ==
    ASSUME GraphTypes, NEW g \in Graph, g = graph, GraphOK(g), SelectData PROVE GraphOK(g)'
<1>1. /\ rpc = "select" /\ rows' = dataBin
      /\ missing' = [missing EXCEPT ![g] = (1 .. started) \ dataBin]
      /\ rpc' = "rows"
      /\ UNCHANGED <<graph, channel, spoiled, checks, held, rrd>>
  BY DEF SelectData, Proceed
<1>2. Rebuilding(g) /\ Rebuilding(g)'
  BY <1>1 DEF Rebuilding
<1>3. CASE spoiled[g]
  BY <1>1, <1>3 DEF GraphOK
<1>4. ASSUME NEW p \in 0 .. Len(channel), Within(g, p) PROVE Within(g, p)'
  <2>1. /\ Begun(g, p) /\ Closing(g, p) /\ Unread(g, p)
    BY <1>1, <1>2, <1>4 DEF Within, Covered
  <2>2. Begun(g, p)'
    BY <1>1, <2>1 DEF Begun, Is
  <2>3. Closing(g, p)'
    BY <1>1, <1>2, <2>1 DEF Closing, Is
  <2>4. Base(g, p)' = {} /\ RowsIn(g, p)' = {}
    BY <1>1, <2>1 DEF Unread, Base, RowsIn, Is
  <2>5. Pending(g)' = dataBin
    BY <1>1, <1>2 DEF Pending
  <2>6. \A i \in p + 1 .. Len(channel) : ~ Is(g, i, "row")'
    BY <1>1, <2>4 DEF RowsIn, Is
  <2>7. Rising(g, p)'
    BY <1>1, <2>4, <2>6 DEF Rising
  <2>8. PICK k \in Nat : k = checks - Len(perfdata) /\ dataBin = 1 .. k
    <3>1. Len(perfdata) \in Nat /\ checks \in Nat /\ Len(perfdata) <= checks
      BY DEF GraphTypes
    <3> QED
      BY <3>1 DEF GraphTypes
  <2>9. ASSUME NEW t \in k + 1 .. checks, t \notin missing'[g] PROVE Coming(g, p, t)'
    <3>1. missing'[g] = (1 .. started) \ (1 .. k)
      BY <1>1, <2>8 DEF GraphTypes
    <3>2. checks \in Nat /\ started \in Nat
      BY DEF GraphTypes
    <3>3. t \in started + 1 .. checks
      BY <2>8, <2>9, <3>1, <3>2
    <3>4. Coming(g, p, t)
      BY <2>1, <3>3 DEF Unread
    <3> QED
      BY <1>1, <3>4 DEF Coming, Lists, Carries, Is
  <2>10. Complete(g, p, k)'
    BY <1>1, <2>4, <2>5, <2>8, <2>9 DEF Complete
  <2>11. Covered(g, p)'
    BY <1>1, <2>10 DEF Covered
  <2> QED
    BY <2>2, <2>3, <2>7, <2>11 DEF Within
<1> QED
  BY <1>1, <1>2, <1>3, <1>4 DEF GraphOK, Plain

(* The rows are sent by their time. *)
LEMMA RowOK ==
    ASSUME GraphTypes, NEW g \in Graph, g = graph, GraphOK(g), SendRow PROVE GraphOK(g)'
<1>1. PICK t \in rows :
          /\ \A u \in rows : t <= u
          /\ channel' = Append(channel, Stored(g, t)) /\ rows' = rows \ {t}
          /\ rpc = "rows" /\ rpc' = "rows"
          /\ UNCHANGED <<graph, spoiled, missing, checks, held, rrd, started>>
  BY DEF SendRow, PublishGraph, Proceed, historyVars
<1>2. rows \subseteq Nat /\ t \in Nat
  BY DEF GraphTypes
<1>3. PICK n \in Nat : /\ n = Len(channel) /\ Len(channel') = n + 1
                       /\ channel'[n + 1] = Stored(g, t)
                       /\ \A i \in 1 .. n : channel'[i] = channel[i]
  BY <1>1, <1>2, OneMore, StoredIs
<1>4. Grown(g)
  BY <1>1, <1>2, OneMore, StoredIs
<1>5. Rebuilding(g) /\ Rebuilding(g)' /\ Pending(g) = rows /\ Pending(g)' = rows \ {t}
  BY <1>1 DEF Rebuilding, Pending
<1>6. channel'[n + 1].time = t /\ Is(g, n + 1, "row")' /\ ~ Is(g, n + 1, "end")'
  BY <1>2, <1>3, StoredIs DEF Is
<1>7. \A i \in 1 .. n : \A type : Is(g, i, type)' <=> Is(g, i, type)
  BY <1>3, <1>4, GrownIs
<1>8. CASE spoiled[g]
  BY <1>1, <1>8 DEF GraphOK
<1>9. ASSUME NEW p \in 0 .. n, Within(g, p) PROVE Within(g, p)'
  <2>1. Begun(g, p) /\ Closing(g, p) /\ Rising(g, p) /\ \E k \in Nat : Complete(g, p, k)
    BY <1>1, <1>9 DEF Within, Covered
  <2>2. \A i \in p + 1 .. n + 1 : i = n + 1 \/ (i \in p + 1 .. n /\ i \in 1 .. n)
    OBVIOUS
  <2>3. \A i \in p + 1 .. n : i \in p + 1 .. n + 1 /\ i \in 1 .. n
    OBVIOUS
  <2>4. Begun(g, p)'
    <3>1. p > 0 => Is(g, p, "start")'
      BY <1>7, <2>1 DEF Begun
    <3>2. \A i \in p + 1 .. n + 1 : channel'[i].graph = g => channel'[i].type \in {"live", "row", "end"}
      BY <1>3, <1>6, <2>1, <2>2 DEF Begun, Is
    <3> QED
      BY <1>1, <1>3, <2>1, <3>1, <3>2 DEF Begun
  <2>5. Closing(g, p)'
    <3>1. \A i \in p + 1 .. n + 1 : ~ Is(g, i, "end")'
      BY <1>3, <1>5, <1>6, <1>7, <2>1, <2>2 DEF Closing
    <3> QED
      BY <1>3, <1>5, <3>1 DEF Closing
  <2>6. Base(g, p)' = Base(g, p)
    BY <1>1 DEF Base
  <2>7. ASSUME NEW i \in p + 1 .. n + 1, Is(g, i, "row")'
        PROVE  /\ \A u \in Base(g, p) : u < channel'[i].time
               /\ \A j \in p + 1 .. i - 1 : Is(g, j, "row")' => channel'[j].time < channel'[i].time
               /\ \A u \in rows \ {t} : channel'[i].time < u
    <3>1. CASE i = n + 1
      <4>1. \A u \in Base(g, p) : u < t
        BY <1>5, <2>1 DEF Rising
      <4>2. ASSUME NEW j \in p + 1 .. n, Is(g, j, "row")' PROVE channel'[j].time < t
        <5>1. j \in 1 .. n /\ Is(g, j, "row") /\ channel'[j] = channel[j]
          BY <1>3, <1>7, <2>3, <4>2
        <5> QED
          BY <1>3, <1>5, <2>1, <5>1 DEF Rising
      <4>3. \A u \in rows \ {t} : t < u
        BY <1>1, <1>2
      <4>4. i - 1 = n
        BY <3>1
      <4> QED
        BY <1>6, <3>1, <4>1, <4>2, <4>3, <4>4
    <3>2. CASE i \in p + 1 .. n /\ i \in 1 .. n
      <4>1. Is(g, i, "row") /\ channel'[i] = channel[i]
        BY <1>3, <1>7, <2>7, <3>2
      <4>2. /\ \A u \in Base(g, p) : u < channel[i].time
            /\ \A j \in p + 1 .. i - 1 : Is(g, j, "row") => channel[j].time < channel[i].time
            /\ \A u \in rows : channel[i].time < u
        BY <1>3, <1>5, <2>1, <3>2, <4>1 DEF Rising
      <4>3. \A j \in p + 1 .. i - 1 : j \in 1 .. n
        BY <3>2
      <4> QED
        BY <1>3, <1>7, <4>1, <4>2, <4>3
    <3> QED
      BY <2>2, <3>1, <3>2
  <2>8. Rising(g, p)'
    <3>1. \A u \in Base(g, p) : \A v \in rows \ {t} : u < v
      BY <1>5, <2>1 DEF Rising
    <3> QED
      BY <1>3, <1>5, <2>6, <2>7, <3>1 DEF Rising
  <2>9. PICK k \in Nat : Complete(g, p, k)
    BY <2>1
  <2>10. RowsIn(g, p)' = RowsIn(g, p) \union {t}
    <3>1. \A u : u \in RowsIn(g, p)' <=> \E i \in p + 1 .. n + 1 : Is(g, i, "row")' /\ u = channel'[i].time
      BY <1>3 DEF RowsIn
    <3>2. \A u : u \in RowsIn(g, p) <=> \E i \in p + 1 .. n : Is(g, i, "row") /\ u = channel[i].time
      BY <1>3, RowsInIs
    <3>3. ASSUME NEW u \in RowsIn(g, p)' PROVE u \in RowsIn(g, p) \union {t}
      BY <1>3, <1>6, <1>7, <2>2, <3>1, <3>2
    <3>4. ASSUME NEW u \in RowsIn(g, p) PROVE u \in RowsIn(g, p)'
      BY <1>3, <1>7, <2>3, <3>1, <3>2
    <3>5. t \in RowsIn(g, p)'
      <4>1. n + 1 \in p + 1 .. n + 1
        OBVIOUS
      <4> QED
        BY <1>6, <3>1, <4>1
    <3> QED
      BY <3>3, <3>4, <3>5
  <2>11. \A v \in k + 1 .. checks : v \in missing[g] \/ Coming(g, p, v)'
    <3>1. p \in Nat
      OBVIOUS
    <3> QED
      BY <1>4, <2>9, <3>1, GrownComing DEF Complete
  <2>12. Complete(g, p, k)'
    BY <1>1, <1>5, <2>6, <2>9, <2>10, <2>11 DEF Complete
  <2>13. Covered(g, p)'
    BY <1>1, <2>12 DEF Covered
  <2> QED
    BY <2>4, <2>5, <2>8, <2>13 DEF Within
<1>10. \A p \in 0 .. n : p \in 0 .. n + 1
  OBVIOUS
<1> QED
  BY <1>1, <1>3, <1>5, <1>8, <1>9, <1>10 DEF GraphOK, Plain

(* The end event is sent: the rows are complete. *)
LEMMA EndOK ==
    ASSUME GraphTypes, NEW g \in Graph, g = graph, GraphOK(g), SendRebuildEnd PROVE GraphOK(g)'
<1>1. /\ rpc = "rows" /\ rows = {} /\ channel' = Append(channel, Order("end", g))
      /\ UNCHANGED <<spoiled, missing, checks, held, rrd, started>>
      /\ \/ graph' = "status" /\ g = "metric" /\ rpc' = "start"
         \/ graph' = "metric" /\ g # "metric" /\ rpc' = "done"
  BY DEF SendRebuildEnd, PublishGraph, Proceed, historyVars
<1>2. PICK n \in Nat : /\ n = Len(channel) /\ Len(channel') = n + 1
                       /\ channel'[n + 1] = Order("end", g)
                       /\ \A i \in 1 .. n : channel'[i] = channel[i]
  BY <1>1, OneMore, OrderIs
<1>3. Grown(g)
  BY <1>1, OneMore, OrderIs
<1>4. Rebuilding(g) /\ ~ Rebuilding(g)' /\ Pending(g) = {} /\ Pending(g)' = {}
  BY <1>1 DEF Rebuilding, Pending
<1>5. ~ Is(g, n + 1, "row")' /\ Is(g, n + 1, "end")'
  BY <1>2, OrderIs DEF Is
<1>6. \A i \in 1 .. n : \A type : Is(g, i, type)' <=> Is(g, i, type)
  BY <1>2, <1>3, GrownIs
<1>7. CASE spoiled[g]
  BY <1>1, <1>7 DEF GraphOK
<1>8. ASSUME NEW p \in 0 .. n, Within(g, p) PROVE Within(g, p)'
  <2>1. Begun(g, p) /\ Closing(g, p) /\ Rising(g, p) /\ \E k \in Nat : Complete(g, p, k)
    BY <1>1, <1>8 DEF Within, Covered
  <2>2. \A i \in p + 1 .. n + 1 : i = n + 1 \/ (i \in p + 1 .. n /\ i \in 1 .. n)
    OBVIOUS
  <2>3. \A i \in p + 1 .. n : i \in p + 1 .. n + 1 /\ i \in 1 .. n /\ i < n + 1
    OBVIOUS
  <2>4. Begun(g, p)'
    <3>1. p > 0 => Is(g, p, "start")'
      BY <1>6, <2>1 DEF Begun
    <3>2. \A i \in p + 1 .. n + 1 : channel'[i].graph = g => channel'[i].type \in {"live", "row", "end"}
      BY <1>2, <1>5, <2>1, <2>2 DEF Begun, Is
    <3> QED
      BY <1>1, <1>2, <2>1, <3>1, <3>2 DEF Begun
  <2>5. Closing(g, p)'
    <3>1. \A i \in p + 1 .. n : ~ Is(g, i, "end")'
      BY <1>2, <1>4, <1>6, <2>1, <2>3 DEF Closing
    <3>2. n + 1 \in p + 1 .. n + 1
      OBVIOUS
    <3>3. \A i \in p + 1 .. n + 1 : (Is(g, i, "end")' => i = n + 1) /\ (Is(g, i, "row")' => i < n + 1)
      BY <1>5, <2>2, <2>3, <3>1
    <3>4. EndsAt(g, p, n + 1)'
      BY <1>2, <1>5, <3>3 DEF EndsAt
    <3> QED
      BY <1>2, <1>4, <3>2, <3>4 DEF Closing
  <2>6. Base(g, p)' = Base(g, p)
    BY <1>1 DEF Base
  <2>7. ASSUME NEW i \in p + 1 .. n + 1, Is(g, i, "row")'
        PROVE  /\ \A u \in Base(g, p) : u < channel'[i].time
               /\ \A j \in p + 1 .. i - 1 : Is(g, j, "row")' => channel'[j].time < channel'[i].time
    <3>1. i \in p + 1 .. n /\ i \in 1 .. n
      BY <1>5, <2>2, <2>7
    <3>2. Is(g, i, "row") /\ channel'[i] = channel[i]
      BY <1>2, <1>6, <2>7, <3>1
    <3>3. /\ \A u \in Base(g, p) : u < channel[i].time
          /\ \A j \in p + 1 .. i - 1 : Is(g, j, "row") => channel[j].time < channel[i].time
      BY <1>2, <2>1, <3>1, <3>2 DEF Rising
    <3>4. \A j \in p + 1 .. i - 1 : j \in 1 .. n
      BY <3>1
    <3> QED
      BY <1>2, <1>6, <3>2, <3>3, <3>4
  <2>8. Rising(g, p)'
    BY <1>2, <1>4, <2>6, <2>7 DEF Rising
  <2>9. PICK k \in Nat : Complete(g, p, k)
    BY <2>1
  <2>10. RowsIn(g, p)' = RowsIn(g, p)
    <3>1. \A u : u \in RowsIn(g, p)' <=> \E i \in p + 1 .. n + 1 : Is(g, i, "row")' /\ u = channel'[i].time
      BY <1>2 DEF RowsIn
    <3>2. \A u : u \in RowsIn(g, p) <=> \E i \in p + 1 .. n : Is(g, i, "row") /\ u = channel[i].time
      BY <1>2, RowsInIs
    <3>3. ASSUME NEW u \in RowsIn(g, p)' PROVE u \in RowsIn(g, p)
      BY <1>2, <1>5, <1>6, <2>2, <3>1, <3>2
    <3>4. ASSUME NEW u \in RowsIn(g, p) PROVE u \in RowsIn(g, p)'
      BY <1>2, <1>6, <2>3, <3>1, <3>2
    <3> QED
      BY <3>3, <3>4
  <2>11. \A v \in k + 1 .. checks : v \in missing[g] \/ Coming(g, p, v)'
    <3>1. p \in Nat
      OBVIOUS
    <3> QED
      BY <1>3, <2>9, <3>1, GrownComing DEF Complete
  <2>12. Complete(g, p, k)'
    BY <1>1, <1>4, <2>6, <2>9, <2>10, <2>11 DEF Complete
  <2>13. Covered(g, p)'
    BY <1>1, <1>4, <2>12 DEF Covered
  <2> QED
    BY <2>4, <2>5, <2>8, <2>13 DEF Within
<1>9. \A p \in 0 .. n : p \in 0 .. n + 1
  OBVIOUS
<1> QED
  BY <1>1, <1>2, <1>4, <1>7, <1>8, <1>9 DEF GraphOK, Plain

(* The output takes the first event. *)
Took ==
    /\ channel # <<>> /\ channel' = Tail(channel)
    /\ UNCHANGED <<rpc, graph, rows, checks, started, missing, spoiled>>

(* What a list has is old, a number below every check, or what was taken. *)
Kept(g) ==
    \A j \in 1 .. Len(held'[g]) :
       \/ held'[g][j] = 0
       \/ Is(g, 1, "live") /\ held'[g][j] = channel[1].time
       \/ \E k \in 1 .. Len(held[g]) : held'[g][j] = held[g][k]

(* The output takes the first event: the others move up, *)
LEMMA TookIs ==
    ASSUME GraphTypes, Took
    PROVE  /\ channel' \in Seq(GraphEvent) /\ channel[1] \in GraphEvent
           /\ channel[1] = Head(channel)
           /\ Len(channel) \in Nat /\ Len(channel') \in Nat /\ Len(channel) = Len(channel') + 1
           /\ \A i \in 1 .. Len(channel') : channel'[i] = channel[i + 1]
  BY DEF GraphTypes, Took

(* and so do the checks among them. *)
LEMMA TookShifts ==
    ASSUME GraphTypes, Took, NEW g \in Graph
    PROVE  /\ \A i \in 1 .. Len(channel') : \A type : Is(g, i, type)' <=> Is(g, i + 1, type)
           /\ \A i \in 1 .. Len(channel') : \A t : Carries(g, i + 1, t) => Carries(g, i, t)'
<1>1. PICK n \in Nat : n = Len(channel') /\ Len(channel) = n + 1
  BY TookIs
<1>2. \A i \in 1 .. n : channel'[i] = channel[i + 1]
  BY <1>1, TookIs
<1>3. \A i \in 1 .. n : \A type : Is(g, i, type)' <=> Is(g, i + 1, type)
  BY <1>2 DEF Is
<1>4. ASSUME NEW i \in 1 .. n, NEW t, Carries(g, i + 1, t) PROVE Carries(g, i, t)'
  <2>1. \A j \in 1 .. i - 1 : j \in 1 .. n /\ j + 1 \in 1 .. (i + 1) - 1
    OBVIOUS
  <2>2. Is(g, i, "live")' /\ channel'[i].time = t
    BY <1>2, <1>3, <1>4 DEF Carries
  <2>3. \A j \in 1 .. i - 1 : Is(g, j, "live")' => channel'[j].time < t
    BY <1>2, <1>3, <1>4, <2>1 DEF Carries
  <2> QED
    BY <2>2, <2>3 DEF Carries
<1> QED
  BY <1>1, <1>3, <1>4

(* A check behind the first event is later than what the list then has. *)
LEMMA TookCarried ==
    ASSUME GraphTypes, Took, NEW g \in Graph, Kept(g), NEW t \in Nat \ {0},
           NEW i \in 1 .. Len(channel'), Carries(g, i + 1, t),
           \A j \in 1 .. Len(held[g]) : held[g][j] < t
    PROVE  Carries(g, i, t)' /\ \A j \in 1 .. Len(held'[g]) : held'[g][j] < t
<1>1. Carries(g, i, t)'
  BY TookShifts
<1>2. Is(g, 1, "live") => channel[1].time < t
  <2>1. Len(channel') \in Nat
    BY TookIs
  <2>2. 1 \in 1 .. (i + 1) - 1
    BY <2>1
  <2> QED
    BY <2>2 DEF Carries
<1>3. 0 < t
  OBVIOUS
<1>4. ASSUME NEW j \in 1 .. Len(held'[g]) PROVE held'[g][j] < t
  BY <1>2, <1>3 DEF Kept
<1> QED
  BY <1>1, <1>4

(* What is on its way behind the start stays so. *)
LEMMA TookComing ==
    ASSUME GraphTypes, Took, NEW g \in Graph, Kept(g), NEW p \in 0 .. Len(channel),
           NEW q \in 0 .. Len(channel'), NEW t \in Nat \ {0}, Coming(g, p, t),
           \/ p = q + 1
           \/ p = 0 /\ q = 0 /\ held'[g] = held[g] /\ ~ Is(g, 1, "live")
           \/ p = 0 /\ q = 0 /\ held'[g] = Append(held[g], channel[1].time)
    PROVE  Coming(g, q, t)'
<1>1. PICK n \in Nat : n = Len(channel') /\ Len(channel) = n + 1
  BY TookIs
<1>2. ASSUME NEW i \in 1 .. n, i + 1 \in p + 1 .. n + 1, Carries(g, i + 1, t),
             \A j \in 1 .. Len(held[g]) : held[g][j] < t
      PROVE  Coming(g, q, t)'
  <2>1. Carries(g, i, t)' /\ \A j \in 1 .. Len(held'[g]) : held'[g][j] < t
    BY <1>1, <1>2, TookCarried
  <2>2. i \in q + 1 .. n
    BY <1>1, <1>2
  <2> QED
    BY <1>1, <2>1, <2>2 DEF Coming
<1>3. ASSUME NEW i \in p + 1 .. n + 1, Carries(g, i, t),
             \A j \in 1 .. Len(held[g]) : held[g][j] < t
      PROVE  Coming(g, q, t)' \/ (i = 1 /\ p = 0)
  <2>1. CASE i = 1
    BY <1>1, <2>1
  <2>2. CASE i # 1
    <3>1. PICK j \in 1 .. n : i = j + 1
      <4>1. i - 1 \in 1 .. n /\ i = (i - 1) + 1
        BY <1>1, <2>2
      <4> QED
        BY <4>1
    <3> QED
      BY <1>2, <1>3, <3>1
  <2> QED
    BY <2>1, <2>2
<1>4. CASE p = q + 1
  <2>1. p # 0
    BY <1>1, <1>4
  <2> QED
    BY <1>1, <1>3, <2>1 DEF Coming
<1>5. CASE p = 0 /\ q = 0 /\ held'[g] = held[g] /\ ~ Is(g, 1, "live")
  <2>1. ASSUME NEW i \in 1 .. Len(held[g]), Lists(g, i, t) PROVE Coming(g, q, t)'
    BY <1>5, <2>1 DEF Coming, Lists
  <2>2. ~ Carries(g, 1, t)
    BY <1>5 DEF Carries
  <2> QED
    BY <1>1, <1>3, <2>1, <2>2 DEF Coming
<1>6. CASE p = 0 /\ q = 0 /\ held'[g] = Append(held[g], channel[1].time)
  <2>1. PICK h \in Seq(Nat) : h = held[g]
    BY DEF GraphTypes
  <2>2. PICK u \in Nat : u = channel[1].time
    BY TookIs DEF GraphEvent
  <2>3. held'[g] = Append(h, u)
    BY <1>6, <2>1, <2>2
  <2>4. PICK m \in Nat : /\ m = Len(h) /\ Len(held'[g]) = m + 1 /\ held'[g][m + 1] = u
                         /\ \A i \in 1 .. m : held'[g][i] = h[i]
    BY <2>1, <2>2, <2>3
  <2>5. ASSUME NEW i \in 1 .. m, Lists(g, i, t) PROVE Coming(g, q, t)'
    <3>1. i \in 1 .. m + 1 /\ \A j \in 1 .. i - 1 : j \in 1 .. m
      OBVIOUS
    <3>2. Lists(g, i, t)'
      BY <2>1, <2>4, <2>5, <3>1 DEF Lists
    <3> QED
      BY <1>6, <2>4, <3>1, <3>2 DEF Coming
  <2>6. ASSUME Carries(g, 1, t), \A j \in 1 .. m : h[j] < t PROVE Coming(g, q, t)'
    <3>1. m + 1 \in 1 .. m + 1 /\ (m + 1) - 1 = m
      OBVIOUS
    <3>2. u = t
      BY <2>2, <2>6 DEF Carries
    <3>3. Lists(g, m + 1, t)'
      BY <2>4, <2>6, <3>1, <3>2 DEF Lists
    <3> QED
      BY <1>6, <2>4, <3>1, <3>3 DEF Coming
  <2> QED
    BY <1>1, <1>3, <2>1, <2>4, <2>5, <2>6 DEF Coming
<1> QED
  BY <1>4, <1>5, <1>6

(* The rebuild is the same one event further on. *)
LEMMA TookWithin ==
    ASSUME GraphTypes, Took, NEW g \in Graph, NEW p \in 0 .. Len(channel), Within(g, p),
           NEW q \in 0 .. Len(channel'),
           p = q + 1 \/ (p = 0 /\ q = 0 /\ ~ Is(g, 1, "end")),
           q = 0 => held'[g] # NoCache,
           \A u : u \in Base(g, q)' <=>
                     u \in Base(g, p) \/ (p = 0 /\ Is(g, 1, "row") /\ u = channel[1].time),
           \A t \in Nat \ {0} : Coming(g, p, t) => Coming(g, q, t)'
    PROVE  Within(g, q)'
<1>1. PICK n \in Nat : n = Len(channel') /\ Len(channel) = n + 1
  BY TookIs
<1>2. \A i \in 1 .. n : channel'[i] = channel[i + 1]
  BY <1>1, TookIs
<1>3. \A i \in 1 .. n : \A type : Is(g, i, type)' <=> Is(g, i + 1, type)
  BY <1>1, TookShifts
<1>4. Begun(g, p) /\ Closing(g, p) /\ Rising(g, p) /\ Covered(g, p)
  BY DEF Within
<1>5. p \in 0 .. n + 1 /\ q \in 0 .. n
  BY <1>1
<1>6. \A i \in q + 1 .. n : i \in 1 .. n /\ i + 1 \in p + 1 .. n + 1 /\ (i + 1) - 1 = i
  BY <1>5
<1>7. \A i \in p + 1 .. n + 1 : (i = 1 /\ p = 0) \/ (i - 1 \in q + 1 .. n /\ (i - 1) + 1 = i)
  BY <1>5
<1>8. /\ Pending(g)' = Pending(g) /\ (Rebuilding(g)' <=> Rebuilding(g)) /\ rpc' = rpc
      /\ started' = started /\ checks' = checks /\ missing' = missing
  BY DEF Took, Pending, Rebuilding
<1>9. Begun(g, q)'
  <2>1. q > 0 => Is(g, q, "start")'
    <3>1. ASSUME q > 0 PROVE Is(g, q, "start")'
      <4>1. p = q + 1 /\ p > 0 /\ q \in 1 .. n
        BY <1>5, <3>1
      <4> QED
        BY <1>3, <1>4, <4>1 DEF Begun
    <3> QED
      BY <3>1
  <2>2. ASSUME NEW i \in q + 1 .. n, channel'[i].graph = g
        PROVE  channel'[i].type \in {"live", "row", "end"}
    BY <1>1, <1>2, <1>4, <1>6, <2>2 DEF Begun
  <2> QED
    BY <1>1, <2>1, <2>2 DEF Begun
<1>10. Closing(g, q)'
  <2>1. CASE Rebuilding(g)
    <3>1. \A i \in q + 1 .. n : ~ Is(g, i, "end")'
      BY <1>1, <1>3, <1>4, <1>6, <2>1 DEF Closing
    <3> QED
      BY <1>1, <1>8, <2>1, <3>1 DEF Closing
  <2>2. CASE ~ Rebuilding(g)
    <3>1. PICK e \in p + 1 .. n + 1 : EndsAt(g, p, e)
      BY <1>1, <1>4, <2>2 DEF Closing
    <3>2. ~ (e = 1 /\ p = 0)
      BY <1>5, <3>1 DEF EndsAt
    <3>3. PICK d \in q + 1 .. n : e = d + 1
      BY <1>7, <3>2
    <3>4. Is(g, d, "end")'
      BY <1>3, <1>6, <3>1, <3>3 DEF EndsAt
    <3>5. ASSUME NEW i \in q + 1 .. n
          PROVE  (Is(g, i, "end")' => i = d) /\ (Is(g, i, "row")' => i < d)
      <4>1. (Is(g, i + 1, "end") => i + 1 = d + 1) /\ (Is(g, i + 1, "row") => i + 1 < d + 1)
        BY <1>1, <1>6, <3>1, <3>3 DEF EndsAt
      <4>2. (i + 1 = d + 1 => i = d) /\ (i + 1 < d + 1 => i < d)
        BY <1>5
      <4> QED
        BY <1>3, <1>6, <4>1, <4>2
    <3>6. EndsAt(g, q, d)'
      BY <1>1, <3>4, <3>5 DEF EndsAt
    <3> QED
      BY <1>1, <1>8, <2>2, <3>6 DEF Closing
  <2> QED
    BY <2>1, <2>2
<1>11. Rising(g, q)'
  <2>1. ASSUME NEW i \in q + 1 .. n, Is(g, i, "row")'
        PROVE  /\ \A u \in Base(g, q)' : u < channel'[i].time
               /\ \A j \in q + 1 .. i - 1 : Is(g, j, "row")' => channel'[j].time < channel'[i].time
               /\ \A u \in Pending(g) : channel'[i].time < u
    <3>1. i \in 1 .. n /\ i + 1 \in p + 1 .. n + 1 /\ (i + 1) - 1 = i /\ channel'[i] = channel[i + 1]
      BY <1>2, <1>6
    <3>2. Is(g, i + 1, "row")
      BY <1>3, <2>1, <3>1
    <3>3. /\ \A u \in Base(g, p) : u < channel[i + 1].time
          /\ \A j \in p + 1 .. i : Is(g, j, "row") => channel[j].time < channel[i + 1].time
          /\ \A u \in Pending(g) : channel[i + 1].time < u
      BY <1>1, <1>4, <3>1, <3>2 DEF Rising
    <3>4. \A j \in q + 1 .. i - 1 : j \in 1 .. n /\ j + 1 \in p + 1 .. i
      BY <1>5
    <3>5. \A j \in q + 1 .. i - 1 : Is(g, j, "row")' => channel'[j].time < channel'[i].time
      BY <1>2, <1>3, <3>1, <3>3, <3>4
    <3>6. p = 0 => 1 \in p + 1 .. i
      BY <1>5
    <3>7. \A u \in Base(g, q)' : u < channel'[i].time
      BY <3>1, <3>3, <3>6
    <3> QED
      BY <3>1, <3>3, <3>5, <3>7
  <2>2. ASSUME NEW u \in Base(g, q)', NEW v \in Pending(g) PROVE u < v
    <3>1. CASE u \in Base(g, p)
      BY <1>4, <3>1 DEF Rising
    <3>2. CASE p = 0 /\ Is(g, 1, "row") /\ u = channel[1].time
      <4>1. 1 \in p + 1 .. n + 1
        BY <3>2
      <4> QED
        BY <1>1, <1>4, <3>2, <4>1 DEF Rising
    <3> QED
      BY <3>1, <3>2
  <2> QED
    BY <1>1, <1>8, <2>1, <2>2 DEF Rising
<1>12. \A u : u \in RowsIn(g, q)' <=> \E i \in q + 1 .. n : Is(g, i, "row")' /\ u = channel'[i].time
  BY <1>1 DEF RowsIn
<1>13. \A u : u \in RowsIn(g, p) <=> \E i \in p + 1 .. n + 1 : Is(g, i, "row") /\ u = channel[i].time
  BY <1>1, RowsInIs
<1>14. ASSUME NEW u \in RowsIn(g, q)' PROVE u \in RowsIn(g, p)
  BY <1>2, <1>3, <1>6, <1>12, <1>13
<1>15. ASSUME NEW u \in RowsIn(g, p) PROVE u \in RowsIn(g, q)' \/ u \in Base(g, q)'
  <2>1. PICK i \in p + 1 .. n + 1 : Is(g, i, "row") /\ u = channel[i].time
    BY <1>13
  <2>2. CASE i = 1 /\ p = 0
    BY <2>1, <2>2
  <2>3. CASE i - 1 \in q + 1 .. n /\ (i - 1) + 1 = i
    <3>1. PICK j \in q + 1 .. n : j + 1 = i
      BY <2>3
    <3>2. Is(g, j, "row")' /\ u = channel'[j].time
      BY <1>2, <1>3, <1>6, <2>1, <3>1
    <3> QED
      BY <1>12, <3>2
  <2> QED
    BY <1>7, <2>2, <2>3
<1>16. ASSUME NEW u \in Base(g, q)' PROVE u \in Base(g, p) \/ u \in RowsIn(g, p)
  <2>1. CASE p = 0 /\ Is(g, 1, "row") /\ u = channel[1].time
    <3>1. 1 \in p + 1 .. n + 1
      BY <2>1
    <3> QED
      BY <1>13, <2>1, <3>1
  <2> QED
    BY <2>1
<1>17. checks \in Nat /\ started \in Nat
  BY DEF GraphTypes
<1>18. Covered(g, q)'
  <2>1. CASE Rebuilding(g) /\ rpc = "select"
    <3>1. Unread(g, p)
      BY <1>4, <2>1 DEF Covered
    <3>2. Base(g, q)' = {} /\ RowsIn(g, q)' = {}
      BY <1>14, <1>16, <3>1 DEF Unread
    <3>3. ASSUME NEW t \in started + 1 .. checks PROVE Coming(g, q, t)'
      <4>1. t \in Nat \ {0}
        BY <1>17
      <4> QED
        BY <3>1, <4>1 DEF Unread
    <3>4. Unread(g, q)'
      BY <1>8, <3>2, <3>3 DEF Unread
    <3> QED
      BY <1>8, <2>1, <3>4 DEF Covered
  <2>2. CASE ~ (Rebuilding(g) /\ rpc = "select")
    <3>1. PICK k \in Nat : Complete(g, p, k)
      BY <1>4, <2>2 DEF Covered
    <3>2. Base(g, q)' \union RowsIn(g, q)' \union Pending(g) = 1 .. k
      <4>1. Base(g, p) \union RowsIn(g, p) \union Pending(g) = 1 .. k
        BY <3>1 DEF Complete
      <4>2. \A u : u \in Base(g, p) => u \in Base(g, q)'
        OBVIOUS
      <4> QED
        BY <1>14, <1>15, <1>16, <4>1, <4>2
    <3>3. ASSUME NEW t \in k + 1 .. checks, t \notin missing[g] PROVE Coming(g, q, t)'
      <4>1. t \in Nat \ {0}
        BY <1>17
      <4> QED
        BY <3>1, <3>3, <4>1 DEF Complete
    <3>4. Complete(g, q, k)'
      BY <1>8, <3>2, <3>3 DEF Complete
    <3> QED
      BY <1>8, <2>2, <3>4 DEF Covered
  <2> QED
    BY <2>1, <2>2
<1> QED
  BY <1>9, <1>10, <1>11, <1>18 DEF Within
(* What a write does to the list and the file of a graph. *)
LEMMA WriteIs ==
    ASSUME GraphTypes, OutputWrite, NEW g \in Graph, NEW e, e = channel[1]
    PROVE  /\ Took /\ e \in GraphEvent
           /\ e.graph # g => held'[g] = held[g] /\ rrd'[g] = rrd[g]
           /\ e.graph = g /\ e.type = "start" =>
                 rrd'[g] = {} /\ held'[g] = IF held[g] = NoCache THEN <<>> ELSE held[g]
           /\ e.graph = g /\ e.type = "end" =>
                 /\ held'[g] = NoCache
                 /\ rrd'[g] = IF held[g] = NoCache THEN rrd[g] ELSE UpdateAll(rrd[g], held[g])
           /\ e.graph = g /\ e.type = "remove" => rrd'[g] = {} /\ held'[g] = NoCache
           /\ e.graph = g /\ e.type = "live" /\ held[g] # NoCache =>
                 rrd'[g] = rrd[g] /\ held'[g] = Append(held[g], e.time)
           /\ e.graph = g /\ (e.type = "row" \/ (e.type = "live" /\ held[g] = NoCache)) =>
                 rrd'[g] = Update(rrd[g], e.time) /\ held'[g] = held[g]
<1>1. Took
  BY DEF OutputWrite, Took, senderVars, historyVars
<1>2. e = Head(channel) /\ e \in GraphEvent
  BY <1>1, TookIs
<1>3. /\ e.graph \in Graph /\ e.type \in {"live", "row", "start", "end", "remove"} /\ e.time \in Nat
      /\ held \in [Graph -> Seq(Nat)] /\ rrd \in [Graph -> SUBSET Nat]
  BY <1>2 DEF GraphEvent, GraphTypes
<1>4. /\ e.type = "start" => WriteStart(e.graph)
      /\ e.type = "end" => WriteEnd(e.graph)
      /\ e.type = "remove" => WriteRemove(e.graph)
      /\ e.type \in {"live", "row"} => WriteValue(e)
  BY <1>2 DEF OutputWrite
<1>5. CASE e.type = "start"
  BY <1>1, <1>2, <1>3, <1>4, <1>5 DEF WriteStart, NoFile
<1>6. CASE e.type = "end"
  BY <1>1, <1>2, <1>3, <1>4, <1>6 DEF WriteEnd, NoFile
<1>7. CASE e.type = "remove"
  BY <1>1, <1>2, <1>3, <1>4, <1>7 DEF WriteRemove, NoFile
<1>8. CASE e.type = "row"
  BY <1>1, <1>2, <1>3, <1>4, <1>8 DEF WriteValue
<1>9. CASE e.type = "live"
  BY <1>1, <1>2, <1>3, <1>4, <1>9 DEF WriteValue
<1> QED
  BY <1>3, <1>5, <1>6, <1>7, <1>8, <1>9

(* There are no other lists and files. *)
LEMMA WriteKeepsGraphs ==
    ASSUME GraphTypes, OutputWrite
    PROVE  held' = [g \in Graph |-> held'[g]] /\ rrd' = [g \in Graph |-> rrd'[g]]
<1>1. held = [g \in Graph |-> held[g]] /\ rrd = [g \in Graph |-> rrd[g]]
  BY DEF GraphTypes
<1>2. PICK e \in GraphEvent : e = Head(channel)
  BY TookIs DEF GraphTypes, OutputWrite
<1>3. e.type \in {"live", "row", "start", "end", "remove"}
  BY <1>2 DEF GraphEvent
<1>4. WriteStart(e.graph) \/ WriteEnd(e.graph) \/ WriteRemove(e.graph) \/ WriteValue(e)
  BY <1>2, <1>3 DEF OutputWrite
<1>5. CASE WriteStart(e.graph)
  BY <1>1, <1>5 DEF WriteStart
<1>6. CASE WriteEnd(e.graph)
  BY <1>1, <1>6 DEF WriteEnd
<1>7. CASE WriteRemove(e.graph)
  BY <1>1, <1>7 DEF WriteRemove
<1>8. CASE WriteValue(e)
  BY <1>1, <1>8 DEF WriteValue
<1> QED
  BY <1>4, <1>5, <1>6, <1>7, <1>8
(* An update adds a value that is later than all, or nothing. *)
LEMMA UpdateIs ==
    ASSUME NEW f, NEW t
    PROVE  /\ (\A u \in f : u < t) => Update(f, t) = f \union {t}
           /\ f \subseteq Update(f, t) /\ \A u \in Update(f, t) : u \in f \/ u = t
  BY DEF Update

(* The values of a list are added in their order. *)
LEMMA UpdateAllIs ==
    ASSUME NEW f, NEW l \in Seq(Nat)
    PROVE  /\ f \subseteq UpdateAll(f, l)
           /\ \A u \in UpdateAll(f, l) : u \in f \/ \E i \in 1 .. Len(l) : u = l[i]
           /\ \A i \in 1 .. Len(l) :
                 (\A u \in f : u < l[i]) /\ (\A j \in 1 .. i - 1 : l[j] < l[i]) =>
                    l[i] \in UpdateAll(f, l)
<1>1. DOMAIN l = 1 .. Len(l)
  OBVIOUS
<1> QED
  BY <1>1 DEF UpdateAll

(* No rebuild: a check that comes is written at once. *)
LEMMA WritePlain ==
    ASSUME GraphTypes, NEW g \in Graph, Plain(g), OutputWrite PROVE Plain(g)'
<1>1. PICK e \in GraphEvent : e = channel[1]
  BY WriteIs
<1>2. Took
  BY <1>1, WriteIs
<1>3. PICK n \in Nat : n = Len(channel') /\ Len(channel) = n + 1
  BY <1>2, TookIs
<1>4. \A i \in 1 .. n : channel'[i] = channel[i + 1] /\ i + 1 \in 1 .. n + 1
  BY <1>2, <1>3, TookIs
<1>5. /\ held[g] = NoCache /\ ~ Rebuilding(g)
      /\ \A i \in 1 .. n + 1 : channel[i].graph = g => channel[i].type = "live"
      /\ \A t \in 1 .. checks : t \in missing[g] \/ Arrives(g, t)
  BY <1>3 DEF Plain
<1>6. e.graph = g => e.type = "live" /\ Is(g, 1, "live")
  BY <1>1, <1>5 DEF Is
<1>7. /\ held'[g] = held[g]
      /\ e.graph # g => rrd'[g] = rrd[g]
      /\ e.graph = g => rrd'[g] = Update(rrd[g], e.time)
  BY <1>1, <1>5, <1>6, WriteIs
<1>8. \A i \in 1 .. n : channel'[i].graph = g => channel'[i].type = "live"
  BY <1>4, <1>5
<1>9. ~ Rebuilding(g)' /\ checks' = checks /\ missing' = missing
  BY <1>2, <1>5 DEF Took, Rebuilding
<1>10. ASSUME NEW t \in 1 .. checks, Arrives(g, t) PROVE Arrives(g, t)'
  <2>1. rrd[g] \subseteq rrd'[g]
    BY <1>7, UpdateIs
  <2>2. CASE t \in rrd[g]
    BY <2>1, <2>2 DEF Arrives
  <2>3. ASSUME NEW i \in 1 .. n + 1, Carries(g, i, t), \A u \in rrd[g] : u < t
        PROVE  Arrives(g, t)'
    <3>1. CASE i = 1
      <4>1. e.graph = g /\ e.time = t
        BY <1>1, <2>3, <3>1 DEF Carries, Is
      <4>2. t \in rrd'[g]
        BY <1>7, <2>3, <4>1, UpdateIs
      <4> QED
        BY <4>2 DEF Arrives
    <3>2. CASE i # 1
      <4>1. PICK j \in 1 .. n : i = j + 1 /\ 1 \in 1 .. i - 1
        <5>1. i - 1 \in 1 .. n /\ i = (i - 1) + 1 /\ 1 \in 1 .. i - 1
          BY <3>2
        <5> QED
          BY <5>1
      <4>2. Carries(g, j, t)'
        BY <1>2, <1>3, <2>3, <4>1, TookShifts
      <4>3. e.graph = g => e.time < t
        BY <1>1, <1>6, <2>3, <4>1 DEF Carries
      <4>4. \A u \in rrd'[g] : u < t
        BY <1>7, <2>3, <4>3, UpdateIs
      <4> QED
        BY <1>3, <4>2, <4>4 DEF Arrives
    <3> QED
      BY <3>1, <3>2
  <2> QED
    BY <1>3, <1>10, <2>2, <2>3 DEF Arrives
<1> QED
  BY <1>3, <1>5, <1>7, <1>8, <1>9, <1>10 DEF Plain

(* Before the start event a list may be opened, closed or written to:      *)
(* what comes behind it is later all the same.                             *)
LEMMA WriteKept ==
    ASSUME GraphTypes, NEW g \in Graph, OutputWrite PROVE Kept(g)
<1>1. PICK e \in GraphEvent : e = channel[1]
  BY WriteIs
<1>2. PICK h \in Seq(Nat) : h = held[g]
  BY DEF GraphTypes
<1>3. CASE held'[g] = h
  BY <1>2, <1>3 DEF Kept
<1>4. CASE held'[g] = NoCache \/ held'[g] = <<>>
  <2>1. \A j \in 1 .. Len(held'[g]) : held'[g][j] = 0
    BY <1>4 DEF NoCache
  <2> QED
    BY <2>1 DEF Kept
<1>5. CASE e.graph = g /\ e.type = "live" /\ held'[g] = Append(h, e.time)
  <2>1. Is(g, 1, "live")
    BY <1>1, <1>5 DEF Is
  <2>2. PICK m \in Nat : m = Len(h)
    BY <1>2
  <2>3. e.time \in Nat
    BY <1>1 DEF GraphEvent
  <2>4. /\ Len(held'[g]) = m + 1 /\ held'[g][m + 1] = e.time
        /\ \A i \in 1 .. m : held'[g][i] = h[i]
    BY <1>2, <1>5, <2>2, <2>3
  <2>5. \A j \in 1 .. m + 1 : j = m + 1 \/ j \in 1 .. m
    OBVIOUS
  <2> QED
    BY <1>1, <1>2, <2>1, <2>2, <2>4, <2>5 DEF Kept
<1>6. e.type \in {"live", "row", "start", "end", "remove"}
  BY DEF GraphEvent
<1> QED
  BY <1>1, <1>2, <1>3, <1>4, <1>5, <1>6, WriteIs

(* The start event is on its way. *)
LEMMA WriteBefore ==
    ASSUME GraphTypes, NEW g \in Graph, NEW p \in 1 .. Len(channel), Within(g, p), OutputWrite
    PROVE  GraphOK(g)'
<1>1. PICK e \in GraphEvent : e = channel[1]
  BY WriteIs
<1>2. Took /\ Kept(g)
  BY <1>1, WriteIs, WriteKept
<1>3. PICK n \in Nat : n = Len(channel') /\ Len(channel) = n + 1
  BY <1>2, TookIs
<1>4. PICK q \in 0 .. n : p = q + 1 /\ p \in 0 .. n + 1 /\ p # 0 /\ p > 0
  <2>1. p - 1 \in 0 .. n /\ p = (p - 1) + 1 /\ p \in 0 .. n + 1 /\ p # 0 /\ p > 0
    BY <1>3
  <2> QED
    BY <2>1
<1>5. Is(g, p, "start")
  BY <1>4 DEF Within, Begun
<1>6. q = 0 => e.graph = g /\ e.type = "start"
  BY <1>1, <1>4, <1>5 DEF Is
<1>7. q = 0 => held'[g] # NoCache /\ rrd'[g] = {}
  <2>1. << >> # NoCache
    BY DEF NoCache
  <2> QED
    BY <1>1, <1>6, <2>1, WriteIs
<1>8. Base(g, q)' = {} /\ Base(g, p) = {}
  BY <1>4, <1>7 DEF Base
<1>9. \A t \in Nat \ {0} : Coming(g, p, t) => Coming(g, q, t)'
  BY <1>2, <1>3, <1>4, TookComing
<1>10. Within(g, q)'
  BY <1>2, <1>3, <1>4, <1>7, <1>8, <1>9, TookWithin
<1> QED
  BY <1>3, <1>10 DEF GraphOK

(* The list is open: values, and rows. *)
LEMMA WriteDuring ==
    ASSUME GraphTypes, NEW g \in Graph, Within(g, 0), OutputWrite, ~ Is(g, 1, "end")
    PROVE  GraphOK(g)'
<1>1. PICK e \in GraphEvent : e = channel[1]
  BY WriteIs
<1>2. Took /\ Kept(g)
  BY <1>1, WriteIs, WriteKept
<1>3. PICK n \in Nat : n = Len(channel') /\ Len(channel) = n + 1
  BY <1>2, TookIs
<1>4. 0 \in 0 .. n /\ 0 \in 0 .. n + 1 /\ 1 \in 1 .. n + 1 /\ 0 + 1 = 1
  OBVIOUS
<1>5. held[g] # NoCache /\ (e.graph = g => e.type \in {"live", "row"})
  <2>1. e.graph = g => e.type \in {"live", "row", "end"}
    BY <1>1, <1>3, <1>4 DEF Within, Begun
  <2> QED
    BY <1>1, <2>1 DEF Within, Begun, Is
<1>6. held'[g] # NoCache /\ ((held'[g] = held[g] /\ ~ Is(g, 1, "live")) \/ held'[g] = Append(held[g], e.time))
  <2>1. CASE e.graph = g /\ e.type = "live"
    <3>1. PICK h \in Seq(Nat) : h = held[g]
      BY DEF GraphTypes
    <3>2. e.time \in Nat /\ e.time # 0
      BY <1>1, <1>3, <1>4, <2>1 DEF GraphTypes, GraphEvent
    <3>3. Append(h, e.time) # << 0 >>
      <4>1. PICK m \in Nat : m = Len(h)
        BY <3>1
      <4>2. Len(Append(h, e.time)) = m + 1 /\ Append(h, e.time)[m + 1] = e.time
        BY <3>1, <3>2, <4>1
      <4>3. ASSUME Append(h, e.time) = << 0 >> PROVE FALSE
        <5>1. Len(<< 0 >>) = 1 /\ << 0 >>[1] = 0
          OBVIOUS
        <5>2. m = 0
          BY <4>2, <4>3, <5>1
        <5> QED
          BY <3>2, <4>2, <4>3, <5>1, <5>2
      <4> QED
        BY <4>3
    <3>4. held'[g] = Append(held[g], e.time)
      BY <1>1, <1>5, <2>1, WriteIs
    <3> QED
      BY <3>1, <3>3, <3>4 DEF NoCache
  <2>2. CASE ~ (e.graph = g /\ e.type = "live")
    <3>1. held'[g] = held[g]
      BY <1>1, <1>5, <2>2, WriteIs
    <3> QED
      BY <1>1, <1>5, <2>2, <3>1 DEF Is
  <2> QED
    BY <2>1, <2>2
<1>7. \A u : u \in rrd'[g] <=> u \in rrd[g] \/ (Is(g, 1, "row") /\ u = channel[1].time)
  <2>1. CASE e.graph = g /\ e.type = "row"
    <3>1. Is(g, 1, "row")
      BY <1>1, <2>1 DEF Is
    <3>2. \A u \in rrd[g] : u < e.time
      BY <1>1, <1>3, <1>4, <3>1 DEF Within, Rising, Base
    <3>3. rrd'[g] = Update(rrd[g], e.time)
      BY <1>1, <2>1, WriteIs
    <3> QED
      BY <1>1, <3>1, <3>2, <3>3, UpdateIs
  <2>2. CASE ~ (e.graph = g /\ e.type = "row")
    <3>1. rrd'[g] = rrd[g] /\ ~ Is(g, 1, "row")
      BY <1>1, <1>5, <2>2, WriteIs DEF Is
    <3> QED
      BY <3>1
  <2> QED
    BY <2>1, <2>2
<1>8. Base(g, 0)' = rrd'[g] /\ Base(g, 0) = rrd[g]
  BY DEF Base
<1>9. \A t \in Nat \ {0} : Coming(g, 0, t) => Coming(g, 0, t)'
  BY <1>1, <1>2, <1>3, <1>4, <1>6, TookComing
<1>10. Within(g, 0)'
  BY <1>2, <1>3, <1>4, <1>6, <1>7, <1>8, <1>9, TookWithin
<1> QED
  BY <1>3, <1>4, <1>10 DEF GraphOK

(* The end event: the values of the list are written behind the rows. *)
LEMMA WriteLast ==
    ASSUME GraphTypes, NEW g \in Graph, Within(g, 0), OutputWrite, Is(g, 1, "end")
    PROVE  Plain(g)'
<1>1. PICK e \in GraphEvent : e = channel[1]
  BY WriteIs
<1>2. Took
  BY <1>1, WriteIs
<1>3. PICK n \in Nat : n = Len(channel') /\ Len(channel) = n + 1
  BY <1>2, TookIs
<1>4. \A i \in 1 .. n : /\ channel'[i] = channel[i + 1] /\ i + 1 \in 1 .. n + 1
                        /\ i + 1 # 1 /\ ~ (i + 1 < 1)
  BY <1>2, <1>3, TookIs
<1>5. 0 + 1 = 1 /\ 1 \in 1 .. n + 1
  OBVIOUS
<1>6. PICK h \in Seq(Nat) : h = held[g]
  BY DEF GraphTypes
<1>7. held'[g] = NoCache /\ rrd'[g] = UpdateAll(rrd[g], h)
  <2>1. held[g] # NoCache
    BY DEF Within, Begun
  <2>2. e.graph = g /\ e.type = "end"
    BY <1>1 DEF Is
  <2> QED
    BY <1>1, <1>6, <2>1, <2>2, WriteIs
<1>8. ~ Rebuilding(g) /\ ~ Rebuilding(g)'
  <2>1. ~ Rebuilding(g)
    BY <1>3, <1>5 DEF Within, Closing
  <2> QED
    BY <1>2, <2>1 DEF Took, Rebuilding
<1>9. \A i \in 1 .. n + 1 : (Is(g, i, "end") => i = 1) /\ ~ Is(g, i, "row")
  <2>1. PICK d \in 1 .. n + 1 : EndsAt(g, 0, d)
    BY <1>3, <1>5, <1>8 DEF Within, Closing
  <2>2. d = 1
    BY <1>3, <1>5, <2>1 DEF EndsAt
  <2>3. \A i \in 1 .. n + 1 : (Is(g, i, "end") => i = 1) /\ (Is(g, i, "row") => i < 1)
    BY <1>3, <1>5, <2>1, <2>2 DEF EndsAt
  <2> QED
    BY <2>3
<1>10. ASSUME NEW i \in 1 .. n, channel'[i].graph = g PROVE channel'[i].type = "live"
  <2>1. channel[i + 1].type \in {"live", "row", "end"} /\ channel[i + 1].graph = g
    BY <1>3, <1>4, <1>5, <1>10 DEF Within, Begun
  <2> QED
    BY <1>4, <1>9, <2>1 DEF Is
<1>11. PICK k \in Nat : Complete(g, 0, k)
  BY <1>8 DEF Within, Covered
<1>12. rrd[g] = 1 .. k
  <2>1. Base(g, 0) = rrd[g] /\ Pending(g) = {}
    BY <1>8, PendingIs DEF Base
  <2>2. RowsIn(g, 0) = {}
    BY <1>3, <1>5, <1>9, RowsInIs
  <2> QED
    BY <1>11, <2>1, <2>2 DEF Complete
<1>13. checks' = checks /\ missing' = missing /\ checks \in Nat
  BY <1>2 DEF Took, GraphTypes
<1>14. ASSUME NEW t \in 1 .. checks, t \notin missing[g] PROVE Arrives(g, t)'
  <2>1. CASE t \in 1 .. k
    BY <1>6, <1>7, <1>12, <2>1, UpdateAllIs DEF Arrives
  <2>2. CASE t \in k + 1 .. checks
    <3>1. \A u \in rrd[g] : u < t
      BY <1>12, <2>2
    <3>2. Coming(g, 0, t)
      BY <1>11, <1>14, <2>2 DEF Complete
    <3>3. ASSUME NEW i \in 1 .. Len(h), Lists(g, i, t) PROVE Arrives(g, t)'
      <4>1. h[i] = t /\ \A j \in 1 .. i - 1 : h[j] < t
        BY <1>6, <3>3 DEF Lists
      <4>2. t \in UpdateAll(rrd[g], h)
        BY <1>6, <3>1, <4>1, UpdateAllIs
      <4> QED
        BY <1>7, <4>2 DEF Arrives
    <3>4. ASSUME NEW i \in 1 .. n + 1, Carries(g, i, t), \A j \in 1 .. Len(h) : h[j] < t
          PROVE  Arrives(g, t)'
      <4>1. i # 1
        BY <3>4 DEF Carries, Is
      <4>2. PICK j \in 1 .. n : i = j + 1
        <5>1. i - 1 \in 1 .. n /\ i = (i - 1) + 1
          BY <4>1
        <5> QED
          BY <5>1
      <4>3. Carries(g, j, t)'
        BY <1>2, <1>3, <3>4, <4>2, TookShifts
      <4>4. \A u \in rrd'[g] : u < t
        BY <1>6, <1>7, <3>1, <3>4, UpdateAllIs
      <4> QED
        BY <1>3, <4>3, <4>4 DEF Arrives
    <3> QED
      BY <1>3, <1>5, <1>6, <3>2, <3>3, <3>4 DEF Coming
  <2> QED
    BY <1>13, <2>1, <2>2
<1> QED
  BY <1>3, <1>7, <1>8, <1>10, <1>13, <1>14 DEF Plain

(* What the output writes keeps what holds of a graph. *)
LEMMA WriteOK ==
    ASSUME GraphTypes, NEW g \in Graph, GraphOK(g), OutputWrite PROVE GraphOK(g)'
<1>1. CASE spoiled[g]
  BY <1>1 DEF GraphOK, OutputWrite, historyVars
<1>2. CASE Plain(g)
  BY <1>2, WritePlain DEF GraphOK
<1>3. ASSUME NEW p \in 0 .. Len(channel), Within(g, p) PROVE GraphOK(g)'
  <2>1. CASE p = 0
    BY <1>3, <2>1, WriteDuring, WriteLast DEF GraphOK
  <2>2. CASE p # 0
    <3>1. p \in 1 .. Len(channel)
      BY <2>2
    <3> QED
      BY <1>3, <3>1, WriteBefore
  <2> QED
    BY <2>1, <2>2
<1> QED
  BY <1>1, <1>2, <1>3 DEF GraphOK
(* A step that neither publishes nor writes. *)
LEMMA QuietOK ==
    ASSUME GraphTypes, NEW g \in Graph, GraphOK(g), UNCHANGED <<channel, checks>>,
           held'[g] = held[g], rrd'[g] = rrd[g], missing'[g] = missing[g],
           spoiled'[g] = spoiled[g], Steady(g)
    PROVE  GraphOK(g)'
  BY NoneMore, MoreOK

(* A step that publishes for the other graph. *)
LEMMA OtherOK ==
    ASSUME GraphTypes, NEW g \in Graph, GraphOK(g), NEW e \in GraphEvent, e.graph # g,
           channel' = Append(channel, e), UNCHANGED <<checks, held, rrd>>,
           missing'[g] = missing[g], spoiled'[g] = spoiled[g], Steady(g)
    PROVE  GraphOK(g)'
  BY OtherMore, MoreOK

(* Several events more. *)
LEMMA JoinedIs ==
    ASSUME GraphTypes, NEW l \in Seq(GraphEvent), channel' = channel \o l
    PROVE  /\ channel' \in Seq(GraphEvent)
           /\ Len(channel) \in Nat /\ Len(l) \in Nat /\ Len(channel') = Len(channel) + Len(l)
           /\ \A i \in 1 .. Len(channel) : channel'[i] = channel[i]
           /\ \A i \in 1 .. Len(l) : channel'[Len(channel) + i] = l[i]
           /\ \A i \in Len(channel) + 1 .. Len(channel') :
                 i - Len(channel) \in 1 .. Len(l) /\ channel'[i] = l[i - Len(channel)]
           /\ \A g \in Graph : held'[g] = held[g] => Grown(g)
<1>1. channel \in Seq(GraphEvent)
  BY DEF GraphTypes
<1>2. /\ channel' \in Seq(GraphEvent)
      /\ Len(channel) \in Nat /\ Len(l) \in Nat /\ Len(channel') = Len(channel) + Len(l)
      /\ \A i \in 1 .. Len(channel) : channel'[i] = channel[i]
      /\ \A i \in 1 .. Len(l) : channel'[Len(channel) + i] = l[i]
      /\ \A i \in Len(channel) + 1 .. Len(channel') :
            i - Len(channel) \in 1 .. Len(l) /\ channel'[i] = l[i - Len(channel)]
  BY <1>1
<1>3. Len(channel') \in Nat /\ Len(channel) <= Len(channel')
  BY <1>2
<1> QED
  BY <1>2, <1>3 DEF Grown

(* What a check publishes. *)
LEMMA StatusAndMetric ==
    ASSUME NEW t \in Nat, NEW l, l = <<Checked("status", t), Checked("metric", t)>>
    PROVE  /\ l \in Seq(GraphEvent) /\ Len(l) = 2
           /\ l[1] = Checked("status", t) /\ l[2] = Checked("metric", t)
  BY CheckedIs DEF Graph

(* A new check is later than all that are known. *)
LEMMA PublishOK ==
    ASSUME GraphTypes, NEW g \in Graph, GraphOK(g), StoragePublish PROVE GraphOK(g)'
<1>1. PICK c \in Nat : c = checks /\ checks' = c + 1
  BY DEF StoragePublish, GraphTypes
<1>2. PICK t \in Nat : t = c + 1
  OBVIOUS
<1>3. PICK l \in Seq(GraphEvent) : l = <<Checked("status", t), Checked("metric", t)>>
  BY StatusAndMetric
<1>4. Len(l) = 2 /\ l[1] = Checked("status", t) /\ l[2] = Checked("metric", t)
  BY <1>3, StatusAndMetric
<1>5. channel' = channel \o l /\ UNCHANGED <<rpc, graph, rows, started, held, rrd, missing, spoiled>>
  BY <1>1, <1>2, <1>3 DEF StoragePublish, historyVars
<1>6. PICK n \in Nat : /\ n = Len(channel) /\ Len(channel') = n + 2
                       /\ \A i \in 1 .. n : channel'[i] = channel[i]
                       /\ channel'[n + 1] = l[1] /\ channel'[n + 2] = l[2]
  <2>1. 1 \in 1 .. 2 /\ 2 \in 1 .. 2
    OBVIOUS
  <2> QED
    BY <1>4, <1>5, <2>1, JoinedIs
<1>7. Grown(g)
  BY <1>5, JoinedIs
<1>8. PICK i \in n + 1 .. n + 2 : channel'[i] = Checked(g, t)
  <2>1. g = "status" \/ g = "metric"
    BY DEF Graph
  <2>2. n + 1 \in n + 1 .. n + 2 /\ n + 2 \in n + 1 .. n + 2
    OBVIOUS
  <2> QED
    BY <1>4, <1>6, <2>1, <2>2
<1>9. \A j \in n + 1 .. n + 2 : channel'[j].type = "live" /\ channel'[j].time = t
                                /\ (channel'[j].graph = g => j = i)
  <2>1. /\ Checked("status", t).graph = "status" /\ Checked("metric", t).graph = "metric"
        /\ Checked("status", t).type = "live" /\ Checked("metric", t).type = "live"
        /\ Checked("status", t).time = t /\ Checked("metric", t).time = t
    BY DEF Checked
  <2>2. Checked(g, t).graph = g
    BY DEF Checked
  <2>3. \A j \in n + 1 .. n + 2 : j = n + 1 \/ j = n + 2
    OBVIOUS
  <2> QED
    BY <1>4, <1>6, <1>8, <2>1, <2>2, <2>3
<1>10. Carries(g, i, t)'
  <2>1. Is(g, i, "live")' /\ channel'[i].time = t
    BY <1>8, CheckedIs DEF Is
  <2>2. ASSUME NEW j \in 1 .. i - 1, Is(g, j, "live")' PROVE channel'[j].time < t
    <3>1. j \in 1 .. n \/ (j \in n + 1 .. n + 2 /\ j # i)
      OBVIOUS
    <3>2. CASE j \in 1 .. n
      <4>1. channel[j].time <= c /\ channel[j] \in GraphEvent
        BY <1>1, <1>6, <3>2 DEF GraphTypes
      <4>3. channel[j].time \in Nat
        BY <4>1 DEF GraphEvent
      <4>2. channel[j].time < t
        BY <1>2, <4>1, <4>3
      <4> QED
        BY <1>6, <3>2, <4>2
    <3>3. CASE j \in n + 1 .. n + 2 /\ j # i
      BY <1>9, <2>2, <3>3 DEF Is
    <3> QED
      BY <3>1, <3>2, <3>3
  <2> QED
    BY <2>1, <2>2 DEF Carries
<1>11. More(g)
  <2>1. \A v \in c + 1 .. c + 1 : v = t
    BY <1>2
  <2>2. c <= c + 1 /\ c + 1 \in Nat
    OBVIOUS
  <2> QED
    BY <1>1, <1>5, <1>6, <1>7, <1>9, <1>10, <2>1, <2>2 DEF More
<1>12. Steady(g)
  BY <1>5 DEF Steady, Rebuilding
<1> QED
  BY <1>5, <1>11, <1>12, MoreOK

(* What is published again after a crash. *)
Again == [i \in 1 .. 2 * Len(perfdata) |->
             Checked(IF i % 2 = 1 THEN "status" ELSE "metric", perfdata[(i + 1) \div 2])]

(* They are checks that were published before. *)
LEMMA AgainIs ==
    ASSUME GraphTypes
    PROVE  /\ Again \in Seq(GraphEvent)
           /\ \A i \in 1 .. Len(Again) :
                 Again[i].type = "live" /\ Again[i].time <= checks /\ Again[i].time # 0
<1>1. PICK n, c \in Nat : n = Len(perfdata) /\ c = checks /\ n <= c
  BY DEF GraphTypes
<1>2. \A j \in 1 .. n : perfdata[j] = c - n + j
  BY <1>1 DEF GraphTypes
<1>3. ASSUME NEW i \in 1 .. 2 * n
      PROVE  Again[i] \in GraphEvent /\ Again[i].type = "live" /\ Again[i].time <= c /\ Again[i].time # 0
  <2>1. PICK j \in 1 .. n : j = (i + 1) \div 2
    BY <1>1
  <2>2. PICK t \in Nat : t = perfdata[j] /\ t <= c /\ t # 0
    <3>1. c - n + j \in Nat /\ c - n + j <= c /\ c - n + j # 0
      BY <1>1
    <3> QED
      BY <1>2, <3>1
  <2>3. PICK g \in Graph : g = IF i % 2 = 1 THEN "status" ELSE "metric"
    BY DEF Graph
  <2>4. Again[i] = Checked(g, t)
    BY <1>1, <2>1, <2>2, <2>3 DEF Again
  <2> QED
    BY <2>2, <2>4, CheckedIs
<1>4. Again \in [1 .. 2 * n -> GraphEvent]
  BY <1>1, <1>3 DEF Again
<1>5. 2 * n \in Nat
  OBVIOUS
<1>6. Again \in Seq(GraphEvent) /\ Len(Again) = 2 * n
  BY <1>4, <1>5
<1> QED
  BY <1>1, <1>3, <1>6

(* The storage process dies: a graph that is being rebuilt is spoiled. *)
LEMMA CrashOK ==
    ASSUME GraphTypes, NEW g \in Graph, GraphOK(g), Crash PROVE GraphOK(g)'
<1>1. /\ channel' = channel \o Again /\ rpc' = "wait"
      /\ spoiled'[g] = (spoiled[g] \/ (rpc \in {"select", "rows"} /\ g = graph))
      /\ UNCHANGED <<checks, held, rrd, missing>>
  BY DEF Crash, Again
<1>2. CASE Rebuilding(g)
  BY <1>1, <1>2 DEF Rebuilding, GraphOK
<1>3. CASE ~ Rebuilding(g)
  <2>1. Steady(g)
    BY <1>1, <1>3 DEF Steady, Rebuilding
  <2>2. spoiled'[g] = spoiled[g]
    BY <1>1, <1>3 DEF Rebuilding, GraphTypes
  <2>3. Grown(g) /\ \A i \in Len(channel) + 1 .. Len(channel') : channel'[i].type = "live"
    BY <1>1, AgainIs, JoinedIs
  <2>4. checks \in Nat /\ checks <= checks /\ checks + 1 .. checks = {}
    BY DEF GraphTypes
  <2>5. More(g)
    BY <1>1, <2>3, <2>4 DEF More
  <2> QED
    BY <2>1, <2>2, <2>5, MoreOK
<1> QED
  BY <1>2, <1>3

(* The RRD process starts again: a list that is lost spoils its graph. *)
LEMMA RestartOK ==
    ASSUME GraphTypes, NEW g \in Graph, GraphOK(g), RrdRestart PROVE GraphOK(g)'
<1>1. /\ held'[g] = NoCache /\ spoiled'[g] = (spoiled[g] \/ held[g] # NoCache)
      /\ UNCHANGED <<channel, checks, rrd, missing, rpc, graph, rows, started>>
  BY DEF RrdRestart, senderVars
<1>2. CASE held[g] # NoCache
  BY <1>1, <1>2 DEF GraphOK
<1>3. CASE held[g] = NoCache
  <2>1. spoiled'[g] = spoiled[g] /\ held'[g] = held[g]
    BY <1>1, <1>3 DEF GraphTypes
  <2>2. Steady(g)
    BY <1>1 DEF Steady, Rebuilding
  <2> QED
    BY <1>1, <2>1, <2>2, QuietOK
<1> QED
  BY <1>2, <1>3

(* A graph that may be removed is spoiled. *)
LEMMA RemoveOK ==
    ASSUME GraphTypes, NEW g \in Graph, GraphOK(g), RemoveGraph PROVE GraphOK(g)'
<1>1. /\ channel' = Append(channel, Order("remove", "status"))
      /\ spoiled' = [spoiled EXCEPT !["status"] = TRUE]
      /\ UNCHANGED <<checks, held, rrd, missing, rpc, graph, rows, started>>
  BY DEF RemoveGraph, PublishGraph, senderVars
<1>2. "status" \in Graph
  BY DEF Graph
<1>3. CASE g = "status"
  BY <1>1, <1>3 DEF GraphOK, GraphTypes
<1>4. CASE g # "status"
  <2>1. PICK e \in GraphEvent : e = Order("remove", "status") /\ e.graph # g
    BY <1>2, <1>4, OrderIs
  <2>2. spoiled'[g] = spoiled[g] /\ missing'[g] = missing[g]
    BY <1>1, <1>4 DEF GraphTypes
  <2>3. Steady(g)
    BY <1>1 DEF Steady, Rebuilding
  <2> QED
    BY <1>1, <2>1, <2>2, <2>3, OtherOK
<1> QED
  BY <1>3, <1>4

(* A query that fails spoils the graph that is being rebuilt. *)
LEMMA FailsOK ==
    ASSUME GraphTypes, NEW g \in Graph, GraphOK(g), RebuildFails PROVE GraphOK(g)'
<1>1. /\ channel' = Append(channel, Order("end", graph)) /\ rpc' = "wait"
      /\ spoiled' = [spoiled EXCEPT ![graph] = TRUE]
      /\ UNCHANGED <<checks, held, rrd, missing>>
  BY DEF RebuildFails, PublishGraph
<1>2. graph \in Graph
  BY DEF GraphTypes
<1>3. CASE g = graph
  BY <1>1, <1>3 DEF GraphOK, GraphTypes
<1>4. CASE g # graph
  <2>1. PICK e \in GraphEvent : e = Order("end", graph) /\ e.graph # g
    BY <1>2, <1>4, OrderIs
  <2>2. spoiled'[g] = spoiled[g] /\ missing'[g] = missing[g]
    BY <1>1, <1>4 DEF GraphTypes
  <2>3. Steady(g)
    BY <1>1, <1>4 DEF Steady, Rebuilding
  <2> QED
    BY <1>1, <2>1, <2>2, <2>3, OtherOK
<1> QED
  BY <1>3, <1>4

(* The rebuild of the other graph. *)
LEMMA OtherGraphOK ==
    ASSUME GraphTypes, NEW g \in Graph, GraphOK(g), g # graph,
           SendRebuildStart \/ SelectData \/ SendRow \/ SendRebuildEnd
    PROVE  GraphOK(g)'
<1>1. graph \in Graph /\ rows \subseteq Nat
  BY DEF GraphTypes
<1>2. UNCHANGED <<checks, held, rrd>> /\ missing'[g] = missing[g] /\ spoiled'[g] = spoiled[g]
  BY DEF SendRebuildStart, SelectData, SendRow, SendRebuildEnd, Proceed, historyVars, GraphTypes
<1>3. Steady(g)
  BY DEF SendRebuildStart, SelectData, SendRow, SendRebuildEnd, Proceed, Steady, Rebuilding
<1>4. CASE SendRebuildStart
  <2>1. PICK e \in GraphEvent : e = Order("start", graph) /\ e.graph # g
    BY <1>1, OrderIs
  <2> QED
    BY <1>2, <1>3, <1>4, <2>1, OtherOK DEF SendRebuildStart, PublishGraph
<1>5. CASE SelectData
  BY <1>2, <1>3, <1>5, QuietOK DEF SelectData
<1>6. CASE SendRow
  <2>1. PICK t \in rows : channel' = Append(channel, Stored(graph, t))
    BY <1>6 DEF SendRow, PublishGraph
  <2>2. PICK e \in GraphEvent : e = Stored(graph, t) /\ e.graph # g
    BY <1>1, StoredIs
  <2> QED
    BY <1>2, <1>3, <2>1, <2>2, OtherOK
<1>7. CASE SendRebuildEnd
  <2>1. PICK e \in GraphEvent : e = Order("end", graph) /\ e.graph # g
    BY <1>1, OrderIs
  <2> QED
    BY <1>2, <1>3, <1>7, <2>1, OtherOK DEF SendRebuildEnd, PublishGraph
<1> QED
  BY <1>4, <1>5, <1>6, <1>7

(* What the output does not see. *)
LEMMA IdleOK ==
    ASSUME GraphTypes, NEW g \in Graph, GraphOK(g),
           \/ StoreChecks \/ AskRebuild \/ OpenDb \/ NextIndexToRebuild \/ SetRebuilt
           \/ ConnectionLost \/ AskStop \/ Stop \/ ServerStops \/ ServerStarts
           \/ UNCHANGED rrdVars
    PROVE  GraphOK(g)'
<1>1. UNCHANGED <<channel, checks, held, rrd, missing, spoiled>>
  BY DEF StoreChecks, AskRebuild, OpenDb, NextIndexToRebuild, SetRebuilt, ConnectionLost, AskStop,
         Stop, ServerStops, ServerStarts, rrdVars, senderVars, historyVars, Proceed
<1>2. Steady(g)
  BY DEF StoreChecks, AskRebuild, OpenDb, NextIndexToRebuild, SetRebuilt, ConnectionLost, AskStop,
         Stop, ServerStops, ServerStarts, rrdVars, senderVars, historyVars, Proceed, Steady,
         Rebuilding
<1> QED
  BY <1>1, <1>2, QuietOK

(* Every step keeps what holds of a graph. *)
LEMMA GraphStepOK ==
    ASSUME GraphTypes, NEW g \in Graph, GraphOK(g), [RrdNext]_rrdVars PROVE GraphOK(g)'
<1>1. CASE SendRebuildStart \/ SelectData \/ SendRow \/ SendRebuildEnd
  BY <1>1, OtherGraphOK, StartOK, SelectOK, RowOK, EndOK
<1> QED
  BY <1>1, PublishOK, RemoveOK, FailsOK, CrashOK, WriteOK, RestartOK, IdleOK
     DEF RrdNext, RebuilderStep, Rebuilder

(* The parts of the types. *)
SenderTypes ==
    /\ checks \in Nat /\ perfdata \in Seq(Nat) /\ Len(perfdata) <= checks
    /\ \A i \in 1 .. Len(perfdata) : perfdata[i] = checks - Len(perfdata) + i
    /\ dataBin = 1 .. checks - Len(perfdata)
    /\ rpc \in {"wait", "next", "start", "select", "rows", "done"} /\ graph \in Graph
    /\ rows \subseteq 1 .. checks /\ started \in 0 .. checks
    /\ missing \in [Graph -> SUBSET Nat] /\ spoiled \in [Graph -> BOOLEAN]
ChannelTypes ==
    /\ channel \in Seq(GraphEvent)
    /\ \A i \in 1 .. Len(channel) :
          channel[i].time <= checks /\ (channel[i].type = "live" => channel[i].time # 0)
OutputTypes ==
    /\ held \in [Graph -> Seq(Nat)] /\ rrd \in [Graph -> SUBSET Nat]
    /\ \A g \in Graph : /\ \A i \in 1 .. Len(held[g]) : held[g][i] <= checks
                        /\ \A u \in rrd[g] : u <= checks

(* The types, now *)
LEMMA TypesAre ==
    ASSUME SenderTypes, ChannelTypes, OutputTypes PROVE GraphTypes
  BY DEF GraphTypes, SenderTypes, ChannelTypes, OutputTypes

(* and then. *)
LEMMA TypesAreNext ==
    ASSUME SenderTypes', ChannelTypes', OutputTypes' PROVE GraphTypes'
  BY DEF GraphTypes, SenderTypes, ChannelTypes, OutputTypes

(* No more checks are queued than there are. *)
LEMMA SizesAre ==
    ASSUME GraphTypes
    PROVE  checks \in Nat /\ Len(perfdata) \in Nat /\ Len(perfdata) <= checks
  BY DEF GraphTypes

(* Each action keeps the types: an event is sent; *)
LEMMA SentTypes ==
    ASSUME GraphTypes, NEW e \in GraphEvent, e.time <= checks, e.type # "live",
           channel' = Append(channel, e), checks' = checks
    PROVE  ChannelTypes'
<1>1. PICK n \in Nat : /\ n = Len(channel) /\ Len(channel') = n + 1 /\ channel'[n + 1] = e
                       /\ \A i \in 1 .. n : channel'[i] = channel[i]
  BY OneMore
<1>2. channel' \in Seq(GraphEvent)
  BY OneMore
<1>3. \A i \in 1 .. n + 1 : i = n + 1 \/ i \in 1 .. n
  OBVIOUS
<1>4. \A i \in 1 .. n :
          channel[i].time <= checks /\ (channel[i].type = "live" => channel[i].time # 0)
  BY <1>1 DEF GraphTypes
<1> QED
  BY <1>1, <1>2, <1>3, <1>4 DEF ChannelTypes

(* the output does nothing; *)
LEMMA OutputSame ==
    ASSUME GraphTypes, UNCHANGED <<held, rrd, checks>> PROVE OutputTypes'
  BY DEF GraphTypes, OutputTypes

(* a check is published; *)
LEMMA PublishTypes ==
    ASSUME GraphTypes, StoragePublish PROVE GraphTypes'
<1>1. PICK c, n \in Nat : c = checks /\ n = Len(perfdata) /\ n <= c
  BY SizesAre
<1>2. PICK t \in Nat : t = c + 1
  OBVIOUS
<1>3. PICK l \in Seq(GraphEvent) : l = <<Checked("status", t), Checked("metric", t)>>
  BY StatusAndMetric
<1>4. /\ checks' = t /\ perfdata' = Append(perfdata, t) /\ channel' = channel \o l
      /\ UNCHANGED <<dataBin, rpc, graph, rows, started, missing, spoiled, held, rrd>>
  BY <1>1, <1>2, <1>3 DEF StoragePublish, historyVars
<1>5. SenderTypes'
  <2>1. perfdata \in Seq(Nat)
    BY DEF GraphTypes
  <2>2. /\ perfdata' \in Seq(Nat) /\ Len(perfdata') = n + 1 /\ perfdata'[n + 1] = t
        /\ \A i \in 1 .. n : perfdata'[i] = perfdata[i]
    BY <1>1, <1>4, <2>1
  <2>3. ASSUME NEW i \in 1 .. n + 1 PROVE perfdata'[i] = t - (n + 1) + i
    <3>1. CASE i = n + 1
      <4>1. t - (n + 1) + (n + 1) = t
        OBVIOUS
      <4> QED
        BY <2>2, <3>1, <4>1
    <3>2. CASE i \in 1 .. n
      <4>1. perfdata[i] = c - n + i
        BY <1>1, <3>2 DEF GraphTypes
      <4>2. c - n + i = t - (n + 1) + i
        BY <1>2
      <4> QED
        BY <2>2, <3>2, <4>1, <4>2
    <3> QED
      BY <3>1, <3>2
  <2>4. c - n = t - (n + 1) /\ n + 1 <= t /\ 1 .. c \subseteq 1 .. t /\ 0 .. c \subseteq 0 .. t
    BY <1>1, <1>2
  <2>5. dataBin = 1 .. c - n
    BY <1>1 DEF GraphTypes
  <2>6. rows \subseteq 1 .. c /\ started \in 0 .. c
    BY <1>1 DEF GraphTypes
  <2>7. /\ rpc \in {"wait", "next", "start", "select", "rows", "done"} /\ graph \in Graph
        /\ missing \in [Graph -> SUBSET Nat] /\ spoiled \in [Graph -> BOOLEAN]
    BY DEF GraphTypes
  <2>8. rows' \subseteq 1 .. t /\ started' \in 0 .. t
    BY <1>4, <2>4, <2>6
  <2> QED
    BY <1>4, <2>2, <2>3, <2>4, <2>5, <2>7, <2>8 DEF SenderTypes
<1>6. ChannelTypes'
  <2>1. Len(l) = 2 /\ l[1] = Checked("status", t) /\ l[2] = Checked("metric", t)
    BY <1>3, StatusAndMetric
  <2>2. 1 \in 1 .. 2 /\ 2 \in 1 .. 2 /\ t # 0 /\ t <= t
    BY <1>2
  <2>3. PICK m \in Nat : /\ m = Len(channel) /\ Len(channel') = m + 2
                         /\ \A i \in 1 .. m : channel'[i] = channel[i]
                         /\ channel'[m + 1] = l[1] /\ channel'[m + 2] = l[2]
    BY <1>4, <2>1, <2>2, JoinedIs
  <2>4. channel' \in Seq(GraphEvent)
    BY <1>4, JoinedIs
  <2>5. channel'[m + 1].time = t /\ channel'[m + 2].time = t
    BY <2>1, <2>3 DEF Checked
  <2>6. ASSUME NEW i \in 1 .. m
        PROVE  channel'[i].time <= t /\ (channel'[i].type = "live" => channel'[i].time # 0)
    <3>1. channel[i].time <= c /\ (channel[i].type = "live" => channel[i].time # 0)
      BY <1>1, <2>3 DEF GraphTypes
    <3>2. channel[i] \in GraphEvent
      BY <2>3 DEF GraphTypes
    <3>3. channel[i].time \in Nat
      BY <3>2 DEF GraphEvent
    <3>4. channel[i].time <= t
      BY <1>2, <3>1, <3>3
    <3> QED
      BY <2>3, <3>1, <3>4
  <2>7. \A i \in 1 .. m + 2 : i = m + 1 \/ i = m + 2 \/ i \in 1 .. m
    OBVIOUS
  <2>8. \A i \in 1 .. m + 2 :
           channel'[i].time <= t /\ (channel'[i].type = "live" => channel'[i].time # 0)
    BY <2>2, <2>5, <2>6, <2>7
  <2> QED
    BY <1>4, <2>3, <2>4, <2>8 DEF ChannelTypes
<1>7. OutputTypes'
  <2>1. held \in [Graph -> Seq(Nat)] /\ rrd \in [Graph -> SUBSET Nat]
    BY DEF GraphTypes
  <2>2. ASSUME NEW g \in Graph, NEW i \in 1 .. Len(held[g]) PROVE held[g][i] <= t
    <3>1. PICK h \in Seq(Nat) : h = held[g]
      BY <2>1
    <3>2. h[i] \in Nat
      BY <2>2, <3>1
    <3>3. h[i] <= c
      BY <1>1, <2>2, <3>1 DEF GraphTypes
    <3>4. h[i] <= t
      BY <1>2, <3>2, <3>3
    <3> QED
      BY <3>1, <3>4
  <2>3. ASSUME NEW g \in Graph, NEW u \in rrd[g] PROVE u <= t
    <3>1. u \in Nat
      BY <2>1
    <3>2. u <= c
      BY <1>1 DEF GraphTypes
    <3> QED
      BY <1>2, <3>1, <3>2
  <2> QED
    BY <1>4, <2>1, <2>2, <2>3 DEF OutputTypes
<1> QED
  BY <1>5, <1>6, <1>7, TypesAreNext

(* the perfdata is stored; *)
LEMMA StoreTypes ==
    ASSUME GraphTypes, StoreChecks PROVE GraphTypes'
<1>1. PICK c, n \in Nat : c = checks /\ n = Len(perfdata) /\ n <= c
  BY SizesAre
<1>2. /\ perfdata' = << >> /\ dataBin' = dataBin \union ToSet(perfdata)
      /\ UNCHANGED <<checks, channel, rpc, graph, rows, started, missing, spoiled, held, rrd>>
  BY DEF StoreChecks, historyVars
<1>3. dataBin = 1 .. c - n /\ \A i \in 1 .. n : perfdata[i] = c - n + i
  BY <1>1 DEF GraphTypes
<1>4. \A u : u \in ToSet(perfdata) <=> \E i \in 1 .. n : u = perfdata[i]
  <2>1. DOMAIN perfdata = 1 .. n
    BY <1>1 DEF GraphTypes
  <2> QED
    BY <2>1 DEF ToSet
<1>5. \A u : u \in dataBin' <=> u \in 1 .. c - n \/ \E i \in 1 .. n : u = c - n + i
  BY <1>2, <1>3, <1>4
<1>6. ASSUME NEW u \in 1 .. c PROVE u \in 1 .. c - n \/ \E i \in 1 .. n : u = c - n + i
  <2>1. PICK d \in Nat : d = c - n
    BY <1>1
  <2>2. CASE u <= d
    BY <2>1, <2>2
  <2>3. CASE ~ (u <= d)
    <3>1. u - d \in 1 .. n /\ u = c - n + (u - d)
      BY <1>1, <2>1, <2>3
    <3> QED
      BY <3>1
  <2> QED
    BY <2>2, <2>3
<1>7. \A u \in 1 .. c - n : u \in 1 .. c
  BY <1>1
<1>8. \A i \in 1 .. n : c - n + i \in 1 .. c
  BY <1>1
<1>9. dataBin' = 1 .. c
  BY <1>5, <1>6, <1>7, <1>8
<1>10. perfdata' \in Seq(Nat) /\ Len(perfdata') = 0 /\ 1 .. 0 = {} /\ c - 0 = c /\ 0 <= c
  BY <1>2
<1>11. SenderTypes'
  <2>1. /\ rpc \in {"wait", "next", "start", "select", "rows", "done"} /\ graph \in Graph
        /\ missing \in [Graph -> SUBSET Nat] /\ spoiled \in [Graph -> BOOLEAN]
        /\ rows \subseteq 1 .. checks /\ started \in 0 .. checks
    BY DEF GraphTypes
  <2> QED
    BY <1>1, <1>2, <1>9, <1>10, <2>1 DEF SenderTypes
<1>12. ChannelTypes'
  BY <1>2 DEF ChannelTypes, GraphTypes
<1> QED
  BY <1>2, <1>11, <1>12, OutputSame, TypesAreNext

(* the checks are left alone; *)
LEMMA SenderSame ==
    ASSUME GraphTypes, UNCHANGED <<checks, perfdata, dataBin>>,
           rpc' \in {"wait", "next", "start", "select", "rows", "done"}, graph' \in Graph,
           rows' \subseteq 1 .. checks, started' \in 0 .. checks,
           missing' \in [Graph -> SUBSET Nat], spoiled' \in [Graph -> BOOLEAN]
    PROVE  SenderTypes'
  BY DEF GraphTypes, SenderTypes

(* orders and rows are sent; *)
LEMMA SendTypes ==
    ASSUME GraphTypes,
           \/ RemoveGraph \/ SendRebuildStart \/ SendRow \/ SendRebuildEnd \/ RebuildFails
    PROVE  GraphTypes'
<1>1. /\ rpc \in {"wait", "next", "start", "select", "rows", "done"} /\ graph \in Graph
      /\ missing \in [Graph -> SUBSET Nat] /\ spoiled \in [Graph -> BOOLEAN]
      /\ rows \subseteq 1 .. checks /\ started \in 0 .. checks /\ checks \in Nat
      /\ "status" \in Graph /\ "metric" \in Graph
  BY DEF GraphTypes, Graph
<1>2. UNCHANGED <<checks, perfdata, dataBin, held, rrd, missing>>
  BY DEF RemoveGraph, SendRebuildStart, SendRow, SendRebuildEnd, RebuildFails, Proceed,
         senderVars, historyVars
<1>3. /\ rpc' \in {"wait", "next", "start", "select", "rows", "done"} /\ graph' \in Graph
      /\ rows' \subseteq 1 .. checks /\ started' \in 0 .. checks
  <2>1. 0 \in 0 .. checks /\ checks \in 0 .. checks
    BY <1>1
  <2> QED
    BY <1>1, <2>1 DEF RemoveGraph, SendRebuildStart, SendRow, SendRebuildEnd, RebuildFails, Proceed,
                      senderVars, historyVars
<1>4. spoiled' \in [Graph -> BOOLEAN]
  BY <1>1 DEF RemoveGraph, SendRebuildStart, SendRow, SendRebuildEnd, RebuildFails, historyVars
<1>5. SenderTypes'
  BY <1>1, <1>2, <1>3, <1>4, SenderSame
<1>6. 0 <= checks
  BY <1>1
<1>7. ChannelTypes'
  <2>1. ASSUME NEW g \in Graph, NEW type \in {"start", "end", "remove"},
               channel' = Append(channel, Order(type, g))
        PROVE  ChannelTypes'
    <3>1. PICK e \in GraphEvent : e = Order(type, g) /\ e.time = 0 /\ e.type # "live"
      BY OrderIs
    <3> QED
      BY <1>2, <1>6, <2>1, <3>1, SentTypes
  <2>2. CASE SendRow
    <3>1. PICK t \in rows : channel' = Append(channel, Stored(graph, t))
      BY <2>2 DEF SendRow, PublishGraph
    <3>2. t \in Nat /\ t <= checks
      BY <1>1
    <3>3. PICK e \in GraphEvent : e = Stored(graph, t) /\ e.time = t /\ e.type # "live"
      BY <1>1, <3>2, StoredIs
    <3> QED
      BY <1>2, <3>1, <3>2, <3>3, SentTypes
  <2>3. CASE RemoveGraph \/ SendRebuildStart \/ SendRebuildEnd \/ RebuildFails
    BY <1>1, <2>1, <2>3 DEF RemoveGraph, SendRebuildStart, SendRebuildEnd, RebuildFails, PublishGraph
  <2> QED
    BY <2>2, <2>3
<1> QED
  BY <1>2, <1>5, <1>7, OutputSame, TypesAreNext

(* nothing is sent; *)
LEMMA IdleTypes ==
    ASSUME GraphTypes,
           \/ AskRebuild \/ OpenDb \/ NextIndexToRebuild \/ SelectData \/ SetRebuilt
           \/ ConnectionLost \/ AskStop \/ Stop \/ ServerStops \/ ServerStarts
           \/ UNCHANGED rrdVars
    PROVE  GraphTypes'
<1>1. /\ rpc \in {"wait", "next", "start", "select", "rows", "done"} /\ graph \in Graph
      /\ missing \in [Graph -> SUBSET Nat] /\ spoiled \in [Graph -> BOOLEAN]
      /\ rows \subseteq 1 .. checks /\ started \in 0 .. checks /\ checks \in Nat
  BY DEF GraphTypes
<1>2. UNCHANGED <<checks, perfdata, dataBin, held, rrd, channel, graph, spoiled>>
  BY DEF AskRebuild, OpenDb, NextIndexToRebuild, SelectData, SetRebuilt, ConnectionLost, AskStop,
         Stop, ServerStops, ServerStarts, rrdVars, Proceed, senderVars, historyVars
<1>3. rpc' \in {"wait", "next", "start", "select", "rows", "done"}
  BY <1>1 DEF AskRebuild, OpenDb, NextIndexToRebuild, SelectData, SetRebuilt, ConnectionLost, AskStop,
         Stop, ServerStops, ServerStarts, rrdVars, Proceed, senderVars, historyVars
<1>4. rows' \subseteq 1 .. checks /\ started' \in 0 .. checks
      /\ missing' \in [Graph -> SUBSET Nat]
  <2>1. CASE SelectData
    <3>1. dataBin \subseteq 1 .. checks /\ 0 \in 0 .. checks
      <4>1. PICK n \in Nat : n = Len(perfdata) /\ n <= checks /\ dataBin = 1 .. checks - n
        BY SizesAre DEF GraphTypes
      <4> QED
        BY <1>1, <4>1
    <3>2. (1 .. started) \ dataBin \in SUBSET Nat
      OBVIOUS
    <3> QED
      BY <1>1, <2>1, <3>1, <3>2 DEF SelectData
  <2>2. CASE ~ SelectData
    BY <1>1, <2>2 DEF AskRebuild, OpenDb, NextIndexToRebuild, SetRebuilt, ConnectionLost, AskStop,
         Stop, ServerStops, ServerStarts, rrdVars, Proceed, senderVars, historyVars
  <2> QED
    BY <2>1, <2>2
<1>5. SenderTypes'
  BY <1>1, <1>2, <1>3, <1>4, SenderSame
<1>6. ChannelTypes'
  BY <1>2 DEF ChannelTypes, GraphTypes
<1> QED
  BY <1>2, <1>5, <1>6, OutputSame, TypesAreNext

(* the storage process dies; *)
LEMMA CrashTypes ==
    ASSUME GraphTypes, Crash PROVE GraphTypes'
<1>1. /\ channel' = channel \o Again /\ rpc' = "wait" /\ rows' = {} /\ graph' = "metric"
      /\ started' = 0 /\ spoiled' \in [Graph -> BOOLEAN]
      /\ UNCHANGED <<checks, perfdata, dataBin, held, rrd, missing>>
  <2>1. \A g \in Graph : (spoiled[g] \/ (rpc \in {"select", "rows"} /\ g = graph)) \in BOOLEAN
    BY DEF GraphTypes
  <2> QED
    BY <2>1 DEF Crash, Again
<1>2. checks \in Nat /\ 0 \in 0 .. checks /\ "metric" \in Graph /\ missing \in [Graph -> SUBSET Nat]
  BY DEF GraphTypes, Graph
<1>3. SenderTypes'
  BY <1>1, <1>2, SenderSame
<1>4. PICK n, m \in Nat : /\ n = Len(channel) /\ m = Len(Again) /\ Len(channel') = n + m
                          /\ channel' \in Seq(GraphEvent)
                          /\ \A i \in 1 .. n : channel'[i] = channel[i]
                          /\ \A i \in n + 1 .. n + m :
                                i - n \in 1 .. m /\ channel'[i] = Again[i - n]
  BY <1>1, AgainIs, JoinedIs
<1>5. \A i \in 1 .. n :
         channel[i].time <= checks /\ (channel[i].type = "live" => channel[i].time # 0)
  BY <1>4 DEF GraphTypes
<1>6. \A i \in 1 .. m : Again[i].time <= checks /\ Again[i].time # 0
  BY <1>4, AgainIs
<1>7. \A i \in 1 .. n + m : i \in 1 .. n \/ i \in n + 1 .. n + m
  OBVIOUS
<1>8. \A i \in 1 .. n + m :
         channel'[i].time <= checks /\ (channel'[i].type = "live" => channel'[i].time # 0)
  BY <1>4, <1>5, <1>6, <1>7
<1>9. ChannelTypes'
  BY <1>1, <1>4, <1>8 DEF ChannelTypes
<1> QED
  BY <1>1, <1>3, <1>9, OutputSame, TypesAreNext

(* the RRD process starts again; *)
LEMMA RestartTypes ==
    ASSUME GraphTypes, RrdRestart PROVE GraphTypes'
<1>1. /\ held' = [g \in Graph |-> NoCache]
      /\ spoiled' = [g \in Graph |-> spoiled[g] \/ held[g] # NoCache]
      /\ UNCHANGED <<checks, perfdata, dataBin, rpc, graph, rows, started, channel, rrd, missing>>
  BY DEF RrdRestart, senderVars
<1>2. \A g \in Graph : (spoiled[g] \/ held[g] # NoCache) \in BOOLEAN
  BY DEF GraphTypes
<1>3. spoiled' \in [Graph -> BOOLEAN]
  BY <1>1, <1>2
<1>4. SenderTypes'
  BY <1>1, <1>3, SenderSame DEF GraphTypes
<1>5. ChannelTypes'
  BY <1>1 DEF ChannelTypes, GraphTypes
<1>6. NoCache \in Seq(Nat) /\ Len(NoCache) = 1 /\ \A i \in 1 .. 1 : NoCache[i] = 0
  BY DEF NoCache
<1>7. checks \in Nat /\ 0 <= checks
  BY DEF GraphTypes
<1>8. OutputTypes'
  BY <1>1, <1>6, <1>7 DEF OutputTypes, GraphTypes
<1> QED
  BY <1>4, <1>5, <1>8, TypesAreNext

(* the output writes. *)
LEMMA WriteTypes ==
    ASSUME GraphTypes, OutputWrite PROVE GraphTypes'
<1>0. "metric" \in Graph
  BY DEF Graph
<1>1. PICK e \in GraphEvent : e = channel[1]
  BY <1>0, WriteIs
<1>2. Took /\ UNCHANGED <<checks, perfdata, dataBin, rpc, graph, rows, started, missing, spoiled>>
  BY <1>0, <1>1, WriteIs DEF OutputWrite, senderVars, historyVars
<1>3. SenderTypes'
  BY <1>2, SenderSame DEF GraphTypes
<1>4. PICK n \in Nat : /\ n = Len(channel') /\ Len(channel) = n + 1 /\ channel' \in Seq(GraphEvent)
                       /\ \A i \in 1 .. n : channel'[i] = channel[i + 1]
  BY <1>2, TookIs
<1>5. ChannelTypes'
  <2>1. \A i \in 1 .. n : i + 1 \in 1 .. n + 1
    OBVIOUS
  <2> QED
    BY <1>2, <1>4, <2>1 DEF ChannelTypes, GraphTypes
<1>6. checks \in Nat /\ e.time \in Nat /\ e.time <= checks /\ 0 <= checks
  <2>1. 1 \in 1 .. n + 1
    OBVIOUS
  <2> QED
    BY <1>1, <1>4, <2>1 DEF GraphTypes, GraphEvent
<1>7. ASSUME NEW g \in Graph
      PROVE  /\ held'[g] \in Seq(Nat) /\ \A j \in 1 .. Len(held'[g]) : held'[g][j] <= checks
             /\ rrd'[g] \subseteq Nat /\ \A u \in rrd'[g] : u <= checks
  <2>1. PICK h \in Seq(Nat), f \in SUBSET Nat : h = held[g] /\ f = rrd[g]
    BY DEF GraphTypes
  <2>2. (\A j \in 1 .. Len(h) : h[j] <= checks /\ h[j] \in Nat) /\ \A u \in f : u <= checks
    BY <2>1 DEF GraphTypes
  <2>3. held'[g] \in {h, << >>, NoCache, Append(h, e.time)}
    <3>1. e.type \in {"live", "row", "start", "end", "remove"}
      BY DEF GraphEvent
    <3> QED
      BY <1>1, <2>1, <3>1, WriteIs
  <2>4. rrd'[g] \in {f, {}, Update(f, e.time), UpdateAll(f, h)}
    <3>1. e.type \in {"live", "row", "start", "end", "remove"}
      BY DEF GraphEvent
    <3> QED
      BY <1>1, <2>1, <3>1, WriteIs
  <2>5. held'[g] \in Seq(Nat)
    <3>1. << >> \in Seq(Nat) /\ NoCache \in Seq(Nat)
      BY DEF NoCache
    <3>2. Append(h, e.time) \in Seq(Nat)
      BY <1>6
    <3> QED
      BY <2>3, <3>1, <3>2
  <2>6. ASSUME NEW j \in 1 .. Len(held'[g]) PROVE held'[g][j] <= checks
    <3>1. 0 \in Nat /\ (Is(g, 1, "live") => channel[1].time <= checks)
      BY <1>1, <1>6
    <3> QED
      BY <1>1, <1>6, <2>1, <2>2, <2>6, <3>1, WriteKept DEF Kept
  <2>7. \A u \in rrd'[g] : u \in Nat /\ u <= checks
    <3>1. \A u \in Update(f, e.time) : u \in f \/ u = e.time
      BY UpdateIs
    <3>2. \A u \in UpdateAll(f, h) : u \in f \/ \E i \in 1 .. Len(h) : u = h[i]
      BY UpdateAllIs
    <3> QED
      BY <1>6, <2>2, <2>4, <3>1, <3>2
  <2> QED
    BY <2>5, <2>6, <2>7
<1>8. OutputTypes'
  BY <1>2, <1>7, WriteKeepsGraphs DEF OutputTypes
<1> QED
  BY <1>3, <1>5, <1>8, TypesAreNext

(* Every step keeps the types. *)
LEMMA GraphStepTypes ==
    ASSUME GraphTypes, [RrdNext]_rrdVars PROVE GraphTypes'
  BY PublishTypes, StoreTypes, SendTypes, IdleTypes, CrashTypes, RestartTypes, WriteTypes
     DEF RrdNext, RebuilderStep, Rebuilder

(* The invariant is inductive. *)
LEMMA GraphStep ==
    ASSUME GraphInd, [RrdNext]_rrdVars PROVE GraphInd'
<1>1. ASSUME NEW g \in Graph PROVE GraphOK(g)'
  BY <1>1, GraphStepOK DEF GraphInd
<1>2. GraphTypes'
  BY GraphStepTypes DEF GraphInd
<1> QED
  BY <1>1, <1>2 DEF GraphInd

(* In the beginning the one check is known to be missing. *)
LEMMA GraphInit ==
    ASSUME RrdInit PROVE GraphInd
<1>1. GraphTypes
  <2>1. /\ << >> \in Seq(GraphEvent) /\ << >> \in Seq(Nat) /\ Len(<< >>) = 0 /\ 1 .. 0 = {}
        /\ NoCache \in Seq(Nat) /\ Len(NoCache) = 1 /\ \A i \in 1 .. 1 : NoCache[i] = 0
    BY DEF NoCache
  <2>2. 1 .. 1 - 0 = {1} /\ 0 \in 0 .. 1 /\ 0 <= 1 /\ {1} \in SUBSET Nat
    OBVIOUS
  <2>3. SenderTypes
    BY <2>1, <2>2 DEF RrdInit, SenderTypes, Graph
  <2>4. ChannelTypes
    BY <2>1 DEF RrdInit, ChannelTypes
  <2>5. OutputTypes
    BY <2>1, <2>2 DEF RrdInit, OutputTypes, NoFile
  <2> QED
    BY <2>3, <2>4, <2>5, TypesAre
<1>2. ASSUME NEW g \in Graph PROVE Plain(g)
  <2>1. Len(channel) = 0 /\ 1 .. 0 = {} /\ \A t \in 1 .. 1 : t = 1
    BY DEF RrdInit
  <2> QED
    BY <2>1 DEF RrdInit, Plain, Rebuilding
<1> QED
  BY <1>1, <1>2 DEF GraphInd, GraphOK

(* With nothing on its way the files are what the invariant says. *)
LEMMA GraphIndKept ==
    ASSUME GraphInd PROVE GraphKept
<1>1. SUFFICES ASSUME NEW g \in Graph, channel = << >>, held[g] = NoCache, ~ Rebuilding(g),
                      ~ spoiled[g], NEW t \in 1 .. checks, t \notin missing[g]
               PROVE  t \in rrd[g]
  BY DEF GraphKept
<1>2. Len(channel) = 0 /\ 1 .. 0 = {} /\ 0 .. 0 = {0} /\ 0 + 1 .. 0 = {}
  BY <1>1
<1>3. Plain(g)
  <2>1. ASSUME NEW p \in 0 .. Len(channel), Within(g, p) PROVE FALSE
    BY <1>1, <1>2, <2>1 DEF Within, Begun
  <2> QED
    BY <1>1, <2>1 DEF GraphInd, GraphOK
<1> QED
  BY <1>1, <1>2, <1>3 DEF Plain, Arrives

(* For any number of checks, rebuilds and mishaps: when all is written, a  *)
(* graph holds every check but those published before a rebuild began and  *)
(* stored after its SELECT (GraphKept), whatever is published while        *)
(* rebuilder::_run sends the history and rrd::output keeps values back.    *)
THEOREM GraphsKept == RrdSpec => []GraphKept
<1>1. RrdInit => GraphInd
  BY GraphInit
<1>2. GraphInd /\ [RrdNext]_rrdVars => GraphInd'
  BY GraphStep
<1>3. GraphInd => GraphKept
  BY GraphIndKept
<1> QED
  BY <1>1, <1>2, <1>3, PTL DEF RrdSpec

=============================================================================
