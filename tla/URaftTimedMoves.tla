-------------------------- MODULE URaftTimedMoves ---------------------------
(***************************************************************************)
(* Each conjunct of PInv, and with them that there is one President at a   *)
(* time, survives a step of one daemon, described by what it does to the   *)
(* daemon's clock, role, votes and packets (Moves), and the passing of time. *)
(***************************************************************************)
EXTENDS URaftTimedSteps, URaftVotes

-----------------------------------------------------------------------------
(* The clocks.                                                             *)

\* Periods, timeouts and moments are numbers, and later times are later.
LEMMA Times ==
    /\ Len(Phase) \in Nat \ {0}
    /\ ElectionTimeoutMin \in Nat \ {0}
    /\ Moment(0) = 0
    /\ \A x \in Nat : Moment(x) \in Nat /\ Moment(x + 1) = Moment(x) + Len(Phase)
    /\ \A x, y \in Nat : x <= y => Moment(x) <= Moment(y)
    /\ ElectionTimeoutMin = Moment(LoyalTicks)
<1>1. Len(Phase) \in Nat \ {0}
  BY PhaseAssumption
<1>2. \A p \in Nat \ {0} : \A x \in Nat : x * p \in Nat /\ (x + 1) * p = x * p + p
  OBVIOUS
<1>3. \A p \in Nat \ {0} : \A x \in Nat \ {0} : x * p \in Nat \ {0}
  OBVIOUS
<1>4. \A p \in Nat \ {0} : \A x, y \in Nat : x <= y => x * p <= y * p
  OBVIOUS
<1>5. QED
  BY <1>1, <1>2, <1>3, <1>4, BoundAssumption DEF Moment, ElectionTimeoutMin

\* Every server has a slot, and it has it alone.
LEMMA Turns ==
    /\ \A a \in Server : Turn(a) \in Slots /\ Phase[Turn(a)] = a
    /\ \A k \in Slots : \A a \in Server : Phase[k] = a <=> k = Turn(a)
<1>1. \A a \in Server : Turn(a) \in Slots /\ Phase[Turn(a)] = a
  BY ZenonT(30), PhaseAssumption DEF Server, Slots, Turn
<1>2. QED
  BY ZenonT(30), <1>1, PhaseAssumption DEF Slots

\* At most a period has passed since the last heartbeat of a server, and less
\* unless its heartbeat is due.
LEMMA Lapses ==
    ASSUME Clocks, NEW a \in Server
    PROVE  /\ Lapse(a) \in 0..Len(Phase)
           /\ Lapse(a) < Len(Phase) \/ (slot = Turn(a) /\ due)
<1>1. Len(Phase) \in Nat \ {0} /\ Turn(a) \in 1..Len(Phase) /\ slot \in 1..Len(Phase)
  BY Times, Turns DEF Clocks, Slots
<1>2. QED
  BY <1>1 DEF Lapse

\* A slot is one moment on every server's clock.
LEMMA TimePasses ==
    ASSUME Clocks, TypeOK, TimeStep, NEW a \in Server
    PROVE  Lapse(a)' = Lapse(a) + 1 /\ Now(a)' = Now(a) + 1
<1>1. /\ Len(Phase) \in Nat \ {0} /\ Turn(a) \in 1..Len(Phase)
      /\ slot \in 1..Len(Phase)
  BY Times, Turns DEF Clocks, Slots
<1>2. /\ ~due /\ due' /\ slot' = IF slot = Len(Phase) THEN 1 ELSE slot + 1
      /\ state' = state
  BY DEF TimeStep
<1>3. Lapse(a)' = Lapse(a) + 1
  BY SMTT(30), <1>1, <1>2 DEF Lapse
<1>4. Moment(state[a].local_time) \in Nat
  BY ZenonT(30), Times, Numbers DEF Server
<1>5. Lapse(a) \in Nat
  BY <1>1, Lapses
<1>6. QED
  BY <1>2, <1>3, <1>4, <1>5 DEF Now

\* No other step is, whether the clock is read or not.
LEMMA ClockKept ==
    ASSUME \A a \in Server : state'[a].local_time = state[a].local_time,
           UNCHANGED <<slot, due>>
    PROVE  \A a \in Server : Now(a)' = Now(a) /\ Lapse(a)' = Lapse(a)
BY ZenonT(30) DEF Now, Lapse

\* The heartbeat of a server turns the period behind it into a tick.
LEMMA ClockTicks ==
    ASSUME Clocks, TypeOK, NEW n \in Node, due, Phase[slot] = n,
           ~due', slot' = slot,
           state'[n].local_time = state[n].local_time + 1,
           \A i \in Node \ {n} : state'[i] = state[i]
    PROVE  /\ \A a \in Server : Now(a)' = Now(a)
           /\ \A a \in Server : a = n => slot = Turn(a) /\ Lapse(a) = Len(Phase) /\ Lapse(a)' = 0
           /\ \A a \in Server : a # n => Lapse(a)' = Lapse(a)
<1>1. \A a \in Server : a = n <=> slot = Turn(a)
  BY Turns DEF Clocks
<1>2. \A a \in Server : a = n => Lapse(a) = Len(Phase) /\ Lapse(a)' = 0
  BY ZenonT(30), <1>1 DEF Lapse
<1>3. \A a \in Server : a # n => Lapse(a)' = Lapse(a)
  BY ZenonT(30), <1>1 DEF Lapse
<1>4. ASSUME NEW a \in Server PROVE Now(a)' = Now(a)
  <2>1. state[a].local_time \in Nat
    BY ZenonT(30), Numbers DEF Server
  <2>2. CASE a # n
    BY ZenonT(30), <1>3, <2>2 DEF Now, Server
  <2>3. CASE a = n
    <3>1. /\ Now(a) = Moment(state[a].local_time) + Len(Phase)
          /\ Now(a)' = Moment(state[a].local_time + 1) + 0
      BY ZenonT(30), <1>2, <2>3 DEF Now
    <3>2. /\ Moment(state[a].local_time) \in Nat /\ Len(Phase) \in Nat
          /\ Moment(state[a].local_time + 1) = Moment(state[a].local_time) + Len(Phase)
      BY ZenonT(30), <2>1, Times
    <3>3. QED
      BY <3>1, <3>2
  <2>4. QED  BY <2>2, <2>3
<1>5. QED
  BY ZenonT(30), <1>1, <1>2, <1>3, <1>4

-----------------------------------------------------------------------------
(* Every step of a daemon is a move.                                       *)

\* The numbers and the role of a node after a step.
LEMMA NextNumbers ==
    ASSUME TypeOK', NEW n \in Node
    PROVE  /\ state'[n].local_time \in Nat /\ state'[n].current_term \in Nat
           /\ \A i \in Node : state'[n].heartbeat[i] \in Nat
           /\ state'[n].type \in {"follower", "candidate", "leader"}
           /\ state'[n].vote_granted \subseteq Node
<1>1. state'[n] \in RaftState
  BY ZenonT(30) DEF TypeOK
<1>2. QED
  BY <1>1, StateFields, BoundAssumption

\* A step that reads no clock and keeps the agreement.
LEMMA SameClockMoves ==
    ASSUME PInv, NEW n \in Node, SameClock(state[n], state'[n]),
           Alone(n), UNCHANGED <<slot, due>>
    PROVE  /\ \A a \in Server : Now(a)' = Now(a)
           /\ state'[n].local_time = state[n].local_time
           /\ \/ state'[n].loyalty_agreement
              \/ loyal_left'[n] = 0
              \/ ~state[n].loyalty_agreement /\ loyal_left'[n] = loyal_left[n]
              => ClockMoves(n)
<1>1. /\ state'[n].local_time = state[n].local_time
      /\ state'[n].heartbeat = state[n].heartbeat
  BY ZenonT(30) DEF SameClock
<1>2. state[n].local_time \in Nat /\ \A i \in Node : state[n].heartbeat[i] \in Nat
  BY ZenonT(30), Numbers DEF PInv, DInv
<1>3. /\ state'[n].local_time >= state[n].local_time
      /\ \A i \in Node : state'[n].heartbeat[i] >= state[n].heartbeat[i]
  BY <1>1, <1>2
<1>4. \A a \in Server : state'[a].local_time = state[a].local_time
  BY ZenonT(30), <1>1 DEF Alone, Server
<1>5. \A a \in Server : Now(a)' = Now(a)
  BY ZenonT(30), <1>4, ClockKept
<1>6. QED
  BY ZenonT(30), <1>1, <1>3, <1>5 DEF ClockMoves

\* A node in the office it was in votes and governs as before.
LEMMA SameOfficeMoves ==
    ASSUME PInv, NEW n \in Node, SameOffice(state[n], state'[n]),
           state'[n].local_time = state[n].local_time
    PROVE  RoleMoves(n) /\ VoteMoves(n) /\ PresidentMoves(n)
<1>1. /\ state'[n].type = state[n].type /\ state'[n].president = state[n].president
      /\ state'[n].current_term = state[n].current_term
      /\ state'[n].vote_granted = state[n].vote_granted
  BY ZenonT(30) DEF SameOffice
<1>2. state'[n].current_term >= state[n].current_term
  BY <1>1, Numbers DEF PInv, DInv
<1>3. RoleMoves(n)
  BY ZenonT(30), <1>1, <1>2 DEF RoleMoves
<1>4. state[n].type \in {"follower", "candidate", "leader"}
  BY ZenonT(30), Numbers, StateFields DEF PInv, DInv
<1>5. state'[n].type # "follower" \/ state'[n].president => Standing(n)
  BY <1>1, <1>4 DEF Standing, Incumbent, Candidate
<1>6. VoteMoves(n)
  BY ZenonT(30), <1>1, <1>5 DEF VoteMoves, VotesFor
<1>7. PresidentMoves(n)
  BY ZenonT(30), <1>1 DEF PresidentMoves
<1>8. QED
  BY <1>3, <1>6, <1>7

\* A node that retires restarts its election timer.
LEMMA RetiresMoves ==
    ASSUME PInv, NEW n \in Node, state'[n].type = "follower", ~state'[n].president,
           state'[n].current_term >= state[n].current_term,
           wait_left'[n] = ElectionTimeoutMin
    PROVE  RoleMoves(n) /\ VoteMoves(n) /\ PresidentMoves(n)
BY ZenonT(30) DEF RoleMoves, VoteMoves, PresidentMoves

\* A step without new packets.
LEMMA NoPacketMoves ==
    ASSUME msgs' = msgs, NEW n
    PROVE  PacketMoves(n)
BY ZenonT(30) DEF PacketMoves

\* An election timeout, the end of a loyalty agreement, a demotion and a
\* heartbeat are moves.
LEMMA MovesElectionTimeout ==
    ASSUME PInv, NEW n \in Node, StandsUp(n), wait_left[n] = 0,
           loyal_left' = loyal_left, Alone(n), Timing(n), UNCHANGED <<slot, due>>
    PROVE  Moves(n)
<1>2. /\ state'[n].local_time = state[n].local_time
      /\ state'[n].heartbeat = [state[n].heartbeat EXCEPT ![n] = state[n].local_time]
      /\ state'[n].loyalty_agreement = state[n].loyalty_agreement
      /\ state'[n].president = state[n].president
      /\ \A m \in msgs' \ msgs :
           /\ m.rpc = "RequestVote" /\ m.src = n
           /\ m.term = state'[n].current_term
  BY ZenonT(30) DEF StandsUp
<1>3. /\ state[n].local_time \in Nat /\ state[n].heartbeat \in [Node -> Nat]
      /\ state[n].heartbeat[n] <= state[n].local_time
  <2>1. state[n].heartbeat \in [Node -> 0..MaxTime] /\ MaxTime \in Nat
    BY ZenonT(30), Numbers, StateFields, BoundAssumption DEF PInv, DInv
  <2>2. state[n].heartbeat \in [Node -> Nat]
    BY <2>1
  <2>3. QED
    BY ZenonT(30), <2>2, Numbers DEF PInv, DInv, Stamped
<1>4. /\ \A i \in Node \ {n} : state'[n].heartbeat[i] = state[n].heartbeat[i]
      /\ state'[n].heartbeat[n] = state'[n].local_time
  BY ZenonT(30), <1>2, <1>3
<1>5. /\ state'[n].local_time >= state[n].local_time
      /\ \A i \in Node : state'[n].heartbeat[i] >= state[n].heartbeat[i]
  BY <1>2, <1>3, <1>4
<1>6. ClockMoves(n)
  BY ZenonT(30), <1>2, <1>4, <1>5 DEF ClockMoves
<1>7. \A a \in Server : Now(a)' = Now(a)
  <2>1. \A a \in Server : state'[a].local_time = state[a].local_time
    BY ZenonT(30), <1>2 DEF Alone, Server
  <2>2. QED
    BY ZenonT(30), <2>1, ClockKept
<1>8. RoleMoves(n) /\ VoteMoves(n) /\ PresidentMoves(n)
  BY ZenonT(30), <1>2 DEF RoleMoves, VoteMoves, PresidentMoves
<1>9. PacketMoves(n)
  BY <1>2 DEF PacketMoves
<1>10. QED
  BY ZenonT(30), <1>6, <1>7, <1>8, <1>9 DEF Moves

\* The loyalty timer keeps the clock, the role and the packets.
LEMMA MovesLoyaltyExpires ==
    ASSUME PInv, NEW n \in Node, Expires(n), loyal_left'[n] = 0,
           Alone(n), Timing(n), UNCHANGED <<slot, due>>
    PROVE  Moves(n)
<1>2. (\A a \in Server : Now(a)' = Now(a)) /\ ClockMoves(n)
  BY ZenonT(30), SameClockMoves DEF Expires
<1>3. RoleMoves(n) /\ VoteMoves(n) /\ PresidentMoves(n)
  BY ZenonT(30), SameOfficeMoves DEF Expires, SameClock
<1>4. PacketMoves(n)
  BY ZenonT(30), NoPacketMoves DEF Expires
<1>5. QED
  BY ZenonT(30), <1>2, <1>3, <1>4 DEF Moves

\* A demotion is a retirement.
LEMMA MovesDemoteLeader ==
    ASSUME PInv, NEW n \in Node, StepsDown(n),
           wait_left'[n] = ElectionTimeoutMin, loyal_left'[n] = loyal_left[n],
           Alone(n), Timing(n), UNCHANGED <<slot, due>>
    PROVE  Moves(n)
<1>2. (\A a \in Server : Now(a)' = Now(a)) /\ ClockMoves(n)
  BY ZenonT(30), SameClockMoves DEF StepsDown
<1>3. state'[n].current_term >= state[n].current_term
  BY Numbers DEF StepsDown, PInv, DInv
<1>4. RoleMoves(n) /\ VoteMoves(n) /\ PresidentMoves(n)
  BY ZenonT(30), <1>3, RetiresMoves DEF StepsDown
<1>5. PacketMoves(n)
  BY ZenonT(30), NoPacketMoves DEF StepsDown
<1>6. QED
  BY ZenonT(30), <1>2, <1>4, <1>5 DEF Moves

\* With at most one heartbeat of grace, heartbeat keeps a President only on a
\* quorum it counts in that heartbeat.
LEMMA MovesHeartbeat ==
    ASSUME PInv, Grace <= 1, NEW n \in Node, Beats(n), HeartbeatTiming(n),
           Alone(n), Timing(n)
    PROVE  Moves(n)
<1>2. /\ state[n].local_time \in Nat /\ state[n].heartbeat \in [Node -> Nat]
      /\ state[n].heartbeat[n] <= state[n].local_time
      /\ state[n].quorum_loss_streak \in Nat /\ state[n].current_term \in Nat
  <2>1. state[n].heartbeat \in [Node -> 0..MaxTime] /\ MaxTime \in Nat
    BY ZenonT(30), Numbers, StateFields, BoundAssumption DEF PInv, DInv
  <2>2. state[n].heartbeat \in [Node -> Nat]
    BY <2>1
  <2>3. QED
    BY ZenonT(30), <2>2, Numbers DEF PInv, DInv, Stamped
<1>3. /\ state'[n].local_time = state[n].local_time + 1
      /\ state'[n].loyalty_agreement = state[n].loyalty_agreement
      /\ state'[n].current_term = state[n].current_term
      /\ state'[n].vote_granted = state[n].vote_granted
      /\ state'[n].heartbeat = [state[n].heartbeat EXCEPT ![n] = state'[n].local_time]
  BY ZenonT(30) DEF Beats, HeartbeatTiming
<1>4. /\ \A i \in Node \ {n} : state'[n].heartbeat[i] = state[n].heartbeat[i]
      /\ state'[n].heartbeat[n] = state'[n].local_time
  BY ZenonT(30), <1>2, <1>3
<1>5. /\ state'[n].local_time >= state[n].local_time
      /\ state'[n].current_term >= state[n].current_term
      /\ \A i \in Node : state'[n].heartbeat[i] >= state[n].heartbeat[i]
  BY <1>2, <1>3, <1>4
<1>6. ClockMoves(n)
  BY ZenonT(30), <1>3, <1>4, <1>5 DEF ClockMoves, HeartbeatTiming
<1>7. \/ /\ state[n].president /\ ~state'[n].president
         /\ state'[n].type = "follower" /\ msgs' = msgs
      \/ /\ state'[n].type = state[n].type
         /\ state'[n].president =>
              state[n].type = "leader" /\ Cardinality(LoyalVotes(state'[n])) >= Quorum
         /\ \A m \in msgs' \ msgs : m.rpc = "AppendEntries" => state[n].type = "leader"
  <2>1. ~(state[n].quorum_loss_streak + 1 < Grace)
    BY <1>2, BoundAssumption
  <2>2. QED
    BY ZenonT(30), <2>1 DEF Beats, HeartbeatTiming
<1>8. RoleMoves(n)
  BY ZenonT(30), <1>3, <1>5, <1>7 DEF RoleMoves, HeartbeatTiming
<1>9. state'[n].type # "follower" \/ state'[n].president =>
        Standing(n) /\ state'[n].type = state[n].type
  <2>1. state[n].type \in {"follower", "candidate", "leader"}
    BY ZenonT(30), Numbers, StateFields DEF PInv, DInv
  <2>2. QED
    BY <1>7, <2>1 DEF Standing, Incumbent, Candidate
<1>10. VoteMoves(n)
  BY ZenonT(30), <1>3, <1>9 DEF VoteMoves, VotesFor
<1>11. PresidentMoves(n)
  BY ZenonT(30), <1>7 DEF PresidentMoves, HeartbeatTiming
<1>12. PacketMoves(n)
  <2>1. \A m \in msgs' \ msgs :
          /\ m.rpc \in {"AppendEntries", "RequestVote"}
          /\ m.src = n /\ m.term = state'[n].current_term
          /\ m.rpc = "AppendEntries" => m.time = state'[n].local_time
    BY ZenonT(30) DEF Beats, HeartbeatTiming
  <2>2. \A m \in msgs' \ msgs : m.rpc = "AppendEntries" => state'[n].type # "follower"
    BY <1>7
  <2>3. \A m \in msgs' \ msgs : m.rpc # "AEResponse" /\ m.rpc # "RVResponse"
    BY <2>1
  <2>4. QED
    BY ZenonT(30), <2>1, <2>2, <2>3 DEF PacketMoves
<1>13. QED
  BY ZenonT(30), <1>6, <1>8, <1>10, <1>11, <1>12 DEF Moves, HeartbeatTiming

\* A heartbeat of an old term, and a current one.
LEMMA MovesRefuse ==
    ASSUME PInv, NEW n \in Node, NEW m \in msgs, Refuses(n, m), UNCHANGED timers,
           Alone(n), Timing(n), UNCHANGED <<slot, due>>
    PROVE  Moves(n)
<1>1. /\ state' = state /\ loyal_left' = loyal_left
      /\ AnswersAppend(n, m, FALSE) /\ m.term < state[n].current_term
  BY ZenonT(30) DEF Refuses, timers
<1>2. SameClock(state[n], state'[n]) /\ SameOffice(state[n], state'[n])
  BY ZenonT(30), <1>1 DEF SameClock, SameOffice
<1>3. (\A a \in Server : Now(a)' = Now(a)) /\ ClockMoves(n)
  BY ZenonT(30), <1>1, <1>2, SameClockMoves
<1>4. RoleMoves(n) /\ VoteMoves(n) /\ PresidentMoves(n)
  BY ZenonT(30), <1>2, SameOfficeMoves DEF SameClock
<1>5. PacketMoves(n)
  BY <1>1 DEF PacketMoves, AnswersAppend
<1>6. QED
  BY ZenonT(30), <1>3, <1>4, <1>5 DEF Moves

\* A heartbeat of a current term makes a loyal follower.
LEMMA MovesFollow ==
    ASSUME PInv, NEW n \in Node, NEW m \in msgs, Follows(n, m),
           loyal_left'[n] = ElectionTimeoutMin, wait_left'[n] = ElectionTimeoutMin,
           Alone(n), Timing(n), UNCHANGED <<slot, due>>
    PROVE  Moves(n)
<1>1. (\A a \in Server : Now(a)' = Now(a)) /\ ClockMoves(n)
  BY ZenonT(30), SameClockMoves DEF Follows
<1>2. RoleMoves(n)
  BY ZenonT(30) DEF Follows, RoleMoves
<1>3. VoteMoves(n)
  BY <1>2 DEF Follows, VoteMoves, VotesFor, Standing, Incumbent
<1>4. PresidentMoves(n)
  BY ZenonT(30) DEF Follows, PresidentMoves, SameClock
<1>5. PacketMoves(n)
  BY DEF PacketMoves, AnswersAppend, Follows
<1>6. QED
  BY ZenonT(30), <1>1, <1>2, <1>3, <1>4, <1>5 DEF Moves

\* An answer to a heartbeat is counted in the term it was asked in.
LEMMA MovesAnswer ==
    ASSUME PInv, TypeOK', NEW n \in Node, NEW m \in msgs, m.dst = n, CountsAnswer(n, m),
           loyal_left' = loyal_left, Newer(n, m) => wait_left'[n] = ElectionTimeoutMin,
           Alone(n), Timing(n), UNCHANGED <<slot, due>>
    PROVE  Moves(n)
<1>1. /\ msgs' = msgs /\ state'[n].loyalty_agreement = state[n].loyalty_agreement
      /\ state'[n].local_time = state[n].local_time
  BY ZenonT(30) DEF CountsAnswer
<1>2. state[n].current_term \in Nat /\ state'[n].current_term \in Nat
  BY ZenonT(30), Numbers, NextNumbers DEF PInv, DInv
<1>3. RoleMoves(n) /\ VoteMoves(n) /\ PresidentMoves(n)
  <2>1. CASE Newer(n, m) /\ Retires(state[n], state'[n])
    <3>1. state'[n].current_term > state[n].current_term
      BY ZenonT(30), <2>1 DEF Retires
    <3>2. state'[n].current_term >= state[n].current_term
      BY <1>2, <3>1
    <3>3. QED
      BY ZenonT(30), <2>1, <3>2, RetiresMoves DEF Retires
  <2>2. CASE SameOffice(state[n], state'[n])
    BY ZenonT(30), <1>1, <2>2, SameOfficeMoves
  <2>3. QED
    BY ZenonT(30), <2>1, <2>2 DEF CountsAnswer
<1>4. PacketMoves(n)
  BY ZenonT(30), <1>1, NoPacketMoves
<1>5. CASE SameClock(state[n], state'[n])
  <2>1. (\A a \in Server : Now(a)' = Now(a)) /\ ClockMoves(n)
    BY ZenonT(30), <1>1, <1>5, SameClockMoves
  <2>2. QED
    BY ZenonT(30), <1>3, <1>4, <2>1 DEF Moves
<1>6. CASE /\ state[n].type = "leader" /\ m.rpc = "AEResponse"
           /\ m.term = state[n].current_term
           /\ state'[n].heartbeat =
                [state[n].heartbeat EXCEPT
                   ![m.src] = Larger(state[n].heartbeat[m.src], m.req_time)]
  <2>1. /\ m.src \in Node /\ m.src # n /\ m \in RpcResponse
    BY ZenonT(30), <1>6, PacketFields DEF PInv, DInv, TypeOK, IInv, Core, PacketTerms
  <2>2. /\ state[n].heartbeat \in [Node -> 0..MaxTime] /\ m.req_time \in 0..MaxTime
        /\ state[n].local_time \in Nat
    BY ZenonT(30), <2>1, Numbers, StateFields DEF PInv, DInv, RpcResponse
  <2>3. /\ \A i \in Node \ {m.src} : state'[n].heartbeat[i] = state[n].heartbeat[i]
        /\ state'[n].heartbeat[m.src] = Larger(state[n].heartbeat[m.src], m.req_time)
    BY ZenonT(30), <1>6, <2>1, <2>2
  <2>4. /\ \A i \in Node : state'[n].heartbeat[i] >= state[n].heartbeat[i]
        /\ state'[n].heartbeat[m.src] \in {state[n].heartbeat[m.src], m.req_time}
        /\ state'[n].local_time >= state[n].local_time
    BY <1>1, <2>1, <2>2, <2>3, BoundAssumption DEF Larger
  <2>5. ClockMoves(n)
    <3>1. ASSUME NEW i \in Node \ {n}
          PROVE  \/ state'[n].heartbeat[i] = state[n].heartbeat[i]
                 \/ \E p \in msgs :
                      /\ p.rpc = "AEResponse" /\ p.src = i /\ p.dst = n
                      /\ p.req_time = state'[n].heartbeat[i]
                      /\ state[n].type = "leader" /\ p.term = state[n].current_term
      <4>1. CASE i = m.src
        BY ZenonT(30), <1>6, <2>4, <4>1
      <4>2. CASE i # m.src
        BY ZenonT(30), <2>3, <4>2
      <4>3. QED
        BY ZenonT(30), <4>1, <4>2
    <3>2. QED
      BY ZenonT(90), <1>1, <2>1, <2>3, <2>4, <3>1 DEF ClockMoves
  <2>6. \A a \in Server : Now(a)' = Now(a)
    <3>1. \A a \in Server : state'[a].local_time = state[a].local_time
      BY ZenonT(30), <1>1 DEF Alone, Server
    <3>2. QED
      BY ZenonT(30), <3>1, ClockKept
  <2>7. QED
    BY ZenonT(30), <1>3, <1>4, <2>5, <2>6 DEF Moves
<1>7. QED
  BY ZenonT(30), <1>5, <1>6 DEF CountsAnswer

\* A request for a vote and an answer to one.
LEMMA MovesVote ==
    ASSUME PInv, TypeOK', NEW n \in Node, NEW m \in msgs, m.dst = n,
           AnswersVote(n, m) \/ CountsVote(n, m),
           loyal_left' = loyal_left, Newer(n, m) => wait_left'[n] = ElectionTimeoutMin,
           Alone(n), Timing(n), UNCHANGED <<slot, due>>
    PROVE  Moves(n)
<1>1. /\ SameClock(state[n], state'[n])
      /\ state'[n].loyalty_agreement = state[n].loyalty_agreement
      /\ state'[n].local_time = state[n].local_time
  BY ZenonT(30) DEF AnswersVote, CountsVote, SameClock
<1>2. state[n].current_term \in Nat /\ state'[n].current_term \in Nat
  BY ZenonT(30), Numbers, NextNumbers DEF PInv, DInv
<1>3. (\A a \in Server : Now(a)' = Now(a)) /\ ClockMoves(n)
  BY ZenonT(30), <1>1, SameClockMoves
<1>4. ASSUME \/ Newer(n, m) /\ Retires(state[n], state'[n])
             \/ SameOffice(state[n], state'[n])
      PROVE  RoleMoves(n) /\ VoteMoves(n) /\ PresidentMoves(n)
  <2>1. CASE Newer(n, m) /\ Retires(state[n], state'[n])
    <3>1. state'[n].current_term > state[n].current_term
      BY ZenonT(30), <2>1 DEF Retires
    <3>2. state'[n].current_term >= state[n].current_term
      BY <1>2, <3>1
    <3>3. QED
      BY ZenonT(30), <2>1, <3>2, RetiresMoves DEF Retires
  <2>2. CASE SameOffice(state[n], state'[n])
    BY ZenonT(30), <1>1, <2>2, SameOfficeMoves
  <2>3. QED
    BY ZenonT(30), <1>4, <2>1, <2>2
<1>5. CASE AnswersVote(n, m)
  <2>1. RoleMoves(n) /\ VoteMoves(n) /\ PresidentMoves(n)
    BY ZenonT(30), <1>4, <1>5 DEF AnswersVote
  <2>2. PacketMoves(n)
    BY <1>5 DEF AnswersVote, PacketMoves
  <2>3. QED
    BY ZenonT(30), <1>3, <2>1, <2>2 DEF Moves
<1>6. CASE /\ msgs' = msgs
           /\ \/ Newer(n, m) /\ Retires(state[n], state'[n])
              \/ SameOffice(state[n], state'[n])
  BY ZenonT(30), <1>3, <1>4, <1>6, NoPacketMoves DEF Moves
<1>7. CASE /\ m.rpc = "RVResponse" /\ m.term = state[n].current_term
           /\ state[n].type = "candidate" /\ state'[n].type \in {"candidate", "leader"}
           /\ state'[n].president = state[n].president
           /\ state'[n].current_term = state[n].current_term
           /\ \A i \in state'[n].vote_granted :
                i \in state[n].vote_granted \/ (m.result /\ i = m.src)
           /\ \A p \in msgs' \ msgs :
                /\ p.rpc = "AppendEntries" /\ p.src = n
                /\ p.term = state'[n].current_term /\ p.time = state'[n].local_time
  <2>1. state[n].type # "follower" /\ state'[n].type # "follower"
    BY <1>7
  <2>2. RoleMoves(n)
    BY ZenonT(30), <1>7, <2>1 DEF RoleMoves
  <2>3. Standing(n) /\ Candidate(n)
    BY ZenonT(30), <1>7 DEF Standing, Candidate
  <2>4. \A i \in state'[n].vote_granted : VotesFor(i, n)
    BY ZenonT(30), <1>7, <2>3 DEF VotesFor, Granted
  <2>5. VoteMoves(n)
    BY ZenonT(30), <1>7, <2>3, <2>4 DEF VoteMoves
  <2>6. PresidentMoves(n)
    BY ZenonT(30), <1>1, <1>7 DEF PresidentMoves
  <2>7. PacketMoves(n)
    BY <1>7, <2>1 DEF PacketMoves
  <2>8. QED
    BY ZenonT(30), <1>3, <2>2, <2>5, <2>6, <2>7 DEF Moves
<1>8. QED
  BY ZenonT(30), <1>5, <1>6, <1>7 DEF CountsVote

\* What any packet does to the node that receives it.
LEMMA MovesReceive ==
    ASSUME PInv, TypeOK', NEW n \in Node, NEW m \in msgs, m.dst = n, Received(n, m),
           Alone(n), Timing(n), UNCHANGED <<slot, due>>
    PROVE  Moves(n)
BY ZenonT(30), MovesRefuse, MovesFollow, MovesAnswer, MovesVote DEF Received

-----------------------------------------------------------------------------
(* Timers and moments.                                                     *)

\* Outlasts, on the numbers.
LEMMA OutlastsFits ==
    \A left, a, time : Outlasts(left, a, time) <=> Fits(left, Now(a), time)
BY DEF Outlasts, Fits

\* A timer with more slots left fits an earlier time, also a slot later.
LEMMA FitsLater ==
    ASSUME NEW left \in Nat, NEW now \in Nat, NEW time \in Nat, Fits(left, now, time)
    PROVE  /\ \A more \in Nat : left <= more => Fits(more, now, time)
           /\ \A rest \in Nat : left - 1 <= rest => Fits(rest, now + 1, time)
<1>1. Moment(time) \in Nat /\ ElectionTimeoutMin \in Nat
  BY ZenonT(30), Times
<1>2. QED
  BY <1>1 DEF Fits

\* The clock of a server is a number, and shows its last heartbeat or later.
LEMMA NowIs ==
    ASSUME TypeOK, Clocks, NEW a \in Server
    PROVE  /\ Now(a) \in Nat
           /\ \A time \in Nat : time <= state[a].local_time
                => Fits(ElectionTimeoutMin, Now(a), time)
<1>1. Moment(state[a].local_time) \in Nat /\ state[a].local_time \in Nat
  BY ZenonT(30), Times, Numbers DEF Server
<1>2. Lapse(a) \in Nat
  BY Lapses, Times
<1>3. Now(a) \in Nat /\ Now(a) >= Moment(state[a].local_time)
  BY <1>1, <1>2 DEF Now
<1>4. ASSUME NEW time \in Nat, time <= state[a].local_time
      PROVE  Fits(ElectionTimeoutMin, Now(a), time)
  <2>1. /\ Moment(time) <= Moment(state[a].local_time)
        /\ Moment(time) \in Nat /\ ElectionTimeoutMin \in Nat
    BY ZenonT(30), <1>1, <1>4, Times
  <2>2. QED
    BY <1>1, <1>3, <2>1 DEF Fits
<1>5. QED
  BY <1>3, <1>4

\* A step of one node lets the clocks show what they showed.
LEMMA NowKept ==
    ASSUME PInv, TypeOK', Clocks', NEW n \in Node, Moves(n), NEW a \in Server
    PROVE  /\ Now(a) \in Nat /\ Now(a)' = Now(a)
           /\ \A time \in Nat : time <= state'[a].local_time
                => Fits(ElectionTimeoutMin, Now(a), time)
<1>1. Now(a) \in Nat /\ Now(a)' = Now(a)
  BY ZenonT(30), NowIs DEF PInv, DInv, Moves
<1>2. Moment(state'[a].local_time) \in Nat /\ state'[a].local_time \in Nat
  BY ZenonT(30), Times, NextNumbers DEF Server
<1>3. Lapse(a)' \in Nat
  <2>1. Len(Phase) \in Nat \ {0} /\ Turn(a) \in 1..Len(Phase) /\ slot' \in 1..Len(Phase)
    BY Times, Turns DEF Clocks, Slots
  <2>2. QED
    BY <2>1 DEF Lapse
<1>4. Now(a)' = Moment(state'[a].local_time) + Lapse(a)'
  BY ZenonT(30) DEF Now
<1>5. Now(a) >= Moment(state'[a].local_time)
  BY <1>1, <1>2, <1>3, <1>4
<1>6. ASSUME NEW time \in Nat, time <= state'[a].local_time
      PROVE  Fits(ElectionTimeoutMin, Now(a), time)
  <2>1. /\ Moment(time) <= Moment(state'[a].local_time)
        /\ Moment(time) \in Nat /\ ElectionTimeoutMin \in Nat
    BY ZenonT(30), <1>2, <1>6, Times
  <2>2. QED
    BY <1>1, <1>2, <1>5, <2>1 DEF Fits
<1>7. QED
  BY <1>1, <1>6

\* A timer that fits a time fits it after a step, restarted or not.
LEMMA TimerKept ==
    ASSUME PInv, TypeOK', Clocks', NEW n \in Node, Moves(n), NEW a \in Server,
           NEW i \in Node, NEW time \in Nat, time <= state'[a].local_time
    PROVE  /\ Fits(loyal_left[i], Now(a), time) => Fits(loyal_left'[i], Now(a), time)
           /\ Fits(wait_left[i], Now(a), time) => Fits(wait_left'[i], Now(a), time)
<1>1. Fits(ElectionTimeoutMin, Now(a), time)
  BY ZenonT(30), NowKept
<1>2. /\ loyal_left'[i] \in {loyal_left[i], ElectionTimeoutMin}
      /\ wait_left'[i] \in {wait_left[i], ElectionTimeoutMin}
  BY ZenonT(30) DEF Moves, Timing
<1>3. QED
  BY ZenonT(30), <1>1, <1>2

-----------------------------------------------------------------------------
(* Each conjunct of PInv survives a step of one node.                      *)

\* Terms and clocks never run backwards.
LEMMA Forward ==
    ASSUME PInv, TypeOK', NEW n \in Node, Moves(n)
    PROVE  /\ \A i \in Node : /\ state[i].current_term \in Nat
                              /\ state'[i].current_term \in Nat
                              /\ state[i].current_term <= state'[i].current_term
           /\ \A i \in Node : /\ state[i].local_time \in Nat
                              /\ state'[i].local_time \in Nat
                              /\ state[i].local_time <= state'[i].local_time
<1>1. \A i \in Node : /\ state[i].current_term \in Nat /\ state'[i].current_term \in Nat
                      /\ state[i].local_time \in Nat /\ state'[i].local_time \in Nat
  BY ZenonT(30), Numbers, NextNumbers DEF PInv, DInv
<1>2. \A i \in Node \ {n} : state'[i] = state[i]
  BY ZenonT(30) DEF Moves, Alone
<1>3. /\ state'[n].local_time >= state[n].local_time
      /\ \/ state'[n].current_term >= state[n].current_term
         \/ state'[n].current_term = state[n].current_term + 1
         \/ state'[n].current_term = state[n].current_term
  BY ZenonT(30) DEF Moves, ClockMoves, RoleMoves, StandsUp
<1>4. QED
  BY <1>1, <1>2, <1>3

\* Packets carry times and terms their senders have reached.
LEMMA StampedKept ==
    ASSUME PInv, TypeOK', NEW n \in Node, Moves(n)
    PROVE  Stamped'
<1>1. /\ msgs \subseteq RpcRequest \cup RpcResponse
      /\ msgs' \subseteq RpcRequest \cup RpcResponse
  BY ZenonT(30) DEF PInv, DInv, TypeOK
<1>2. \A i \in Node : /\ state[i].local_time \in Nat
                      /\ state'[i].local_time \in Nat
                      /\ state[i].local_time <= state'[i].local_time
  BY ZenonT(30), Forward
<1>3. ASSUME NEW x \in Nat, NEW i \in Node, x <= state[i].local_time
      PROVE  x <= state'[i].local_time
  BY <1>2, <1>3
<1>4. ASSUME NEW m \in msgs
      PROVE  /\ m.rpc = "AppendEntries" => m.time <= state[m.src].local_time
             /\ m.rpc = "AEResponse" => m.req_time <= state[m.dst].local_time
  BY ZenonT(30) DEF PInv, Stamped
<1>5. ASSUME NEW m \in msgs
      PROVE  /\ m.rpc = "AppendEntries" => m.time <= state'[m.src].local_time
             /\ m.rpc = "AEResponse" => m.req_time <= state'[m.dst].local_time
  BY ZenonT(30), <1>1, <1>3, <1>4, PacketNumbers
<1>6. ASSUME NEW m \in msgs' \ msgs
      PROVE  /\ m.rpc = "AppendEntries" => m.time <= state'[m.src].local_time
             /\ m.rpc = "AEResponse" => m.req_time <= state'[m.dst].local_time
  <2>1. /\ m.src = n
        /\ m.rpc = "AppendEntries" => m.time = state'[n].local_time
        /\ m.rpc = "AEResponse" =>
             \E p \in msgs : /\ p.rpc = "AppendEntries" /\ p.src = m.dst
                             /\ p.time = m.req_time
    BY ZenonT(30) DEF Moves, PacketMoves
  <2>2. state'[n].local_time <= state'[n].local_time
    BY <1>2
  <2>3. m.rpc = "AppendEntries" => m.time <= state'[m.src].local_time
    BY ZenonT(30), <2>1, <2>2
  <2>4. m.rpc = "AEResponse" => m.req_time <= state'[m.dst].local_time
    BY ZenonT(30), <1>5, <2>1
  <2>5. QED  BY <2>3, <2>4
<1>7. ASSUME NEW x \in Node, NEW i \in Node
      PROVE  state'[x].heartbeat[i] <= state'[x].local_time
  <2>1. state[x].heartbeat[i] \in Nat /\ state[x].heartbeat[i] <= state[x].local_time
    BY ZenonT(30), Numbers DEF PInv, DInv, Stamped
  <2>2. state[x].heartbeat[i] <= state'[x].local_time
    BY ZenonT(30), <1>3, <2>1
  <2>3. state'[x].local_time <= state'[x].local_time
    BY <1>2
  <2>4. CASE x # n
    <3>1. state'[x] = state[x]
      BY ZenonT(30), <2>4 DEF Moves, Alone
    <3>2. QED
      BY ZenonT(30), <2>1, <3>1
  <2>5. CASE x = n /\ i = n
    BY ZenonT(30), <2>2, <2>3, <2>5 DEF Moves, ClockMoves
  <2>6. CASE x = n /\ i # n
    <3>1. \/ state'[n].heartbeat[i] = state[n].heartbeat[i]
          \/ \E m \in msgs : /\ m.rpc = "AEResponse" /\ m.dst = n
                             /\ m.req_time = state'[n].heartbeat[i]
      BY ZenonT(30), <2>6 DEF Moves, ClockMoves
    <3>2. QED
      BY ZenonT(30), <1>5, <2>2, <2>6, <3>1
  <2>7. QED  BY <2>4, <2>5, <2>6
<1>8. QED
  BY ZenonT(30), <1>5, <1>6, <1>7 DEF Stamped

\* A node stays loyal for an election timeout after the heartbeat it confirmed.
LEMMA AgreementLastsKept ==
    ASSUME PInv, TypeOK', Clocks', NEW n \in Node, Moves(n), Stamped'
    PROVE  AgreementLasts'
\* What is stale fits every timer.
<1>StaleFits.
    ASSUME PInv, NEW a \in Server, NEW i \in Node, NEW time \in Nat,
           Fits(0, Now(a), time)
    PROVE  Fits(loyal_left[i], Now(a), time) /\ Fits(wait_left[i], Now(a), time)
  <2> USE <1>StaleFits
  <2>1. /\ Now(a) \in Nat /\ loyal_left[i] \in Nat /\ wait_left[i] \in Nat
    BY ZenonT(30), NowIs DEF PInv, DInv, Clocks
  <2>2. 0 <= loyal_left[i] /\ 0 <= wait_left[i] /\ 0 \in Nat
    BY <2>1
  <2>3. QED
    BY ZenonT(30), <2>1, <2>2, FitsLater
<1>1. /\ msgs \subseteq RpcRequest \cup RpcResponse
      /\ msgs' \subseteq RpcRequest \cup RpcResponse
  BY ZenonT(30) DEF PInv, DInv, TypeOK
<1>2. ASSUME NEW x \in Node, ~state'[x].loyalty_agreement
      PROVE  loyal_left'[x] = 0
  BY ZenonT(30), <1>2 DEF PInv, AgreementLasts, Moves, Alone, Timing, ClockMoves
<1>3. ASSUME NEW a \in Server, NEW i \in Node, NEW time \in Nat,
             time <= state'[a].local_time, Loyal(i, a, time)
      PROVE  Loyal(i, a, time)'
  <2>1. Fits(loyal_left[i], Now(a), time) /\ Fits(wait_left[i], Now(a), time)
    BY ZenonT(30), <1>3, OutlastsFits DEF Loyal
  <2>2. /\ Fits(loyal_left'[i], Now(a), time) /\ Fits(wait_left'[i], Now(a), time)
        /\ Now(a)' = Now(a)
    BY ZenonT(30), <1>3, <2>1, TimerKept, NowKept
  <2>3. QED
    BY ZenonT(30), <2>2 DEF Loyal, Outlasts, Fits
<1>4. ASSUME NEW a \in Server, NEW i \in Node \ {a}
      PROVE  Loyal(i, a, state[a].heartbeat[i])'
  <2>. DEFINE time == state'[a].heartbeat[i]
  <2>1. a \in Node /\ time \in Nat /\ time <= state'[a].local_time
    BY ZenonT(30), NextNumbers DEF Server, Stamped
  <2>2. CASE time = state[a].heartbeat[i]
    <3>1. Loyal(i, a, time)
      BY ZenonT(30), <2>2 DEF PInv, AgreementLasts
    <3>2. QED
      BY ZenonT(30), <1>3, <2>1, <3>1 DEF Loyal, Outlasts
  <2>3. ASSUME NEW m \in msgs, a = n, m.rpc = "AEResponse", m.src = i, m.dst = n,
               m.req_time = time, state[n].type = "leader",
               m.term = state[n].current_term
        PROVE  Loyal(i, a, state[a].heartbeat[i])'
    <3>1. m.result \in BOOLEAN /\ m.term <= state[n].current_term
      <4>1. m.result \in BOOLEAN /\ m.term \in Nat
        BY ZenonT(30), <1>1, <2>3, PacketNumbers
      <4>2. QED
        BY <2>3, <4>1
    <3>2. CASE m.result
      <4>1. Loyal(i, a, time)
        BY ZenonT(30), <2>3, <3>2 DEF PInv, AgreementLasts
      <4>2. QED
        BY ZenonT(30), <1>3, <2>1, <4>1 DEF Loyal, Outlasts
    <3>3. CASE ~m.result
      <4>1. Stale(a, time)
        BY ZenonT(30), <2>3, <3>1, <3>3 DEF PInv, RefusedIsStale
      <4>2. Fits(0, Now(a), time)
        BY ZenonT(30), <4>1, OutlastsFits DEF Stale
      <4>3. Loyal(i, a, time)
        BY ZenonT(30), <2>1, <4>2, <1>StaleFits, OutlastsFits DEF Loyal
      <4>4. QED
        BY ZenonT(30), <1>3, <2>1, <4>3 DEF Loyal, Outlasts
    <3>4. QED  BY SMTT(30), <3>1, <3>2, <3>3
  <2>4. CASE a # n
    BY ZenonT(30), <2>1, <2>2, <2>4 DEF Moves, Alone
  <2>5. CASE a = n
    BY ZenonT(30), <2>1, <2>2, <2>3, <2>5 DEF Moves, ClockMoves
  <2>6. QED  BY <2>4, <2>5
<1>5. ASSUME NEW m \in msgs', m.rpc = "AEResponse", m.result, m.dst \in Server
      PROVE  Loyal(m.src, m.dst, m.req_time)'
  <2>1. m.src \in Node /\ m.req_time \in Nat /\ m.req_time <= state'[m.dst].local_time
    BY ZenonT(30), <1>1, <1>5, PacketNumbers DEF Stamped
  <2>2. CASE m \in msgs
    <3>1. Loyal(m.src, m.dst, m.req_time)
      BY ZenonT(30), <1>5, <2>2 DEF PInv, AgreementLasts
    <3>2. QED
      BY ZenonT(30), <1>3, <1>5, <2>1, <3>1
  <2>3. CASE m \notin msgs
    <3>1. /\ m.src = n /\ loyal_left'[n] = ElectionTimeoutMin
          /\ wait_left'[n] = ElectionTimeoutMin
      BY ZenonT(30), <1>5, <2>3 DEF Moves, PacketMoves
    <3>2. Fits(ElectionTimeoutMin, Now(m.dst), m.req_time) /\ Now(m.dst)' = Now(m.dst)
      BY ZenonT(30), <1>5, <2>1, NowKept
    <3>3. QED
      BY ZenonT(30), <3>1, <3>2 DEF Loyal, Outlasts, Fits
  <2>4. QED  BY <2>2, <2>3
<1>6. QED
  BY ZenonT(30), <1>2, <1>4, <1>5 DEF AgreementLasts, Server

\* A heartbeat that a server sent before its present candidacy or in an earlier
\* term is stale.
LEMMA SentBefore ==
    ASSUME PInv, NEW m \in msgs, m.rpc = "AppendEntries", m.src \in Server,
           state[m.src].type # "follower",
           Candidate(m.src) \/ m.term < state[m.src].current_term
    PROVE  Stale(m.src, m.time)
<1>1. m.src \in Node /\ m.term \in Nat /\ state[m.src].current_term \in Nat
  BY ZenonT(30), PacketNumbers, Numbers DEF PInv, DInv, TypeOK
<1>2. m.term <= state[m.src].current_term
  BY ZenonT(30) DEF PInv, IInv, Core, PacketTerms
<1>3. Candidate(m.src) => m.term # state[m.src].current_term
  BY ZenonT(30), <1>1 DEF PInv, IInv, Core, CandidateHasNotLed, Led
<1>4. m.term < state[m.src].current_term
  BY <1>1, <1>2, <1>3
<1>5. QED
  BY ZenonT(30), <1>4 DEF PInv, SentIsStale

\* A node votes, and stands, only when what it confirmed is stale.
LEMMA SentIsStaleKept ==
    ASSUME PInv, TypeOK', Clocks', NEW n \in Node, Moves(n), Stamped'
    PROVE  SentIsStale'
<1>1. SUFFICES ASSUME NEW m \in msgs', m.rpc = "AppendEntries", m.src \in Server
               PROVE  /\ state'[m.src].type = "follower"
                           => Fits(wait_left'[m.src], Now(m.src), m.time)
                      /\ state'[m.src].type # "follower"
                           => \/ Fits(0, Now(m.src), m.time)
                              \/ ~(m.term < state'[m.src].current_term)
  <2>1. \A a \in Server : Now(a)' = Now(a)
    BY ZenonT(30), NowKept
  <2>2. \A left, a, time : a \in Server =>
          (left + Now(a)' >= Moment(time) + ElectionTimeoutMin <=> Fits(left, Now(a), time))
    BY ZenonT(30), <2>1 DEF Fits
  <2>3. QED
    BY ZenonT(30), <2>2 DEF SentIsStale, Stale, Outlasts
<1>. DEFINE a == m.src
<1>2. /\ a \in Node /\ m.time \in Nat /\ m.term \in Nat
      /\ m.time <= state'[a].local_time
  BY ZenonT(30), <1>1, PacketNumbers DEF TypeOK, Stamped
<1>3. Fits(ElectionTimeoutMin, Now(a), m.time)
  BY ZenonT(30), <1>1, <1>2, NowKept
<1>4. ASSUME m \in msgs
      PROVE  /\ state[a].type = "follower" => Fits(wait_left[a], Now(a), m.time)
             /\ state[a].type # "follower" /\ m.term < state[a].current_term
                  => Fits(0, Now(a), m.time)
             /\ Candidate(a) => Fits(0, Now(a), m.time)
  <2>1. /\ state[a].type = "follower" => Outlasts(wait_left[a], a, m.time)
        /\ state[a].type # "follower" /\ m.term < state[a].current_term
             => Outlasts(0, a, m.time)
    BY ZenonT(30), <1>1, <1>4 DEF PInv, SentIsStale, Stale
  <2>2. Candidate(a) => state[a].type # "follower"
    BY DEF Candidate
  <2>3. Candidate(a) => Outlasts(0, a, m.time)
    BY ZenonT(30), <1>1, <1>4, <2>2, SentBefore DEF Stale
  <2>4. QED
    BY ZenonT(30), <2>1, <2>3, OutlastsFits
<1>5. CASE m \notin msgs
  <2>1. /\ a = n /\ m.term = state'[n].current_term /\ state'[n].type # "follower"
    BY ZenonT(30), <1>1, <1>5 DEF Moves, PacketMoves
  <2>2. ~(m.term < state'[a].current_term)
    BY <1>2, <2>1
  <2>3. QED
    BY ZenonT(30), <2>1, <2>2
<1>6. CASE m \in msgs /\ a # n
  <2>1. state'[a] = state[a] /\ wait_left'[a] = wait_left[a]
    BY ZenonT(30), <1>2, <1>6 DEF Moves, Alone, Timing
  <2>2. QED
    BY ZenonT(30), <1>4, <1>6, <2>1
<1>7. CASE m \in msgs /\ a = n
  <2>1. CASE state'[n].type = "follower"
    <3>1. \/ state[n].type = "follower"
          \/ wait_left'[n] = ElectionTimeoutMin
      BY ZenonT(30), <2>1 DEF Moves, RoleMoves, StandsUp
    <3>2. Fits(wait_left[n], Now(a), m.time) => Fits(wait_left'[n], Now(a), m.time)
      BY ZenonT(30), <1>1, <1>2, <1>7, TimerKept
    <3>3. QED
      BY ZenonT(30), <1>3, <1>4, <1>7, <2>1, <3>1, <3>2
  <2>2. CASE state'[n].type # "follower" /\ wait_left[n] = 0 /\ StandsUp(n)
    <3>1. state[n].type = "follower" \/ Candidate(n)
      BY <2>2, Numbers, StateFields DEF StandsUp, Candidate, PInv, DInv
    <3>2. QED
      BY ZenonT(30), <1>4, <1>7, <2>2, <3>1
  <2>3. CASE /\ state[n].type # "follower" /\ state'[n].type # "follower"
             /\ state'[n].current_term = state[n].current_term
    BY ZenonT(30), <1>4, <1>7, <2>3
  <2>4. QED
    BY ZenonT(30), <2>1, <2>2, <2>3 DEF Moves, RoleMoves
<1>8. QED
  BY ZenonT(30), <1>5, <1>6, <1>7

\* A refused heartbeat is of a leader that has lost its followers.
LEMMA RefusedIsStaleKept ==
    ASSUME PInv, TypeOK', Clocks', NEW n \in Node, Moves(n), Stamped', PacketTerms'
    PROVE  RefusedIsStale'
<1>1. SUFFICES ASSUME NEW m \in msgs', m.rpc = "AEResponse", ~m.result, m.dst \in Server
               PROVE  /\ state'[m.dst].type = "follower"
                           => Fits(wait_left'[m.dst], Now(m.dst), m.req_time)
                      /\ state'[m.dst].type = "candidate"
                           => Fits(0, Now(m.dst), m.req_time)
                      /\ state'[m.dst].type = "leader"
                           => \/ Fits(0, Now(m.dst), m.req_time)
                              \/ ~(m.term <= state'[m.dst].current_term)
  <2>1. \A a \in Server : Now(a)' = Now(a)
    BY ZenonT(30), NowKept
  <2>2. \A left, a, time : a \in Server =>
          (left + Now(a)' >= Moment(time) + ElectionTimeoutMin <=> Fits(left, Now(a), time))
    BY ZenonT(30), <2>1 DEF Fits
  <2>3. QED
    BY ZenonT(30), <2>2 DEF RefusedIsStale, Stale, Outlasts
<1>. DEFINE a == m.dst
<1>2. /\ a \in Node /\ m.req_time \in Nat /\ m.term \in Nat
      /\ m.req_time <= state'[a].local_time
  BY ZenonT(30), <1>1, PacketNumbers DEF TypeOK, Stamped
<1>3. Fits(ElectionTimeoutMin, Now(a), m.req_time)
  BY ZenonT(30), <1>1, <1>2, NowKept
<1>4. ASSUME m \in msgs
      PROVE  /\ state[a].type = "follower" => Fits(wait_left[a], Now(a), m.req_time)
             /\ state[a].type = "candidate" => Fits(0, Now(a), m.req_time)
             /\ state[a].type = "leader" /\ m.term <= state[a].current_term
                  => Fits(0, Now(a), m.req_time)
  <2>1. /\ state[a].type = "follower" => Outlasts(wait_left[a], a, m.req_time)
        /\ state[a].type = "candidate" => Outlasts(0, a, m.req_time)
        /\ state[a].type = "leader" /\ m.term <= state[a].current_term
             => Outlasts(0, a, m.req_time)
    BY ZenonT(30), <1>1, <1>4 DEF PInv, RefusedIsStale, Stale
  <2>2. QED
    BY ZenonT(30), <2>1, OutlastsFits
<1>5. CASE m \notin msgs
  <2>1. PICK p \in msgs : /\ p.rpc = "AppendEntries" /\ p.src = a
                          /\ p.time = m.req_time /\ p.term < m.term
    BY ZenonT(30), <1>1, <1>5 DEF Moves, PacketMoves
  <2>2. m.src = n /\ a # n
    BY ZenonT(30), <1>1, <1>5 DEF Moves, PacketMoves, PacketTerms
  <2>3. state'[a] = state[a] /\ wait_left'[a] = wait_left[a]
    BY ZenonT(30), <1>2, <2>2 DEF Moves, Alone, Timing
  <2>4. CASE state[a].type = "follower"
    <3>1. Outlasts(wait_left[a], a, m.req_time)
      BY ZenonT(30), <1>1, <2>1, <2>4 DEF PInv, SentIsStale
    <3>2. state'[a].type # "candidate" /\ state'[a].type # "leader"
      BY <2>3, <2>4
    <3>3. QED
      BY ZenonT(30), <2>3, <3>1, <3>2, OutlastsFits
  <2>5. CASE state[a].type # "follower"
    <3>1. p.term \in Nat /\ state[a].current_term \in Nat
      BY ZenonT(30), <1>2, <2>1, PacketNumbers, Numbers DEF PInv, DInv, TypeOK
    <3>2. m.term <= state[a].current_term => p.term < state[a].current_term
      BY <1>2, <2>1, <3>1
    <3>3. ASSUME Candidate(a) \/ m.term <= state[a].current_term
          PROVE  Fits(0, Now(a), m.req_time)
      BY ZenonT(30), <1>1, <2>1, <2>5, <3>2, <3>3, SentBefore, OutlastsFits DEF Stale
    <3>4. QED
      BY ZenonT(30), <2>3, <2>5, <3>3 DEF Candidate
  <2>6. QED  BY <2>4, <2>5
<1>6. CASE m \in msgs /\ a # n
  <2>1. state'[a] = state[a] /\ wait_left'[a] = wait_left[a]
    BY ZenonT(30), <1>2, <1>6 DEF Moves, Alone, Timing
  <2>2. QED
    BY ZenonT(30), <1>4, <1>6, <2>1
<1>7. CASE m \in msgs /\ a = n
  <2>1. CASE state'[n].type = "follower"
    <3>1. \/ state[n].type = "follower"
          \/ wait_left'[n] = ElectionTimeoutMin
      BY ZenonT(30), <2>1 DEF Moves, RoleMoves, StandsUp
    <3>2. Fits(wait_left[n], Now(a), m.req_time) => Fits(wait_left'[n], Now(a), m.req_time)
      BY ZenonT(30), <1>1, <1>2, <1>7, TimerKept
    <3>3. state'[a].type # "candidate" /\ state'[a].type # "leader"
      BY <1>7, <2>1
    <3>4. QED
      BY ZenonT(30), <1>3, <1>4, <1>7, <2>1, <3>1, <3>2, <3>3
  <2>2. CASE state'[n].type # "follower" /\ wait_left[n] = 0 /\ StandsUp(n)
    <3>1. state[n].type = "follower" \/ state[n].type = "candidate"
      BY <2>2, Numbers, StateFields DEF StandsUp, PInv, DInv
    <3>2. QED
      BY ZenonT(30), <1>4, <1>7, <2>2, <3>1
  <2>3. CASE /\ state[n].type # "follower" /\ state'[n].type # "follower"
             /\ state'[n].type = "candidate" => state[n].type = "candidate"
             /\ state'[n].current_term = state[n].current_term
    <3>1. state[n].type = "leader" \/ state[n].type = "candidate"
      BY SMTT(30), <2>3, Numbers, StateFields DEF PInv, DInv
    <3>2. QED
      BY ZenonT(30), <1>4, <1>7, <2>3, <3>1
  <2>4. QED
    BY ZenonT(30), <2>1, <2>2, <2>3 DEF Moves, RoleMoves
<1>8. QED
  BY ZenonT(30), <1>5, <1>6, <1>7

\* Where the votes of a standing node come from: it had them, it has just stood
\* up, or a node that was loyal to nobody has just voted for it.
LEMMA VotesBefore ==
    ASSUME PInv, IInv', NEW n \in Node, Moves(n), NEW b \in Node, NEW i \in Node,
           VotesFor(i, b)'
    PROVE  \/ VotesFor(i, b) /\ state'[b].current_term = state[b].current_term
           \/ b = n /\ i = n /\ wait_left[n] = 0 /\ StandsUp(n)
           \/ /\ b # n /\ i = n /\ loyal_left[n] = 0
              /\ state'[n].current_term = state'[b].current_term
<1>1. /\ state'[b].type \in {"follower", "candidate", "leader"} /\ TypeOK'
      /\ state[b].current_term \in Nat
  BY ZenonT(30), NextNumbers, Numbers DEF IInv, PInv
<1>2. \/ Standing(b)' /\ i \in state'[b].vote_granted
      \/ /\ state'[b].type = "candidate"
         /\ \E m \in msgs' : /\ m.rpc = "RVResponse" /\ m.result /\ m.src = i
                             /\ m.dst = b /\ m.term = state'[b].current_term
  BY ZenonT(30) DEF VotesFor, Candidate, Granted
<1>3. /\ Standing(b)' => state'[b].type # "follower" \/ state'[b].president
      /\ state'[b].type = "candidate" => state'[b].type # "follower"
  BY DEF Standing, Candidate, Incumbent
<1>4. \A m \in msgs' : m.src # m.dst
  BY ZenonT(30) DEF IInv, Core, PacketTerms
<1>5. \A m \in msgs : m.rpc = "RVResponse" /\ m.result
        => m.term <= state[m.dst].current_term
  BY ZenonT(30) DEF PInv, IInv, Core, PacketTerms
<1>6. \A m \in msgs' \ msgs : m.src = n /\ m.term = state'[n].current_term
  BY ZenonT(30) DEF Moves, PacketMoves
<1>7. CASE b = n
  <2>1. \/ wait_left[n] = 0 /\ StandsUp(n)
        \/ /\ Standing(n) /\ state'[n].current_term = state[n].current_term
           /\ state'[n].type = "candidate" => state[n].type = "candidate"
           /\ \A v \in state'[n].vote_granted : VotesFor(v, n)
    BY ZenonT(30), <1>2, <1>3, <1>7 DEF Moves, VoteMoves
  <2>2. CASE i \in state'[n].vote_granted
    <3>1. CASE wait_left[n] = 0 /\ StandsUp(n)
      <4>1. i = n
        BY ZenonT(30), <2>2, <3>1 DEF StandsUp
      <4>2. QED  BY ZenonT(30), <1>7, <3>1, <4>1
    <3>2. QED
      BY ZenonT(30), <1>7, <2>1, <2>2, <3>1
  <2>3. ASSUME state'[b].type = "candidate",
               NEW m \in msgs', m.rpc = "RVResponse", m.result, m.src = i,
               m.dst = b, m.term = state'[b].current_term
        PROVE  VotesFor(i, b) /\ state'[b].current_term = state[b].current_term
    <3>1. m \in msgs
      BY ZenonT(30), <1>4, <1>6, <1>7, <2>3
    <3>2. ~StandsUp(n)
      <4>1. state'[b].current_term <= state[b].current_term
        BY ZenonT(30), <1>5, <2>3, <3>1
      <4>2. state'[b].current_term # state[b].current_term + 1
        BY <1>1, <4>1
      <4>3. QED
        BY ZenonT(30), <1>7, <4>2 DEF StandsUp
    <3>3. Candidate(b) /\ state'[b].current_term = state[b].current_term
      BY ZenonT(30), <1>7, <2>1, <2>3, <3>2 DEF Candidate
    <3>4. QED
      BY ZenonT(30), <2>3, <3>1, <3>3 DEF VotesFor, Granted
  <2>4. QED
    BY ZenonT(30), <1>2, <1>7, <2>2, <2>3
<1>8. CASE b # n
  <2>1. state'[b] = state[b]
    BY ZenonT(30), <1>8 DEF Moves, Alone
  <2>2. CASE Standing(b)' /\ i \in state'[b].vote_granted
    BY ZenonT(30), <2>1, <2>2 DEF VotesFor, Standing, Candidate, Incumbent
  <2>3. ASSUME state'[b].type = "candidate",
               NEW m \in msgs', m.rpc = "RVResponse", m.result, m.src = i,
               m.dst = b, m.term = state'[b].current_term, m \notin msgs
        PROVE  /\ i = n /\ loyal_left[n] = 0
               /\ state'[n].current_term = state'[b].current_term
    <3>1. i = n /\ state'[n].current_term = state'[b].current_term
      BY ZenonT(30), <1>6, <2>3
    <3>2. \/ ~state[n].loyalty_agreement
          \/ /\ state[n].type = "follower" /\ state[n].leader_id = b
             /\ state[n].current_term = m.term
      BY ZenonT(30), <2>3 DEF Moves, PacketMoves
    <3>3. ~(/\ state[n].type = "follower" /\ state[n].leader_id = b
            /\ state[n].current_term = state[b].current_term)
      <4>1. state[b].type = "candidate"
        BY ZenonT(30), <2>1, <2>3
      <4>2. ~Led(msgs, b, state[b].current_term)
        BY ZenonT(30), <4>1 DEF PInv, IInv, Core, CandidateHasNotLed, Candidate
      <4>3. QED
        BY ZenonT(30), <4>2 DEF PInv, IInv, Core, FollowedHasLed
    <3>4. loyal_left[n] = 0
      BY ZenonT(30), <2>1, <2>3, <3>2, <3>3 DEF PInv, AgreementLasts
    <3>5. QED  BY <3>1, <3>4
  <2>4. ASSUME state'[b].type = "candidate",
               NEW m \in msgs, m.rpc = "RVResponse", m.result, m.src = i,
               m.dst = b, m.term = state'[b].current_term
        PROVE  VotesFor(i, b)
    BY ZenonT(30), <2>1, <2>4 DEF VotesFor, Candidate, Granted
  <2>5. QED
    BY ZenonT(30), <1>2, <1>8, <2>1, <2>2, <2>3, <2>4
<1>9. QED  BY <1>7, <1>8

\* Who votes for a later candidate is counted by no earlier leader.
LEMMA VoterIsLostKept ==
    ASSUME PInv, IInv', Clocks', NEW n \in Node, Moves(n)
    PROVE  VoterIsLost'
<1>. TypeOK'
  BY ZenonT(30) DEF IInv
<1>1. SUFFICES ASSUME NEW a \in Server, NEW b \in Node, NEW i \in Node \ {a},
                      VotesFor(i, b)',
                      state'[a].current_term < state'[b].current_term
               PROVE  /\ Stale(a, state'[a].heartbeat[i])
                      /\ \A m \in msgs' :
                           /\ m.rpc = "AEResponse" /\ m.result /\ m.dst = a
                           /\ m.src = i /\ m.term < state'[b].current_term
                           => Stale(a, m.req_time)
  <2>1. \A a \in Server : Now(a)' = Now(a)
    BY ZenonT(30), NowKept
  <2>2. \A a, time : a \in Server =>
          (0 + Now(a)' >= Moment(time) + ElectionTimeoutMin <=> Stale(a, time))
    BY ZenonT(30), <2>1 DEF Stale, Outlasts
  <2>3. QED
    BY ZenonT(30), <2>2 DEF VoterIsLost, Stale, Outlasts
<1>2. a \in Node /\ i # a
  BY ZenonT(30) DEF Server
<1>3. \A x \in Node : /\ state[x].current_term \in Nat
                      /\ state'[x].current_term \in Nat
                      /\ state[x].current_term <= state'[x].current_term
  BY ZenonT(30), Forward
<1>4. \A m \in msgs' \ msgs : m.src = n /\ m.term = state'[n].current_term
  BY ZenonT(30) DEF Moves, PacketMoves
<1>5. CASE VotesFor(i, b) /\ state'[b].current_term = state[b].current_term
  <2>1. state[a].current_term < state[b].current_term
    BY <1>1, <1>2, <1>3, <1>5
  <2>2. /\ Stale(a, state[a].heartbeat[i])
        /\ \A m \in msgs :
             /\ m.rpc = "AEResponse" /\ m.result /\ m.dst = a /\ m.src = i
             /\ m.term < state[b].current_term
             => Stale(a, m.req_time)
    BY ZenonT(30), <1>5, <2>1 DEF PInv, VoterIsLost
  <2>3. Stale(a, state'[a].heartbeat[i])
    <3>1. ASSUME NEW m \in msgs, a = n, m.rpc = "AEResponse", m.src = i, m.dst = n,
                 m.req_time = state'[n].heartbeat[i], state[n].type = "leader",
                 m.term = state[n].current_term
          PROVE  Stale(a, state'[a].heartbeat[i])
      <4>1. /\ m.result \in BOOLEAN /\ m.term \in Nat
        BY ZenonT(30), <3>1, PacketNumbers DEF PInv, DInv, TypeOK
      <4>2. m.term <= state[n].current_term
        BY <3>1, <4>1
      <4>3. CASE m.result
        BY ZenonT(30), <2>1, <2>2, <3>1, <4>3
      <4>4. CASE ~m.result
        BY ZenonT(30), <3>1, <4>2, <4>4 DEF PInv, RefusedIsStale
      <4>5. QED  BY <4>1, <4>3, <4>4
    <3>2. CASE a # n
      <4>1. state'[a] = state[a]
        BY ZenonT(30), <1>2, <3>2 DEF Moves, Alone
      <4>2. QED  BY ZenonT(30), <2>2, <4>1
    <3>3. CASE a = n
      <4>1. \/ state'[n].heartbeat[i] = state[n].heartbeat[i]
            \/ \E m \in msgs :
                 /\ m.rpc = "AEResponse" /\ m.src = i /\ m.dst = n
                 /\ m.req_time = state'[n].heartbeat[i]
                 /\ state[n].type = "leader" /\ m.term = state[n].current_term
        BY ZenonT(30), <1>2, <3>3 DEF Moves, ClockMoves
      <4>2. QED
        BY ZenonT(30), <2>2, <3>1, <3>3, <4>1
    <3>4. QED  BY <3>2, <3>3
  <2>4. state[b].current_term <= state[i].current_term
    <3>1. i = b \/ Granted(msgs, i, b, state[b].current_term)
      BY ZenonT(30), <1>5 DEF VotesFor, PInv, IInv, Core, VotesAreGranted
    <3>2. Granted(msgs, i, b, state[b].current_term)
            => state[b].current_term <= state[i].current_term
      BY ZenonT(30), TermBounds DEF PInv, IInv, Core
    <3>3. QED
      BY SMTT(30), <1>3, <3>1, <3>2
  <2>5. ASSUME NEW m \in msgs' \ msgs, m.src = i
        PROVE  ~(m.term < state'[b].current_term)
    <3>1. i = n /\ m.term = state'[i].current_term
      BY ZenonT(30), <1>4, <2>5
    <3>2. QED
      BY SMTT(30), <1>3, <1>5, <2>4, <3>1
  <2>6. QED
    BY ZenonT(30), <1>5, <2>2, <2>3, <2>5
<1>6. ASSUME i = n, loyal_left[n] = 0 \/ wait_left[n] = 0,
             \A m \in msgs' \ msgs :
               m.rpc = "AEResponse" => ~(m.term < state'[b].current_term)
      PROVE  /\ Stale(a, state'[a].heartbeat[i])
             /\ \A m \in msgs' :
                  /\ m.rpc = "AEResponse" /\ m.result /\ m.dst = a
                  /\ m.src = i /\ m.term < state'[b].current_term
                  => Stale(a, m.req_time)
  <2>1. state'[a] = state[a]
    BY ZenonT(30), <1>2, <1>6 DEF Moves, Alone
  <2>2. \A time : Loyal(i, a, time) => Stale(a, time)
    BY ZenonT(30), <1>6 DEF Loyal, Stale
  <2>3. Loyal(i, a, state[a].heartbeat[i])
    BY ZenonT(30), <1>1 DEF PInv, AgreementLasts
  <2>4. \A m \in msgs : m.rpc = "AEResponse" /\ m.result /\ m.dst = a /\ m.src = i
          => Loyal(i, a, m.req_time)
    BY ZenonT(30), <1>1 DEF PInv, AgreementLasts
  <2>5. QED
    BY ZenonT(30), <1>6, <2>1, <2>2, <2>3, <2>4
<1>7. CASE b = n /\ i = n /\ wait_left[n] = 0 /\ StandsUp(n)
  <2>1. \A m \in msgs' \ msgs : m.rpc # "AEResponse"
    <3>1. \A m \in msgs' \ msgs : m.rpc = "RequestVote"
      BY ZenonT(30), <1>7 DEF StandsUp
    <3>2. QED  BY <3>1
  <2>2. QED
    BY ZenonT(30), <1>6, <1>7, <2>1
<1>8. CASE /\ i = n /\ loyal_left[n] = 0
           /\ state'[n].current_term = state'[b].current_term
  <2>1. \A m \in msgs' \ msgs : ~(m.term < state'[b].current_term)
    BY <1>3, <1>4, <1>8
  <2>2. QED
    BY ZenonT(30), <1>6, <1>8, <2>1
<1>9. \/ VotesFor(i, b) /\ state'[b].current_term = state[b].current_term
      \/ b = n /\ i = n /\ wait_left[n] = 0 /\ StandsUp(n)
      \/ /\ b # n /\ i = n /\ loyal_left[n] = 0
         /\ state'[n].current_term = state'[b].current_term
  BY ZenonT(30), <1>1, VotesBefore
<1>10. QED
  BY ZenonT(30), <1>5, <1>7, <1>8, <1>9

\* A President keeps its quorum from one heartbeat to the next.
LEMMA PresidentHasQuorumKept ==
    ASSUME Majorities, PInv, TypeOK', NEW n \in Node, Moves(n)
    PROVE  PresidentHasQuorum'
<1>1. SUFFICES ASSUME NEW x \in Node, state'[x].president
               PROVE  Cardinality(LoyalVotes(state'[x])) >= Quorum
  <2>1. Quorum' = Quorum
    BY DEF Quorum
  <2>2. QED
    BY ZenonT(30), <2>1 DEF PresidentHasQuorum, LoyalVotes
<1>2. \A y \in Node : state[y].president
        => Cardinality(LoyalVotes(state[y])) >= Quorum
  BY ZenonT(30) DEF PInv, PresidentHasQuorum
<1>3. CASE x # n
  <2>1. state'[x] = state[x]
    BY ZenonT(30), <1>3 DEF Moves, Alone
  <2>2. QED
    BY ZenonT(30), <1>1, <1>2, <2>1
<1>4. CASE x = n /\ state[n].president /\ state'[n].local_time = state[n].local_time
  <2>1. \A i \in Node : /\ state[n].heartbeat[i] \in Nat /\ state'[n].heartbeat[i] \in Nat
                        /\ state'[n].heartbeat[i] >= state[n].heartbeat[i]
    BY ZenonT(30), Numbers, NextNumbers DEF PInv, DInv, Moves, ClockMoves
  <2>2. state[n].local_time \in Nat /\ LoyalTicks \in Nat
    BY ZenonT(30), Numbers, BoundAssumption DEF PInv, DInv
  <2>3. LoyalVotes(state[n]) \subseteq LoyalVotes(state'[n])
    BY <1>4, <2>1, <2>2 DEF LoyalVotes
  <2>4. LoyalVotes(state[n]) \subseteq Node /\ LoyalVotes(state'[n]) \subseteq Node
    BY ZenonT(30) DEF LoyalVotes
  <2>5. QED
    BY ZenonT(30), <1>2, <1>4, <2>3, <2>4 DEF Majorities
<1>5. CASE x = n /\ Cardinality(LoyalVotes(state'[n])) >= Quorum
  BY ZenonT(30), <1>5
<1>6. QED
  BY ZenonT(30), <1>1, <1>3, <1>4, <1>5 DEF Moves, PresidentMoves

\* A server that has just counted its quorum of loyal voters is behind no
\* incumbent of a later term.
LEMMA NotOvertaken ==
    Majorities /\ IInv /\ Clocks /\ VoterIsLost =>
        \A a \in Server, b \in Node : ~Overtaken(a, b)
<1>1. SUFFICES ASSUME Majorities, IInv, Clocks, VoterIsLost, NEW a \in Server,
                      NEW b \in Node, Overtaken(a, b)
               PROVE  FALSE
  OBVIOUS
<1>2. /\ a \in Node /\ TypeOK /\ Incumbent(b) /\ Standing(b)
      /\ state[a].current_term < state[b].current_term
      /\ Cardinality(LoyalVotes(state[a])) >= Quorum /\ Lapse(a) < Len(Phase)
  BY ZenonT(30), <1>1 DEF IInv, Overtaken, Server, Standing
<1>3. /\ Cardinality(state[b].vote_granted) >= Quorum
      /\ state[b].vote_granted \subseteq Node /\ LoyalVotes(state[a]) \subseteq Node
  <2>1. state[b].vote_granted \in SUBSET Node
    BY ZenonT(30), <1>2, Numbers, StateFields
  <2>2. QED
    BY ZenonT(30), <1>1, <1>2, <2>1 DEF IInv, Core, IncumbentHasQuorum, LoyalVotes
<1>4. PICK i \in Node : i \in LoyalVotes(state[a]) /\ i \in state[b].vote_granted
  BY ZenonT(30), <1>1, <1>2, <1>3 DEF Majorities
<1>5. /\ state[a].current_term \in Nat /\ state[b].current_term \in Nat
      /\ state[a].local_time \in Nat /\ state[a].heartbeat[i] \in Nat
  BY ZenonT(30), <1>2, Numbers
<1>6. i # a
  <2>1. i = b \/ Granted(msgs, i, b, state[b].current_term)
    BY ZenonT(30), <1>1, <1>2, <1>4 DEF IInv, Core, VotesAreGranted
  <2>2. Granted(msgs, i, b, state[b].current_term)
          => state[b].current_term <= state[i].current_term
    BY ZenonT(30), <1>1, TermBounds DEF IInv, Core
  <2>3. QED
    BY SMTT(30), <1>2, <1>5, <2>1, <2>2
<1>7. Stale(a, state[a].heartbeat[i])
  BY ZenonT(30), <1>1, <1>2, <1>4, <1>6 DEF VoterIsLost, VotesFor
<1>. DEFINE now == state[a].local_time
            seen == state[a].heartbeat[i]
<1>8. now - seen + 1 <= LoyalTicks
  BY ZenonT(30), <1>4 DEF LoyalVotes
<1>9. Moment(now) + Lapse(a) >= Moment(seen) + ElectionTimeoutMin
  <2>1. 0 + (Moment(now) + Lapse(a)) >= Moment(seen) + ElectionTimeoutMin
    BY ZenonT(30), <1>7 DEF Stale, Outlasts, Now
  <2>2. Moment(now) \in Nat /\ Lapse(a) \in 0..Len(Phase) /\ Len(Phase) \in Nat
    BY ZenonT(30), <1>1, <1>5, Times, Lapses
  <2>3. QED
    BY <2>1, <2>2
<1>10. Moment(seen) + ElectionTimeoutMin >= Moment(now) + Len(Phase)
  <2>1. \A p \in Nat \ {0} : \A x, y, l \in Nat :
          y - x + 1 <= l => x * p + l * p >= y * p + p
    <3>1. ASSUME NEW p \in Nat \ {0}, NEW x \in Nat, NEW y \in Nat, NEW l \in Nat,
                 y - x + 1 <= l
          PROVE  x * p + l * p >= y * p + p
      <4>1. PICK d \in Nat : x + l = y + 1 + d
        <5>1. x + l - y - 1 \in Nat /\ x + l = y + 1 + (x + l - y - 1)
          BY <3>1
        <5>2. QED  BY <5>1
      <4>2. (x + l) * p = x * p + l * p /\ (y + 1 + d) * p = y * p + p + d * p
        BY <3>1, <4>1
      <4>3. d * p \in Nat /\ x * p \in Nat /\ l * p \in Nat /\ y * p \in Nat
        BY <3>1, <4>1
      <4>4. QED
        BY SMTT(30), <3>1, <4>1, <4>2, <4>3
    <3>2. QED  BY SMTT(30), <3>1
  <2>2. Len(Phase) \in Nat \ {0} /\ LoyalTicks \in Nat
    BY Times, BoundAssumption
  <2>3. seen * Len(Phase) + LoyalTicks * Len(Phase) >= now * Len(Phase) + Len(Phase)
    BY ZenonT(30), <1>5, <1>8, <2>1, <2>2
  <2>4. QED
    BY ZenonT(30), <2>3 DEF Moment, ElectionTimeoutMin
<1>11. /\ Moment(now) \in Nat /\ Moment(seen) \in Nat /\ ElectionTimeoutMin \in Nat
       /\ Lapse(a) \in 0..Len(Phase) /\ Len(Phase) \in Nat
  BY ZenonT(30), <1>1, <1>5, Times, Lapses
<1>12. QED
  BY SMTT(30), <1>2, <1>9, <1>10, <1>11

\* The same after a step.
LEMMA NotOvertakenNext ==
    Majorities /\ IInv' /\ Clocks' /\ VoterIsLost' =>
        \A a \in Server, b \in Node : ~Overtaken(a, b)'
<1>1. (Majorities /\ IInv /\ Clocks /\ VoterIsLost =>
         \A a \in Server, b \in Node : ~Overtaken(a, b))'
  BY NotOvertaken, PTL
<1>2. Majorities => Majorities'
  BY ZenonT(30) DEF Majorities, Quorum
<1>3. QED
  BY ZenonT(30), <1>1, <1>2 DEF Server

\* A node becomes President in its own heartbeat handler only, and whoever was
\* President before has an earlier, a later or the same term: none is possible.
LEMMA OnePresidentKept ==
    ASSUME Majorities, PInv, IInv', DInv', NEW n \in Node, Moves(n), VoterIsLost',
           PresidentHasQuorum'
    PROVE  OnePresident'
<1>1. \A x \in Node : state'[x].president => x \in Server /\ Incumbent(x)'
  BY ZenonT(30) DEF DInv, ElectorFollows, Server, Incumbent
<1>2. ASSUME NEW b \in Node, b # n, state'[n].president, state'[b].president
      PROVE  FALSE
  <2>1. state[b].president
    BY ZenonT(30), <1>2 DEF Moves, Alone
  <2>2. ~state[n].president
    BY ZenonT(30), <1>2, <2>1 DEF PInv, OnePresident
  <2>3. slot' = Turn(n) /\ ~due'
    BY ZenonT(30), <1>1, <1>2, <2>2 DEF Moves, PresidentMoves
  <2>4. \A x \in Server : Lapse(x)' < Len(Phase)
    <3>1. Len(Phase) \in Nat \ {0} /\ slot' \in 1..Len(Phase)
      BY ZenonT(30), Times DEF DInv, Clocks, Slots
    <3>2. \A x \in Server : Turn(x) \in 1..Len(Phase)
      BY ZenonT(30), Turns DEF Slots
    <3>3. QED
      BY SMTT(30), <2>3, <3>1, <3>2 DEF Lapse
  <2>5. \A x, y \in Node : state'[x].president /\ state'[y].president
          => ~(state'[x].current_term < state'[y].current_term)
    <3>1. SUFFICES ASSUME NEW x \in Node, NEW y \in Node, state'[x].president,
                          state'[y].president,
                          state'[x].current_term < state'[y].current_term
                   PROVE  FALSE
      OBVIOUS
    <3>2. x \in Server /\ Incumbent(y)'
      BY ZenonT(30), <1>1, <3>1
    <3>3. ~Overtaken(x, y)'
      BY ZenonT(30), <3>2, NotOvertakenNext DEF DInv
    <3>4. Quorum' = Quorum
      BY DEF Quorum
    <3>5. (Cardinality(LoyalVotes(state[x])) >= Quorum)'
      BY ZenonT(30), <3>1 DEF PresidentHasQuorum
    <3>6. (Incumbent(y) /\ state[x].current_term < state[y].current_term)'
      BY ZenonT(30), <3>1, <3>2
    <3>7. (Lapse(x) < Len(Phase))'
      BY ZenonT(30), <2>4, <3>2
    <3>8. QED
      BY ZenonT(30), <3>3, <3>5, <3>6, <3>7 DEF Overtaken
  <2>6. state'[n].current_term \in Nat /\ state'[b].current_term \in Nat
    BY ZenonT(30), <1>2, NextNumbers DEF DInv
  <2>7. state'[n].current_term = state'[b].current_term
    BY SMTT(30), <1>2, <2>5, <2>6
  <2>8. n = b
    BY ZenonT(30), <1>1, <1>2, <2>7 DEF IInv, Core, OneIncumbentPerTerm, SameTerm
  <2>9. QED  BY <1>2, <2>8
<1>3. SUFFICES ASSUME NEW a \in Node, NEW b \in Node, state'[a].president,
                      state'[b].president, a # b
               PROVE  FALSE
  BY ZenonT(30) DEF OnePresident
<1>4. CASE a # n /\ b # n
  <2>1. state[a].president /\ state[b].president
    BY ZenonT(30), <1>3, <1>4 DEF Moves, Alone
  <2>2. QED
    BY ZenonT(30), <1>3, <2>1 DEF PInv, OnePresident
<1>5. QED
  BY ZenonT(30), <1>2, <1>3, <1>4

\* All of PInv survives a step of one node.
LEMMA PInvMoves ==
    ASSUME Majorities, PInv, IInv', DInv', NEW n \in Node, Moves(n)
    PROVE  PInv'
<1>1. TypeOK' /\ Clocks' /\ PacketTerms'
  BY ZenonT(30) DEF DInv, IInv, Core
<1>2. Stamped'
  BY ZenonT(30), <1>1, StampedKept
<1>3. AgreementLasts' /\ SentIsStale' /\ RefusedIsStale'
  BY ZenonT(30), <1>1, <1>2, AgreementLastsKept, SentIsStaleKept, RefusedIsStaleKept
<1>4. VoterIsLost' /\ PresidentHasQuorum'
  BY ZenonT(30), <1>1, VoterIsLostKept, PresidentHasQuorumKept
<1>5. OnePresident'
  BY ZenonT(30), <1>4, OnePresidentKept
<1>6. QED
  BY ZenonT(30), <1>2, <1>3, <1>4, <1>5 DEF PInv

\* Time passes for the timers as it does for the clocks.
LEMMA PInvTime ==
    ASSUME PInv, TimeStep, msgs' = msgs, IInv', DInv', TimersRun
    PROVE  PInv'
<1>1. /\ DInv' /\ UNCHANGED <<state, msgs, meta>>
      /\ \A n \in Node : /\ loyal_left'[n] \in Nat /\ wait_left'[n] \in Nat
                         /\ loyal_left'[n] >= loyal_left[n] - 1
                         /\ wait_left'[n] >= wait_left[n] - 1
                         /\ loyal_left[n] = 0 => loyal_left'[n] = 0
  BY ZenonT(30) DEF TimersRun, TimeStep
<1>2. IInv'
  OBVIOUS
<1>3. \A a \in Server : Now(a) \in Nat /\ Now(a)' = Now(a) + 1
  BY ZenonT(30), TimePasses, NowIs DEF PInv, DInv
<1>4. ASSUME NEW left \in Nat, NEW rest \in Nat, rest >= left - 1,
             NEW a \in Server, NEW time \in Nat, Outlasts(left, a, time)
      PROVE  rest + Now(a)' >= Moment(time) + ElectionTimeoutMin
  <2>1. left - 1 <= rest
    BY SMTT(30), <1>4
  <2>2. Fits(left, Now(a), time)
    BY ZenonT(30), <1>4, OutlastsFits
  <2>3. Fits(rest, Now(a) + 1, time)
    BY ZenonT(30), <1>3, <1>4, <2>1, <2>2, FitsLater
  <2>4. QED
    BY ZenonT(30), <1>3, <2>3 DEF Fits
<1>5. \A i \in Node : /\ loyal_left[i] \in Nat /\ wait_left[i] \in Nat
  BY ZenonT(30) DEF PInv, DInv, Clocks
<1>6. ASSUME NEW a \in Server, NEW time \in Nat
      PROVE  /\ Stale(a, time) => Stale(a, time)'
             /\ \A i \in Node : Loyal(i, a, time) => Loyal(i, a, time)'
             /\ \A i \in Node : Outlasts(wait_left[i], a, time)
                                  => Outlasts(wait_left[i], a, time)'
  <2>1. 0 \in Nat /\ 0 >= 0 - 1
    OBVIOUS
  <2>2. Stale(a, time) => Stale(a, time)'
    BY ZenonT(30), <1>4, <2>1 DEF Stale, Outlasts
  <2>3. \A i \in Node : /\ Outlasts(wait_left[i], a, time)
                             => Outlasts(wait_left[i], a, time)'
                        /\ Outlasts(loyal_left[i], a, time)
                             => Outlasts(loyal_left[i], a, time)'
    BY ZenonT(30), <1>1, <1>4, <1>5 DEF Outlasts
  <2>4. QED
    BY ZenonT(30), <2>2, <2>3 DEF Loyal
<1>7. \A m \in msgs : /\ m.src \in Node
                      /\ m.rpc = "AppendEntries" => m.time \in Nat
                      /\ m.rpc = "AEResponse" => m.req_time \in Nat
  BY ZenonT(30), PacketNumbers DEF PInv, DInv, TypeOK
<1>8. \A a \in Server : a \in Node /\ \A i \in Node : state[a].heartbeat[i] \in Nat
  BY ZenonT(30), Numbers DEF PInv, DInv, Server
<1>9. Stamped'
  BY ZenonT(30), <1>1 DEF PInv, Stamped
<1>10. AgreementLasts'
  <2>1. \A n \in Node : ~state'[n].loyalty_agreement => loyal_left'[n] = 0
    BY ZenonT(30), <1>1 DEF PInv, AgreementLasts
  <2>2. \A a \in Server : \A i \in Node \ {a} : Loyal(i, a, state[a].heartbeat[i])'
    <3>1. SUFFICES ASSUME NEW a \in Server, NEW i \in Node \ {a}
                   PROVE  Loyal(i, a, state[a].heartbeat[i])'
      OBVIOUS
    <3>. DEFINE time == state[a].heartbeat[i]
    <3>2. Loyal(i, a, time) /\ time \in Nat
      BY ZenonT(30), <1>8 DEF PInv, AgreementLasts
    <3>3. /\ Outlasts(wait_left[i], a, time) /\ Outlasts(loyal_left[i], a, time)
      BY ZenonT(30), <3>2 DEF Loyal
    <3>. HIDE DEF time
    <3>4. /\ wait_left'[i] + Now(a)' >= Moment(time) + ElectionTimeoutMin
          /\ loyal_left'[i] + Now(a)' >= Moment(time) + ElectionTimeoutMin
      BY ZenonT(30), <1>1, <1>4, <1>5, <3>2, <3>3
    <3>5. state'[a].heartbeat[i] = time
      BY ZenonT(30), <1>1 DEF time
    <3>6. QED
      BY ZenonT(30), <3>4, <3>5 DEF Loyal, Outlasts
  <2>3. \A m \in msgs' : m.rpc = "AEResponse" /\ m.result /\ m.dst \in Server
          => Loyal(m.src, m.dst, m.req_time)'
    BY ZenonT(30), <1>1, <1>6, <1>7 DEF PInv, AgreementLasts
  <2>4. QED
    BY ZenonT(30), <2>1, <2>2, <2>3 DEF AgreementLasts, Server
<1>11. SentIsStale'
  <2>1. SUFFICES ASSUME NEW m \in msgs, m.rpc = "AppendEntries", m.src \in Server
                 PROVE  /\ state[m.src].type = "follower"
                             => Outlasts(wait_left[m.src], m.src, m.time)'
                        /\ /\ state[m.src].type # "follower"
                           /\ m.term < state[m.src].current_term
                           => Stale(m.src, m.time)'
    BY ZenonT(30), <1>1 DEF SentIsStale, Server
  <2>2. QED
    BY ZenonT(30), <1>6, <1>7, <2>1 DEF PInv, SentIsStale
<1>12. RefusedIsStale'
  <2>1. SUFFICES ASSUME NEW m \in msgs, m.rpc = "AEResponse", ~m.result, m.dst \in Server
                 PROVE  /\ state[m.dst].type = "follower"
                             => Outlasts(wait_left[m.dst], m.dst, m.req_time)'
                        /\ state[m.dst].type = "candidate" => Stale(m.dst, m.req_time)'
                        /\ /\ state[m.dst].type = "leader"
                           /\ m.term <= state[m.dst].current_term
                           => Stale(m.dst, m.req_time)'
    BY ZenonT(30), <1>1 DEF RefusedIsStale, Server
  <2>2. m.dst \in Node
    BY ZenonT(30), <2>1 DEF Server
  <2>3. QED
    BY ZenonT(30), <1>6, <1>7, <2>1, <2>2 DEF PInv, RefusedIsStale
<1>13. VoterIsLost'
  <2>1. SUFFICES ASSUME NEW a \in Server, NEW b \in Node, NEW i \in Node \ {a},
                        VotesFor(i, b), state[a].current_term < state[b].current_term
                 PROVE  /\ Stale(a, state[a].heartbeat[i])'
                        /\ \A m \in msgs :
                             /\ m.rpc = "AEResponse" /\ m.result /\ m.dst = a
                             /\ m.src = i /\ m.term < state[b].current_term
                             => Stale(a, m.req_time)'
    <3>1. \A b, i \in Node : VotesFor(i, b)' <=> VotesFor(i, b)
      BY ZenonT(30), <1>1 DEF VotesFor, Standing, Candidate, Incumbent
    <3>2. QED
      BY ZenonT(30), <1>1, <3>1 DEF VoterIsLost, Server
  <2>2. /\ Stale(a, state[a].heartbeat[i])
        /\ \A m \in msgs :
             /\ m.rpc = "AEResponse" /\ m.result /\ m.dst = a /\ m.src = i
             /\ m.term < state[b].current_term
             => Stale(a, m.req_time)
    BY ZenonT(30), <2>1 DEF PInv, VoterIsLost
  <2>3. Stale(a, state[a].heartbeat[i])'
    <3>. DEFINE time == state[a].heartbeat[i]
    <3>1. Stale(a, time) /\ time \in Nat /\ time' = time
      BY ZenonT(30), <1>1, <1>8, <2>2
    <3>. HIDE DEF time
    <3>2. 0 \in Nat /\ 0 >= 0 - 1
      OBVIOUS
    <3>3. 0 + Now(a)' >= Moment(time) + ElectionTimeoutMin
      BY ZenonT(30), <1>4, <3>1, <3>2 DEF Stale
    <3>4. state'[a].heartbeat[i] = time
      BY ZenonT(30), <1>1 DEF time
    <3>5. QED
      BY ZenonT(30), <3>3, <3>4 DEF Stale, Outlasts
  <2>4. QED
    BY ZenonT(30), <1>6, <1>7, <2>2, <2>3
<1>14. PresidentHasQuorum' /\ OnePresident'
  <2>1. Quorum' = Quorum
    BY DEF Quorum
  <2>2. QED
    BY ZenonT(30), <1>1, <2>1 DEF PInv, PresidentHasQuorum, OnePresident, LoyalVotes
<1>15. QED
  BY ZenonT(30), <1>1, <1>2, <1>9, <1>10, <1>11, <1>12, <1>13, <1>14 DEF PInv

\* A step that touches neither the daemons nor their timers.
LEMMA PInvQuiet ==
    ASSUME PInv, IInv', DInv', UNCHANGED <<state, msgs, slot, due, timers>>
    PROVE  PInv'
<1>1. /\ state' = state /\ msgs' = msgs /\ loyal_left' = loyal_left
      /\ wait_left' = wait_left /\ Quorum' = Quorum
  BY ZenonT(30) DEF timers, Quorum
<1>2. \A a : Now(a)' = Now(a)
  BY ZenonT(30) DEF Now, Lapse
<1>3. Stamped' /\ PresidentHasQuorum' /\ OnePresident'
  BY ZenonT(30), <1>1 DEF PInv, Stamped, PresidentHasQuorum, OnePresident, LoyalVotes
<1>4. AgreementLasts' /\ SentIsStale' /\ RefusedIsStale'
  BY ZenonT(30), <1>1, <1>2 DEF PInv, AgreementLasts, SentIsStale, RefusedIsStale,
     Loyal, Stale, Outlasts, Server
<1>5. \A b, i : VotesFor(i, b)' <=> VotesFor(i, b)
  BY ZenonT(30), <1>1 DEF VotesFor, Standing, Candidate, Incumbent
<1>6. VoterIsLost'
  BY ZenonT(30), <1>1, <1>2, <1>5 DEF PInv, VoterIsLost, Stale, Outlasts, Server
<1>7. QED
  BY ZenonT(30), <1>3, <1>4, <1>6 DEF PInv

\* The daemons start without leaders, votes and packets.
LEMMA PInvInit ==
    ASSUME TInit, IInv, DInv
    PROVE  PInv
<1>1. IInv /\ DInv
  OBVIOUS
<1>2. /\ state = [n \in Node |-> InitNode] /\ msgs = {} /\ slot = Len(Phase)
      /\ due = FALSE
      /\ loyal_left = [n \in Node |-> ElectionTimeoutMin]
      /\ wait_left = [n \in Node |-> ElectionTimeoutMin]
  BY ZenonT(30) DEF TInit, Init
<1>3. \A n \in Node : /\ state[n].type = "follower" /\ ~state[n].president
                      /\ state[n].loyalty_agreement
                      /\ state[n].local_time \in Nat
                      /\ \A i \in Node : state[n].heartbeat[i] = 0
  BY <1>2, BoundAssumption DEF InitNode
<1>4. Stamped
  BY <1>2, <1>3 DEF Stamped
<1>5. AgreementLasts
  <2>1. ASSUME NEW a \in Server, NEW i \in Node
        PROVE  Loyal(i, a, state[a].heartbeat[i])
    <3>1. /\ state[a].heartbeat[i] = 0 /\ state[a].local_time \in Nat
          /\ loyal_left[i] = ElectionTimeoutMin /\ wait_left[i] = ElectionTimeoutMin
      BY ZenonT(30), <1>2, <1>3 DEF Server
    <3>2. 0 \in Nat /\ 0 <= state[a].local_time
      BY <3>1
    <3>3. Fits(ElectionTimeoutMin, Now(a), 0)
      BY ZenonT(30), <1>1, <3>2, NowIs DEF DInv
    <3>4. QED
      BY ZenonT(30), <3>1, <3>3, OutlastsFits DEF Loyal
  <2>2. QED
    BY ZenonT(30), <1>2, <1>3, <2>1 DEF AgreementLasts
<1>6. SentIsStale /\ RefusedIsStale
  BY ZenonT(30), <1>2 DEF SentIsStale, RefusedIsStale
<1>7. VoterIsLost
  <2>1. \A b \in Node : ~Standing(b) /\ ~Candidate(b)
    BY <1>3 DEF Standing, Candidate, Incumbent
  <2>2. QED
    BY ZenonT(30), <2>1 DEF VoterIsLost, VotesFor
<1>8. PresidentHasQuorum /\ OnePresident
  BY ZenonT(30), <1>3 DEF PresidentHasQuorum, OnePresident
<1>9. QED
  BY ZenonT(30), <1>1, <1>4, <1>5, <1>6, <1>7, <1>8 DEF PInv

=============================================================================
