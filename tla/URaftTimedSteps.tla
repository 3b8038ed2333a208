-------------------------- MODULE URaftTimedSteps ---------------------------
(***************************************************************************)
(* What a step of one daemon does, in the words that the proofs about the  *)
(* clocks and the Presidents share: to the daemon itself, to its timers and *)
(* to the packets, action by action and then for all of them (Moves).      *)
(***************************************************************************)
EXTENDS URaftTimed

-----------------------------------------------------------------------------
(* What each handler does.                                                 *)

\* Only node n changes its state, and packets are added.
Alone(n) ==
    /\ \A i \in Node \ {n} : state'[i] = state[i]
    /\ msgs \subseteq msgs'

\* Neither the clock nor the answers it has noted change.
SameClock(s, t) == t.local_time = s.local_time /\ t.heartbeat = s.heartbeat

\* t is the state of a node that has the role it had in state s.
SameOffice(s, t) ==
    /\ t.type = s.type /\ t.president = s.president
    /\ t.quorum_loss_streak = s.quorum_loss_streak
    /\ t.current_term = s.current_term /\ t.vote_granted = s.vote_granted
    /\ t.leader_id = s.leader_id

\* t is the state of a node after checkTerm found a newer term than that of s.
Retires(s, t) ==
    /\ t.type = "follower" /\ ~t.president /\ t.leader_id = None
    /\ t.quorum_loss_streak \in {s.quorum_loss_streak, 0}
    /\ t.current_term > s.current_term

\* What electionTimeout does.
StandsUp(n) ==
    LET s == state[n]  t == state'[n] IN
    /\ n \notin Elector /\ s.type # "leader" /\ t.type # "follower"
    /\ t.current_term = s.current_term + 1 /\ t.vote_granted = {n}
    /\ t.president = s.president /\ t.quorum_loss_streak = s.quorum_loss_streak
    /\ t.loyalty_agreement = s.loyalty_agreement /\ t.local_time = s.local_time
    /\ t.heartbeat = [s.heartbeat EXCEPT ![n] = s.local_time]
    /\ \A m \in msgs' \ msgs :
         m.rpc = "RequestVote" /\ m.src = n /\ m.term = t.current_term

\* What stepDownToFollower does.
StepsDown(n) ==
    LET s == state[n]  t == state'[n] IN
    /\ t.type = "follower" /\ ~t.president /\ t.quorum_loss_streak = 0
    /\ t.current_term = s.current_term
    /\ t.loyalty_agreement = s.loyalty_agreement /\ SameClock(s, t)
    /\ msgs' = msgs

\* What heartbeat does: the loss of the quorum is forgiven, or it deposes the
\* President, or there is none.
Beats(n) ==
    LET s == state[n]  t == state'[n] IN
    /\ t.current_term = s.current_term /\ t.vote_granted = s.vote_granted
    /\ t.local_time = s.local_time + 1
    /\ t.heartbeat = [s.heartbeat EXCEPT ![n] = s.local_time + 1]
    /\ t.loyalty_agreement = s.loyalty_agreement
    /\ \/ /\ s.president /\ t.president /\ t.type = s.type
          /\ t.quorum_loss_streak = s.quorum_loss_streak + 1
          /\ t.quorum_loss_streak < Grace
       \/ /\ s.president /\ ~t.president /\ t.type = "follower"
          /\ t.quorum_loss_streak = 0 /\ msgs' = msgs
       \/ /\ t.type = s.type
          /\ t.quorum_loss_streak \in {s.quorum_loss_streak, 0}
          /\ s.president => t.president
          /\ t.president => /\ s.type = "leader"
                            /\ Cardinality(LoyalVotes(t)) >= Quorum
          /\ \A m \in msgs' \ msgs : m.rpc = "AppendEntries" => s.type = "leader"
    /\ \A m \in msgs' \ msgs :
         /\ m.rpc \in {"AppendEntries", "RequestVote"}
         /\ m.src = n /\ m.term = t.current_term
         /\ m.rpc = "AppendEntries" => m.time = t.local_time

\* The answer to a heartbeat m.
AnswersAppend(n, m, result) ==
    /\ m.rpc = "AppendEntries"
    /\ \A p \in msgs' \ msgs :
         /\ p.rpc = "AEResponse" /\ p.src = n /\ p.dst = m.src
         /\ p.result = result /\ p.req_time = m.time
         /\ p.term = state'[n].current_term

\* What rpcAppend does to a packet with an old term.
Refuses(n, m) ==
    /\ UNCHANGED state
    /\ AnswersAppend(n, m, FALSE) /\ m.term < state[n].current_term

\* What rpcAppend does to a current packet.
Follows(n, m) ==
    LET s == state[n]  t == state'[n] IN
    /\ t.type = "follower" /\ t.loyalty_agreement
    /\ t.current_term >= s.current_term /\ SameClock(s, t)
    /\ t.quorum_loss_streak \in {s.quorum_loss_streak, 0}
    /\ t.president => /\ s.president /\ t.current_term = s.current_term
                      /\ t.vote_granted = s.vote_granted
    /\ AnswersAppend(n, m, TRUE)

\* What rpcAppendResponse does.
CountsAnswer(n, m) ==
    LET s == state[n]  t == state'[n] IN
    /\ msgs' = msgs /\ t.loyalty_agreement = s.loyalty_agreement
    /\ t.local_time = s.local_time
    /\ \/ Newer(n, m) /\ Retires(s, t) /\ SameClock(s, t)
       \/ /\ ~Newer(n, m) /\ SameOffice(s, t)
          /\ \/ SameClock(s, t)
             \/ /\ s.type = "leader" /\ m.rpc = "AEResponse"
                /\ m.term = s.current_term
                /\ t.heartbeat = [s.heartbeat EXCEPT
                                    ![m.src] = Larger(s.heartbeat[m.src], m.req_time)]

\* What rpcReqVote does; a vote is granted by a node that is loyal to nobody,
\* or for the leader it follows.
AnswersVote(n, m) ==
    LET s == state[n]  t == state'[n] IN
    /\ SameClock(s, t) /\ t.loyalty_agreement = s.loyalty_agreement
    /\ \/ Newer(n, m) /\ Retires(s, t)
       \/ ~Newer(n, m) /\ SameOffice(s, t)
    /\ \A p \in msgs' \ msgs :
         /\ p.rpc = "RVResponse" /\ p.src = n /\ p.dst = m.src
         /\ p.term = t.current_term
         /\ p.result => \/ ~s.loyalty_agreement
                        \/ /\ s.type = "follower" /\ s.leader_id = m.src
                           /\ s.current_term = t.current_term

\* What rpcReqVoteResponse does.
CountsVote(n, m) ==
    LET s == state[n]  t == state'[n] IN
    /\ SameClock(s, t) /\ t.loyalty_agreement = s.loyalty_agreement
    /\ \/ Newer(n, m) /\ Retires(s, t) /\ msgs' = msgs
       \/ ~Newer(n, m) /\ SameOffice(s, t) /\ msgs' = msgs
       \/ /\ ~Newer(n, m) /\ m.rpc = "RVResponse" /\ m.term = s.current_term
          /\ s.type = "candidate" /\ t.type \in {"candidate", "leader"}
          /\ t.president = s.president
          /\ t.quorum_loss_streak = s.quorum_loss_streak
          /\ t.current_term = s.current_term
          /\ \A i \in t.vote_granted : i \in s.vote_granted \/ (m.result /\ i = m.src)
          /\ \A p \in msgs' \ msgs :
               /\ p.rpc = "AppendEntries" /\ p.src = n
               /\ p.term = t.current_term /\ p.time = t.local_time

\* What the loyalty timer does.
Expires(n) ==
    /\ SameOffice(state[n], state'[n]) /\ SameClock(state[n], state'[n])
    /\ ~state'[n].loyalty_agreement /\ msgs' = msgs

\* The five ways in which a node receives a packet.
Received(n, m) ==
    \/ Refuses(n, m) /\ UNCHANGED timers
    \/ /\ Follows(n, m)
       /\ loyal_left'[n] = ElectionTimeoutMin /\ wait_left'[n] = ElectionTimeoutMin
    \/ /\ CountsAnswer(n, m) \/ AnswersVote(n, m) \/ CountsVote(n, m)
       /\ loyal_left' = loyal_left
       /\ Newer(n, m) => wait_left'[n] = ElectionTimeoutMin

-----------------------------------------------------------------------------
(* What it does to the clocks and the timers.                              *)

\* What a step of node n does to the timers: it restarts its own or none.
Timing(n) ==
    /\ Clocks'
    /\ \A i \in Node \ {n} :
         loyal_left'[i] = loyal_left[i] /\ wait_left'[i] = wait_left[i]
    /\ loyal_left'[n] \in {loyal_left[n], ElectionTimeoutMin}
    /\ wait_left'[n] \in {wait_left[n], ElectionTimeoutMin}

\* The heartbeat of a server turns the period behind it into a tick, and one
\* that deposes the President restarts its election timer.
HeartbeatTiming(n) ==
    /\ loyal_left' = loyal_left
    /\ \A a \in Server : Now(a)' = Now(a)
    /\ n \in Server => slot' = Turn(n) /\ ~due'
    /\ state[n].president /\ ~state'[n].president
         => wait_left'[n] = ElectionTimeoutMin

\* What the passing of time does to the timers: a started one runs for no
\* longer than a slot, and one that has fired is not started again.
TimersRun ==
    \A n \in Node : /\ loyal_left'[n] \in Nat /\ wait_left'[n] \in Nat
                    /\ loyal_left'[n] >= loyal_left[n] - 1
                    /\ wait_left'[n] >= wait_left[n] - 1
                    /\ loyal_left[n] = 0 => loyal_left'[n] = 0

-----------------------------------------------------------------------------
(* What a step of node n may do.                                           *)

\* An answered heartbeat of the Leader's own term moves a node's time.
ClockMoves(n) ==
    LET s == state[n]  t == state'[n] IN
    /\ t.local_time >= s.local_time
    /\ t.heartbeat[n] \in {s.heartbeat[n], t.local_time}
    /\ \A i \in Node : t.heartbeat[i] >= s.heartbeat[i]
    /\ \A i \in Node \ {n} :
         \/ t.heartbeat[i] = s.heartbeat[i]
         \/ \E m \in msgs :
              /\ m.rpc = "AEResponse" /\ m.src = i /\ m.dst = n
              /\ m.req_time = t.heartbeat[i]
              /\ s.type = "leader" /\ m.term = s.current_term
    /\ \/ t.loyalty_agreement
       \/ loyal_left'[n] = 0
       \/ ~s.loyalty_agreement /\ loyal_left'[n] = loyal_left[n]

\* The node becomes or stays a follower, stands for the next term, or goes on
\* standing in its term.
RoleMoves(n) ==
    LET s == state[n]  t == state'[n] IN
    \/ /\ t.type = "follower" /\ t.current_term >= s.current_term
       /\ s.type = "follower" \/ wait_left'[n] = ElectionTimeoutMin
    \/ wait_left[n] = 0 /\ StandsUp(n)
    \/ /\ s.type # "follower" /\ t.type # "follower"
       /\ t.type = "candidate" => s.type = "candidate"
       /\ t.current_term = s.current_term

\* A standing node was one, with the votes that are granted to it.
VoteMoves(n) ==
    LET s == state[n]  t == state'[n] IN
    t.type # "follower" \/ t.president =>
      \/ wait_left[n] = 0 /\ StandsUp(n)
      \/ /\ Standing(n) /\ t.current_term = s.current_term
         /\ t.type = "candidate" => s.type = "candidate"
         /\ \A i \in t.vote_granted : VotesFor(i, n)

\* The office is kept, or taken by a Leader that counts a quorum of loyal
\* voters at its heartbeat.
PresidentMoves(n) ==
    LET s == state[n]  t == state'[n] IN
    t.president =>
      \/ s.president /\ t.local_time = s.local_time
      \/ /\ t.type = "leader" /\ Cardinality(LoyalVotes(t)) >= Quorum
         /\ n \in Server => slot' = Turn(n) /\ ~due'

\* Only a standing node sends heartbeats, only a loyal one confirms them, and
\* only one that is loyal to nobody else votes.
PacketMoves(n) ==
    LET s == state[n]  t == state'[n] IN
    \A m \in msgs' \ msgs :
      /\ m.src = n /\ m.term = t.current_term
      /\ m.rpc = "AppendEntries" => m.time = t.local_time /\ t.type # "follower"
      /\ m.rpc = "AEResponse" =>
           \E p \in msgs :
             /\ p.rpc = "AppendEntries" /\ p.src = m.dst /\ p.time = m.req_time
             /\ m.result => /\ loyal_left'[n] = ElectionTimeoutMin
                            /\ wait_left'[n] = ElectionTimeoutMin
             /\ ~m.result => p.term < m.term
      /\ m.rpc = "RVResponse" /\ m.result =>
           \/ ~s.loyalty_agreement
           \/ s.type = "follower" /\ s.leader_id = m.dst /\ s.current_term = m.term

\* What a handler of node n may do.
Moves(n) ==
    /\ Alone(n) /\ Timing(n)
    /\ \A a \in Server : Now(a)' = Now(a)
    /\ ClockMoves(n) /\ RoleMoves(n) /\ VoteMoves(n)
    /\ PresidentMoves(n) /\ PacketMoves(n)

-----------------------------------------------------------------------------
(* Timers and moments on the numbers, and Presidents in time.              *)

\* A timer with this many slots left, now, was not started before time.
Fits(left, now, time) == left + now >= Moment(time) + ElectionTimeoutMin

\* Some loyal voter of a server that has just counted a quorum of them would
\* have voted for an incumbent of a later term, but that takes longer than its
\* answer is counted.
Overtaken(a, b) ==
    /\ Incumbent(b) /\ state[a].current_term < state[b].current_term
    /\ Cardinality(LoyalVotes(state[a])) >= Quorum /\ Lapse(a) < Len(Phase)

=============================================================================
