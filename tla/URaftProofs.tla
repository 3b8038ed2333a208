---------------------------- MODULE URaftProofs -----------------------------
(***************************************************************************)
(* The theorems about URaft and URaftTimed: a term has at most one Leader, *)
(* there is one President at a time, and it counts only loyal voters.      *)
(* First comes what each step of a daemon does to its clock, its role, its *)
(* timers and the packets, and that the heartbeat handler deposes a        *)
(* President before its election timer fires.  The theorems join these     *)
(* steps, those of the modules below, and the fact that Quorum is a        *)
(* majority of the nodes.  Without deaths and restarts every step of       *)
(* URaftTimed is one of URaft, so IInv holds there as well.                *)
(***************************************************************************)
EXTENDS URaftVotes, URaftTimedMoves

-----------------------------------------------------------------------------
(* What the helpers of the handlers do to a daemon's clock, agreement and  *)
(* streak of lost quorums.                                                 *)

\* stepDownToFollower forgets the streak.
LEMMA StepDownClock ==
    ASSUME NEW s \in RaftState
    PROVE  LET t == StepDownToFollower(s)
           IN  /\ SameClock(s, t) /\ t.loyalty_agreement = s.loyalty_agreement
               /\ t.quorum_loss_streak = 0
BY ZenonT(30) DEF RaftState, StepDownToFollower, SameClock

\* A node that stands for election counts itself as loyal.
LEMMA StandClock ==
    ASSUME NEW n \in Node, NEW s \in RaftState, NEW version \in 0..MaxVersion
    PROVE  LET t == Stand(n, s, version)
           IN  /\ t.local_time = s.local_time
               /\ t.heartbeat = [s.heartbeat EXCEPT ![n] = s.local_time]
               /\ t.loyalty_agreement = s.loyalty_agreement
               /\ t.quorum_loss_streak = s.quorum_loss_streak
BY ZenonT(30) DEF RaftState, Stand

\* So does one whose clock ticks.
LEMMA TickClock ==
    ASSUME NEW n \in Node, NEW s \in RaftState
    PROVE  LET t == Tick(n, s)
           IN  /\ t.local_time = s.local_time + 1
               /\ t.heartbeat = [s.heartbeat EXCEPT ![n] = s.local_time + 1]
               /\ t.loyalty_agreement = s.loyalty_agreement
               /\ t.quorum_loss_streak = s.quorum_loss_streak
BY ZenonT(30) DEF RaftState, Tick

\* Counting a vote reads no clock.
LEMMA CountVoteClock ==
    ASSUME NEW s \in RaftState, NEW m
    PROVE  LET t == CountVote(s, m)
           IN  /\ SameClock(s, t) /\ t.loyalty_agreement = s.loyalty_agreement
               /\ t.quorum_loss_streak = s.quorum_loss_streak
BY ZenonT(30) DEF RaftState, CountVote, SameClock

\* Heartbeats carry the time of their sender's clock.
LEMMA SentTimes ==
    ASSUME NEW n \in Node, NEW s \in RaftState
    PROVE  \A m \in SendHeartbeat(n, s) : m.time = s.local_time
BY DEF SendHeartbeat

-----------------------------------------------------------------------------
(* What each handler does.                                                 *)

\* A step that gives one node a new state, with and without new packets.
LEMMA OneNode ==
    ASSUME TypeOK, NEW n \in Node, NEW t \in RaftState,
           state' = [state EXCEPT ![n] = t], NEW new, msgs' = msgs \cup new,
           new \subseteq RpcRequest \cup RpcResponse, UNCHANGED meta
    PROVE  /\ TypeOK' /\ Alone(n) /\ state'[n] = t
           /\ msgs' \ msgs \subseteq new
<1>1. TypeOK'
  BY ZenonT(30), TypeOfStep
<1>2. Alone(n) /\ state'[n] = t
  BY ZenonT(30) DEF TypeOK, Alone
<1>3. QED
  BY ZenonT(30), <1>1, <1>2

\* A handler that sends nothing leaves the packets as they are.
LEMMA Silent ==
    ASSUME TypeOK, NEW n \in Node, NEW t \in RaftState,
           state' = [state EXCEPT ![n] = t], UNCHANGED <<msgs, meta>>
    PROVE  TypeOK' /\ Alone(n) /\ state'[n] = t
BY ZenonT(30) DEF TypeOK, Alone

\* electionTimeout makes the node a candidate of the next term.
LEMMA EffectElectionTimeout ==
    ASSUME TypeOK, NEW n \in Node, ElectionTimeout(n)
    PROVE  TypeOK' /\ Alone(n) /\ StandsUp(n)
<1>1. PICK version \in NodeGetVersion(n) :
        LET s == Stand(n, state[n], version)
        IN  /\ state' = [state EXCEPT ![n] = s]
            /\ msgs' = msgs \cup (IF Quorum > 1
                                  THEN SendRequestForVotes(n, s) ELSE {})
  BY ZenonT(30) DEF ElectionTimeout
<1>. DEFINE t == Stand(n, state[n], version)
            new == IF Quorum > 1 THEN SendRequestForVotes(n, t) ELSE {}
<1>2. /\ state[n] \in RaftState /\ version \in 0..MaxVersion
      /\ n \notin Elector /\ state[n].type # "leader"
      /\ state[n].current_term < MaxTerm /\ UNCHANGED meta
  BY ZenonT(30), Numbers, VersionType DEF ElectionTimeout
<1>3. /\ t \in RaftState /\ t.type \in {"candidate", "leader"}
      /\ t.current_term = state[n].current_term + 1
      /\ t.vote_granted = {n} /\ t.president = state[n].president
  BY <1>2, StandFacts
<1>4. /\ t.local_time = state[n].local_time
      /\ t.heartbeat = [state[n].heartbeat EXCEPT ![n] = state[n].local_time]
      /\ t.loyalty_agreement = state[n].loyalty_agreement
      /\ t.quorum_loss_streak = state[n].quorum_loss_streak
  <2>1. state[n] \in RaftState /\ version \in 0..MaxVersion
    BY ZenonT(30), <1>2
  <2>2. QED
    BY ZenonT(90), <2>1, StandClock
<1>5. /\ new \subseteq RpcRequest \cup RpcResponse
      /\ \A m \in new : m.rpc = "RequestVote" /\ m.src = n /\ m.term = t.current_term
  BY <1>3, SentRequests
<1>6. state' = [state EXCEPT ![n] = t] /\ msgs' = msgs \cup new
  BY ZenonT(30), <1>1
<1>. HIDE DEF t, new
<1>7. TypeOK' /\ Alone(n) /\ state'[n] = t /\ msgs' \ msgs \subseteq new
  BY ZenonT(30), <1>2, <1>3, <1>5, <1>6, OneNode
<1>8. t.type # "follower"
  BY <1>3
<1>9. QED
  BY ZenonT(30), <1>2, <1>3, <1>4, <1>5, <1>7, <1>8 DEF StandsUp

\* A demotion and a dead metadata server take the role away.
LEMMA EffectStepDown ==
    ASSUME TypeOK, NEW n \in Node, DemoteLeader(n) \/ MetadataDead(n)
    PROVE  TypeOK' /\ Alone(n) /\ StepsDown(n)
<1>. DEFINE t == StepDownToFollower(state[n])
<1>1. state[n] \in RaftState
  BY Numbers
<1>2. /\ t \in RaftState /\ t.type = "follower" /\ ~t.president
      /\ t.current_term = state[n].current_term /\ t.quorum_loss_streak = 0
      /\ t.loyalty_agreement = state[n].loyalty_agreement /\ SameClock(state[n], t)
  BY ZenonT(30), <1>1, StepDownFacts, StepDownClock
<1>3. state' = [state EXCEPT ![n] = t] /\ UNCHANGED <<msgs, meta>>
  BY ZenonT(30) DEF DemoteLeader, MetadataDead
<1>. HIDE DEF t
<1>4. TypeOK' /\ Alone(n) /\ state'[n] = t
  BY ZenonT(30), <1>2, <1>3, Silent
<1>5. QED
  BY ZenonT(30), <1>2, <1>3, <1>4 DEF StepsDown

\* heartbeat counts the time, sends heartbeats and decides on the office.
LEMMA EffectHeartbeat ==
    ASSUME TypeOK, NEW n \in Node, Heartbeat(n)
    PROVE  TypeOK' /\ Alone(n) /\ Beats(n)
<1>. DEFINE s == Tick(n, state[n])
            hasQuorum == /\ s.type = "leader"
                         /\ Cardinality(LoyalVotes(s)) >= Quorum
            streak == s.quorum_loss_streak + 1
<1>1. /\ state[n] \in RaftState /\ state[n].local_time < MaxTime /\ UNCHANGED meta
      /\ state[n].quorum_loss_streak \in Nat
  BY ZenonT(30), Numbers DEF Heartbeat
<1>2. /\ s \in RaftState
      /\ s.type = state[n].type /\ s.president = state[n].president
      /\ s.current_term = state[n].current_term
      /\ s.vote_granted = state[n].vote_granted
  BY ZenonT(30), <1>1, TickFacts
<1>3. /\ s.local_time = state[n].local_time + 1
      /\ s.heartbeat = [state[n].heartbeat EXCEPT ![n] = state[n].local_time + 1]
      /\ s.loyalty_agreement = state[n].loyalty_agreement
      /\ s.quorum_loss_streak = state[n].quorum_loss_streak
  BY ZenonT(30), <1>1, TickClock
<1>4. /\ \A t : SameClock(s, t) => LoyalVotes(t) = LoyalVotes(s)
      /\ SendHeartbeat(n, s) \subseteq RpcRequest \cup RpcResponse
      /\ SendRequestForVotes(n, s) \subseteq RpcRequest \cup RpcResponse
      /\ \A m \in SendHeartbeat(n, s) :
           /\ m.rpc = "AppendEntries" /\ m.src = n
           /\ m.term = s.current_term /\ m.time = s.local_time
      /\ \A m \in SendRequestForVotes(n, s) :
           m.rpc = "RequestVote" /\ m.src = n /\ m.term = s.current_term
  <2>1. \A t : SameClock(s, t) => LoyalVotes(t) = LoyalVotes(s)
    BY ZenonT(30) DEF SameClock, LoyalVotes
  <2>. HIDE DEF s
  <2>2. QED
    BY SMTT(30), <1>2, <2>1, SentRequests, SentTimes
<1>5. \/ /\ s.president /\ streak < Grace
         /\ state' = [state EXCEPT
                        ![n] = [s EXCEPT !.quorum_loss_streak = streak]]
         /\ msgs' = msgs \cup SendHeartbeat(n, s)
      \/ /\ s.president
         /\ state' = [state EXCEPT ![n] = StepDownToFollower(s)]
         /\ msgs' = msgs
      \/ /\ s.president => hasQuorum
         /\ state' = [state EXCEPT
                        ![n] = [s EXCEPT !.president = hasQuorum,
                                         !.quorum_loss_streak =
                                            IF s.president THEN 0 ELSE @]]
         /\ msgs' = msgs \cup
              CASE s.type = "candidate" -> SendRequestForVotes(n, s)
                [] s.type = "leader"    -> SendHeartbeat(n, s)
                [] s.type = "follower"  -> {}
  BY ZenonT(30) DEF Heartbeat, QuorumLossTolerated
<1>6. hasQuorum \in BOOLEAN /\ (hasQuorum => s.type = "leader")
      /\ (hasQuorum => Cardinality(LoyalVotes(s)) >= Quorum)
  OBVIOUS
<1>7. streak \in Nat
  BY <1>1, <1>3
<1>. HIDE DEF s, hasQuorum, streak
<1>8. CASE /\ s.president /\ streak < Grace
           /\ state' = [state EXCEPT ![n] = [s EXCEPT !.quorum_loss_streak = streak]]
           /\ msgs' = msgs \cup SendHeartbeat(n, s)
  <2>. DEFINE t == [s EXCEPT !.quorum_loss_streak = streak]
  <2>1. /\ t \in RaftState /\ t.type = s.type /\ t.president = s.president
        /\ t.current_term = s.current_term /\ t.vote_granted = s.vote_granted
        /\ t.quorum_loss_streak = streak /\ SameClock(s, t)
        /\ t.loyalty_agreement = s.loyalty_agreement
    <3>1. s \in RaftState
      BY ZenonT(30), <1>2
    <3>2. t \in RaftState
      BY ZenonT(30), <1>7, <3>1 DEF RaftState
    <3>3. QED
      BY ZenonT(30), <3>1, <3>2 DEF RaftState, SameClock
  <2>. HIDE DEF t
  <2>2. state' = [state EXCEPT ![n] = t]
    BY ZenonT(30), <1>8 DEF t
  <2>3. TypeOK' /\ Alone(n) /\ state'[n] = t /\ msgs' \ msgs \subseteq SendHeartbeat(n, s)
    BY ZenonT(90), <1>1, <1>4, <1>8, <2>1, <2>2, OneNode
  <2>4. t.quorum_loss_streak = state[n].quorum_loss_streak + 1
    BY ZenonT(30), <1>3, <2>1 DEF streak
  <2>5. QED
    BY ZenonT(30), <1>2, <1>3, <1>4, <1>8, <2>1, <2>3, <2>4 DEF Beats, SameClock
<1>9. CASE /\ s.president
           /\ state' = [state EXCEPT ![n] = StepDownToFollower(s)]
           /\ msgs' = msgs
  <2>. DEFINE t == StepDownToFollower(s)
  <2>1. /\ t \in RaftState /\ t.type = "follower" /\ ~t.president
        /\ t.current_term = s.current_term /\ t.vote_granted = s.vote_granted
        /\ t.quorum_loss_streak = 0 /\ SameClock(s, t)
        /\ t.loyalty_agreement = s.loyalty_agreement
    BY ZenonT(30), <1>2, StepDownFacts, StepDownClock
  <2>. HIDE DEF t
  <2>2. state' = [state EXCEPT ![n] = t]
    BY ZenonT(30), <1>9 DEF t
  <2>3. TypeOK' /\ Alone(n) /\ state'[n] = t
    BY ZenonT(30), <1>1, <1>9, <2>1, <2>2, Silent
  <2>4. QED
    BY ZenonT(30), <1>2, <1>3, <1>9, <2>1, <2>3 DEF Beats, SameClock
<1>10. CASE /\ s.president => hasQuorum
            /\ state' = [state EXCEPT
                           ![n] = [s EXCEPT !.president = hasQuorum,
                                            !.quorum_loss_streak =
                                               IF s.president THEN 0 ELSE @]]
            /\ msgs' = msgs \cup
                 CASE s.type = "candidate" -> SendRequestForVotes(n, s)
                   [] s.type = "leader"    -> SendHeartbeat(n, s)
                   [] s.type = "follower"  -> {}
  <2>. DEFINE left == IF s.president THEN 0 ELSE s.quorum_loss_streak
              t == [s EXCEPT !.president = hasQuorum, !.quorum_loss_streak = left]
              new == CASE s.type = "candidate" -> SendRequestForVotes(n, s)
                       [] s.type = "leader"    -> SendHeartbeat(n, s)
                       [] s.type = "follower"  -> {}
  <2>1. left \in Nat /\ left \in {s.quorum_loss_streak, 0}
    BY <1>2, StateFields
  <2>2. state' = [state EXCEPT ![n] = t] /\ msgs' = msgs \cup new
    <3>1. t = [s EXCEPT !.president = hasQuorum,
                        !.quorum_loss_streak = IF s.president THEN 0 ELSE @]
      BY <1>2 DEF RaftState
    <3>2. QED  BY ZenonT(30), <1>10, <3>1
  <2>3. /\ new \subseteq RpcRequest \cup RpcResponse
        /\ \A m \in new :
             /\ m.rpc \in {"AppendEntries", "RequestVote"} /\ m.src = n
             /\ m.term = s.current_term
             /\ m.rpc = "AppendEntries" => m.time = s.local_time /\ s.type = "leader"
    BY <1>2, <1>4, StateFields
  <2>. HIDE DEF left, new
  <2>4. /\ t \in RaftState /\ t.type = s.type /\ t.president = hasQuorum
        /\ t.current_term = s.current_term /\ t.vote_granted = s.vote_granted
        /\ t.quorum_loss_streak = left /\ SameClock(s, t)
        /\ t.loyalty_agreement = s.loyalty_agreement
    BY ZenonT(30), <1>2, <1>6, <2>1 DEF RaftState, SameClock
  <2>. HIDE DEF t
  <2>5. TypeOK' /\ Alone(n) /\ state'[n] = t /\ msgs' \ msgs \subseteq new
    BY ZenonT(30), <1>1, <2>2, <2>3, <2>4, OneNode
  <2>6. /\ t.quorum_loss_streak \in {state[n].quorum_loss_streak, 0}
        /\ state[n].president => t.president
        /\ t.president => state[n].type = "leader" /\ Cardinality(LoyalVotes(t)) >= Quorum
    BY ZenonT(30), <1>2, <1>3, <1>4, <1>6, <1>10, <2>1, <2>4
  <2>7. QED
    BY ZenonT(30), <1>2, <1>3, <2>3, <2>4, <2>5, <2>6 DEF Beats, SameClock
<1>11. QED
  BY ZenonT(30), <1>5, <1>8, <1>9, <1>10

\* checkTerm, called on every packet.
LEMMA TermChecked ==
    ASSUME TypeOK, NEW m \in msgs, NEW n \in Node
    PROVE  LET c == CheckTerm(state[n], m.term)
           IN  /\ c \in RaftState /\ m.src \in Node /\ m.dst \in Node
               /\ m.term \in Nat /\ c.current_term >= m.term
               /\ c.current_term >= state[n].current_term
               /\ SameClock(state[n], c)
               /\ c.loyalty_agreement = state[n].loyalty_agreement
               /\ \/ Newer(n, m) /\ Retires(state[n], c) /\ c.current_term = m.term
                  \/ ~Newer(n, m) /\ c = state[n]
\* checkTerm reads no clock.
<1>CheckTermClock.
    ASSUME NEW s \in RaftState, NEW term \in 0..MaxTerm
    PROVE  LET t == CheckTerm(s, term)
           IN  /\ SameClock(s, t) /\ t.loyalty_agreement = s.loyalty_agreement
               /\ t.quorum_loss_streak \in {s.quorum_loss_streak, 0}
  <2> USE <1>CheckTermClock
  <2>. DEFINE d == StepDownToFollower(s)
  <2>1. /\ d \in RaftState /\ SameClock(s, d) /\ d.quorum_loss_streak = 0
        /\ d.loyalty_agreement = s.loyalty_agreement
    BY ZenonT(30), StepDownFacts, StepDownClock
  <2>2. CheckTerm(s, term) \in {s, [d EXCEPT !.current_term = term]}
    BY ZenonT(30) DEF CheckTerm
  <2>. HIDE DEF d
  <2>3. QED
    BY ZenonT(30), <2>1, <2>2 DEF RaftState, SameClock
<1>1. /\ m.term \in 0..MaxTerm /\ m.src \in Node /\ m.dst \in Node
      /\ state[n] \in RaftState /\ state[n].current_term \in Nat
  BY ZenonT(30), Numbers, PacketFields DEF TypeOK
<1>2. m.term \in Nat
  BY <1>1, BoundAssumption
<1>. DEFINE c == CheckTerm(state[n], m.term)
<1>3. /\ c \in RaftState
      /\ m.term <= state[n].current_term => c = state[n]
      /\ m.term > state[n].current_term =>
           /\ c.type = "follower" /\ ~c.president /\ c.leader_id = None
           /\ c.current_term = m.term
  BY ZenonT(30), <1>1, CheckTermFacts
<1>4. /\ SameClock(state[n], c) /\ c.loyalty_agreement = state[n].loyalty_agreement
      /\ c.quorum_loss_streak \in {state[n].quorum_loss_streak, 0}
  BY ZenonT(30), <1>1, <1>CheckTermClock
<1>. HIDE DEF c
<1>5. CASE m.term > state[n].current_term
  <2>1. Newer(n, m) /\ Retires(state[n], c) /\ c.current_term = m.term
    BY ZenonT(30), <1>3, <1>4, <1>5 DEF Newer, Retires
  <2>2. c.current_term >= state[n].current_term /\ c.current_term >= m.term
    BY <1>1, <1>2, <1>5, <2>1
  <2>3. QED
    BY ZenonT(30), <1>1, <1>2, <1>3, <1>4, <2>1, <2>2 DEF c
<1>6. CASE m.term <= state[n].current_term
  <2>1. ~Newer(n, m) /\ c = state[n] /\ c.current_term >= state[n].current_term
    BY SMTT(30), <1>1, <1>2, <1>3, <1>6 DEF Newer
  <2>2. QED
    BY ZenonT(30), <1>1, <1>2, <1>3, <1>4, <1>6, <2>1 DEF c
<1>7. QED
  BY <1>1, <1>2, <1>5, <1>6

\* A heartbeat that is refused only sends the refusal.
LEMMA EffectRejectAppend ==
    ASSUME TypeOK, NEW m \in msgs, NEW n \in Node, RejectAppend(n, m)
    PROVE  TypeOK' /\ Alone(n) /\ Refuses(n, m)
<1>. DEFINE r == [rpc |-> "AEResponse", term |-> state[n].current_term, src |-> n,
                  dst |-> m.src, result |-> FALSE, req_time |-> m.time]
<1>1. /\ m.rpc = "AppendEntries" /\ m.term < state[n].current_term
      /\ msgs' = msgs \cup {r} /\ UNCHANGED <<state, meta>>
  BY ZenonT(30) DEF RejectAppend
<1>2. m \in RpcRequest /\ state[n] \in RaftState
  BY ZenonT(30), <1>1, Numbers, PacketFields DEF TypeOK
<1>3. r \in RpcResponse
  BY ZenonT(30), <1>2, StateFields DEF RpcRequest, RpcResponse
<1>4. TypeOK' /\ Alone(n)
  <2>. HIDE DEF r
  <2>1. QED  BY ZenonT(30), <1>1, <1>3 DEF TypeOK, Alone
<1>5. \A p \in msgs' \ msgs : p = r
  BY ZenonT(30), <1>1
<1>6. QED
  BY <1>1, <1>4, <1>5 DEF Refuses, AnswersAppend

\* rpcAppend refuses the heartbeat or makes the node a follower of its sender.
LEMMA EffectRpcAppend ==
    ASSUME TypeOK, NEW m \in msgs, NEW n \in Node, RpcAppend(n, m)
    PROVE  TypeOK' /\ Alone(n) /\ Follows(n, m)
\* A follower signs an agreement.
<1>FollowClock.
    ASSUME NEW s \in RaftState, NEW leader \in Node, NEW version \in 0..MaxVersion
    PROVE  LET t == Follow(s, leader, version)
           IN  /\ SameClock(s, t) /\ t.loyalty_agreement
               /\ t.quorum_loss_streak = s.quorum_loss_streak
  BY <1>FollowClock, ZenonT(30) DEF RaftState, Follow, SameClock
<1>. DEFINE s == CheckTerm(state[n], m.term)
            r == [rpc |-> "AEResponse", term |-> s.current_term, src |-> n,
                  dst |-> m.src, result |-> TRUE, req_time |-> m.time]
<1>1. PICK version \in IF n \in Elector
                        THEN {Larger(s.data_version, m.data_version)}
                        ELSE IF m.src # s.leader_id THEN NodeGetVersion(n)
                        ELSE {s.data_version} :
        /\ state' = [state EXCEPT ![n] = Follow(s, m.src, version)]
        /\ msgs' = msgs \cup {r}
  BY ZenonT(60) DEF RpcAppend
<1>2. /\ s \in RaftState /\ m.src \in Node
      /\ s.current_term >= state[n].current_term
      /\ SameClock(state[n], s)
      /\ \/ Newer(n, m) /\ Retires(state[n], s) /\ s.current_term = m.term
         \/ ~Newer(n, m) /\ s = state[n]
  BY ZenonT(30), TermChecked
<1>. HIDE DEF s
<1>3. m.rpc = "AppendEntries" /\ m \in RpcRequest /\ UNCHANGED meta
  BY ZenonT(30), PacketFields DEF TypeOK, RpcAppend
<1>4. version \in 0..MaxVersion
  <2>1. m.data_version \in 0..MaxVersion /\ s.data_version \in 0..MaxVersion
    BY ZenonT(30), <1>2, <1>3, StateFields DEF RpcRequest
  <2>2. \A w \in NodeGetVersion(n) : w \in 0..MaxVersion
    BY VersionType
  <2>3. QED
    BY <1>1, <2>1, <2>2 DEF Larger
<1>5. r \in RpcResponse
  BY ZenonT(30), <1>2, <1>3, StateFields DEF RpcRequest, RpcResponse
<1>. DEFINE t == Follow(s, m.src, version)
<1>6. /\ t \in RaftState /\ t.type = "follower" /\ t.president = s.president
      /\ t.current_term = s.current_term /\ t.vote_granted = s.vote_granted
  BY ZenonT(30), <1>2, <1>4, FollowFacts
<1>7. /\ SameClock(s, t) /\ t.loyalty_agreement
      /\ t.quorum_loss_streak = s.quorum_loss_streak
  BY ZenonT(30), <1>2, <1>4, <1>FollowClock
<1>8. state' = [state EXCEPT ![n] = t] /\ msgs' = msgs \cup {r}
  BY ZenonT(30), <1>1
<1>. HIDE DEF t
<1>9. /\ TypeOK' /\ Alone(n) /\ state'[n] = t /\ \A p \in msgs' \ msgs : p = r
  <2>. HIDE DEF r
  <2>1. {r} \subseteq RpcRequest \cup RpcResponse
    BY <1>5
  <2>2. TypeOK' /\ Alone(n) /\ state'[n] = t /\ msgs' \ msgs \subseteq {r}
    BY ZenonT(30), <1>3, <1>6, <1>8, <2>1, OneNode
  <2>3. QED  BY ZenonT(30), <2>2
<1>10. AnswersAppend(n, m, TRUE)
  BY SMTT(30), <1>3, <1>6, <1>9 DEF AnswersAppend
<1>11. /\ t.quorum_loss_streak \in {state[n].quorum_loss_streak, 0}
       /\ SameClock(state[n], t)
       /\ t.president => s = state[n]
  BY ZenonT(30), <1>2, <1>6, <1>7 DEF Retires, SameClock
<1>12. QED
  BY ZenonT(30), <1>2, <1>6, <1>7, <1>9, <1>10, <1>11 DEF Follows

\* rpcAppendResponse notes the time of the heartbeat that was answered.
LEMMA EffectRpcAppendResponse ==
    ASSUME TypeOK, NEW m \in msgs, NEW n \in Node, RpcAppendResponse(n, m)
    PROVE  TypeOK' /\ Alone(n) /\ CountsAnswer(n, m)
\* An answer moves the time of one node.
<1>AnsweredClock.
    ASSUME NEW s \in RaftState, NEW i \in Node, NEW time \in 0..MaxTime
    PROVE  LET t == Answered(s, i, time)
           IN  /\ t.local_time = s.local_time
               /\ t.heartbeat = [s.heartbeat EXCEPT ![i] = Larger(s.heartbeat[i], time)]
               /\ t.loyalty_agreement = s.loyalty_agreement
               /\ t.quorum_loss_streak = s.quorum_loss_streak
  BY <1>AnsweredClock, ZenonT(30) DEF RaftState, Answered
<1>. DEFINE c == CheckTerm(state[n], m.term)
            counted == m.term >= c.current_term /\ c.type = "leader"
            t == IF counted THEN Answered(c, m.src, m.req_time) ELSE c
<1>1. /\ m.rpc = "AEResponse" /\ UNCHANGED <<msgs, meta>>
      /\ state' = [state EXCEPT ![n] = t]
  BY ZenonT(30) DEF RpcAppendResponse
<1>2. m \in RpcResponse
  BY ZenonT(30), <1>1, PacketFields DEF TypeOK
<1>3. m.req_time \in 0..MaxTime
  BY ZenonT(30), <1>2 DEF RpcResponse
<1>4. /\ c \in RaftState /\ m.src \in Node /\ m.term \in Nat
      /\ c.current_term >= m.term
      /\ SameClock(state[n], c)
      /\ c.loyalty_agreement = state[n].loyalty_agreement
      /\ \/ Newer(n, m) /\ Retires(state[n], c)
         \/ ~Newer(n, m) /\ c = state[n]
  BY ZenonT(30), TermChecked
<1>5. state[n] \in RaftState /\ c.current_term \in Nat
  BY SMTT(30), <1>4, Numbers, StateFields, BoundAssumption
<1>. HIDE DEF c
<1>6. CASE counted
  <2>1. /\ t \in RaftState /\ t.type = c.type /\ t.president = c.president
        /\ t.leader_id = c.leader_id
        /\ t.current_term = c.current_term /\ t.vote_granted = c.vote_granted
    BY ZenonT(30), <1>3, <1>4, <1>6, AnsweredFacts
  <2>2. /\ t.local_time = c.local_time
        /\ t.heartbeat = [c.heartbeat EXCEPT
                            ![m.src] = Larger(c.heartbeat[m.src], m.req_time)]
        /\ t.loyalty_agreement = c.loyalty_agreement
        /\ t.quorum_loss_streak = c.quorum_loss_streak
    <3>. DEFINE u == Answered(c, m.src, m.req_time)
    <3>1. /\ u.local_time = c.local_time
          /\ u.heartbeat = [c.heartbeat EXCEPT
                              ![m.src] = Larger(c.heartbeat[m.src], m.req_time)]
          /\ u.loyalty_agreement = c.loyalty_agreement
          /\ u.quorum_loss_streak = c.quorum_loss_streak
      BY ZenonT(30), <1>3, <1>4, <1>AnsweredClock
    <3>2. t = u
      BY ZenonT(30), <1>6
    <3>. HIDE DEF u, t
    <3>3. QED
      BY ZenonT(30), <3>1, <3>2
  <2>3. ~Newer(n, m) /\ c = state[n] /\ m.term = state[n].current_term
    <3>1. m.term = c.current_term
      BY SMTT(30), <1>4, <1>5, <1>6
    <3>2. QED
      BY SMTT(30), <1>4, <1>6, <3>1 DEF Retires
  <2>. HIDE DEF t
  <2>4. TypeOK' /\ Alone(n) /\ state'[n] = t
    BY ZenonT(30), <1>1, <2>1, Silent
  <2>5. SameOffice(state[n], t)
    BY ZenonT(30), <2>1, <2>2, <2>3 DEF SameOffice
  <2>6. QED
    BY ZenonT(30), <1>1, <1>6, <2>2, <2>3, <2>4, <2>5 DEF CountsAnswer
<1>7. CASE ~counted
  <2>1. t = c
    BY ZenonT(30), <1>7
  <2>. HIDE DEF t
  <2>2. TypeOK' /\ Alone(n) /\ state'[n] = c
    BY ZenonT(30), <1>1, <1>4, <2>1, Silent
  <2>3. QED
    BY ZenonT(30), <1>1, <1>4, <2>2 DEF CountsAnswer, SameClock, SameOffice
<1>8. QED
  BY ZenonT(30), <1>6, <1>7

\* rpcReqVote grants a vote only to whom the agreement allows.
LEMMA EffectRpcReqVote ==
    ASSUME TypeOK, NEW m \in msgs, NEW n \in Node, RpcReqVote(n, m)
    PROVE  TypeOK' /\ Alone(n) /\ AnswersVote(n, m)
<1>. DEFINE c == CheckTerm(state[n], m.term)
            S(version) == [c EXCEPT !.data_version = version]
            R(version) == [rpc |-> "RVResponse", term |-> S(version).current_term,
                           src |-> n, dst |-> m.src,
                           result |-> GrantsVote(S(version), m), req_time |-> m.time]
<1>1. PICK version \in IF c.voted_for = None /\ n \notin Elector
                        THEN NodeGetVersion(n) ELSE {c.data_version} :
        /\ state' = [state EXCEPT
             ![n] = IF GrantsVote(S(version), m)
                    THEN [S(version) EXCEPT !.voted_for = m.src] ELSE S(version)]
        /\ msgs' = msgs \cup {R(version)}
  BY ZenonT(60) DEF RpcReqVote
<1>2. m.rpc = "RequestVote" /\ m \in RpcRequest /\ UNCHANGED meta
  BY ZenonT(30), PacketFields DEF TypeOK, RpcReqVote
<1>3. /\ c \in RaftState /\ m.src \in Node
      /\ SameClock(state[n], c)
      /\ c.loyalty_agreement = state[n].loyalty_agreement
      /\ \/ Newer(n, m) /\ Retires(state[n], c)
         \/ ~Newer(n, m) /\ c = state[n]
  BY ZenonT(30), TermChecked
<1>. HIDE DEF c
<1>4. version \in 0..MaxVersion
  BY <1>1, <1>3, VersionType, StateFields
<1>. DEFINE s == S(version)
            r == R(version)
            t == IF GrantsVote(s, m) THEN [s EXCEPT !.voted_for = m.src] ELSE s
<1>5. /\ s \in RaftState /\ SameClock(c, s) /\ SameOffice(c, s)
      /\ s.loyalty_agreement = c.loyalty_agreement
  BY ZenonT(30), <1>3, <1>4 DEF RaftState, SameClock, SameOffice
<1>6. state' = [state EXCEPT ![n] = t] /\ msgs' = msgs \cup {r}
  BY ZenonT(30), <1>1
<1>7. r.term = s.current_term /\ r.src = n /\ r.dst = m.src
      /\ r.rpc = "RVResponse" /\ (r.result <=> GrantsVote(s, m))
  BY ZenonT(30)
<1>8. r \in RpcResponse
  <2>1. GrantsVote(s, m) \in BOOLEAN
    BY ZenonT(30) DEF GrantsVote
  <2>2. m.time \in 0..MaxTime /\ s.current_term \in 0..MaxTerm
    BY ZenonT(30), <1>2, <1>5, StateFields DEF RpcRequest
  <2>. HIDE DEF s
  <2>3. [rpc |-> "RVResponse", term |-> s.current_term, src |-> n, dst |-> m.src,
         result |-> GrantsVote(s, m), req_time |-> m.time] \in RpcResponse
    BY ZenonT(30), <1>3, <2>1, <2>2 DEF RpcResponse
  <2>4. QED  BY ZenonT(30), <2>3 DEF s
<1>. HIDE DEF s, r
<1>9. /\ t \in RaftState /\ SameClock(s, t) /\ SameOffice(s, t)
      /\ t.loyalty_agreement = s.loyalty_agreement
  <2>1. CASE GrantsVote(s, m)
    <3>1. t = [s EXCEPT !.voted_for = m.src]
      BY ZenonT(30), <2>1
    <3>. HIDE DEF t
    <3>2. QED
      BY ZenonT(30), <1>3, <1>5, <3>1 DEF RaftState, SameClock, SameOffice
  <2>2. CASE ~GrantsVote(s, m)
    BY ZenonT(30), <1>5, <2>2 DEF SameClock, SameOffice
  <2>3. QED  BY ZenonT(30), <2>1, <2>2
<1>. HIDE DEF t
<1>10. /\ TypeOK' /\ Alone(n) /\ state'[n] = t /\ \A p \in msgs' \ msgs : p = r
  <2>1. {r} \subseteq RpcRequest \cup RpcResponse
    BY <1>8
  <2>2. TypeOK' /\ Alone(n) /\ state'[n] = t /\ msgs' \ msgs \subseteq {r}
    BY ZenonT(30), <1>2, <1>6, <1>9, <2>1, OneNode
  <2>3. QED  BY ZenonT(30), <2>2
<1>11. SameClock(state[n], t) /\ t.loyalty_agreement = state[n].loyalty_agreement
  BY ZenonT(30), <1>3, <1>5, <1>9 DEF SameClock
<1>12. \/ Newer(n, m) /\ Retires(state[n], t)
       \/ ~Newer(n, m) /\ SameOffice(state[n], t)
  BY ZenonT(30), <1>3, <1>5, <1>9 DEF Retires, SameOffice
<1>13. GrantsVote(s, m) =>
         \/ ~state[n].loyalty_agreement
         \/ /\ state[n].type = "follower" /\ state[n].leader_id = m.src
            /\ state[n].current_term = t.current_term
  <2>1. GrantsVote(s, m) =>
          s.type = "follower" /\ (~s.loyalty_agreement \/ s.leader_id = m.src)
    BY ZenonT(30) DEF GrantsVote
  <2>2. m.src # None
    BY ZenonT(30), <1>3, NodeAssumption
  <2>3. QED
    BY ZenonT(30), <1>3, <1>5, <1>9, <2>1, <2>2 DEF Retires, SameOffice
<1>14. QED
  BY ZenonT(30), <1>7, <1>9, <1>10, <1>11, <1>12, <1>13 DEF AnswersVote, SameOffice

\* rpcReqVoteResponse counts a vote, which may make the node Leader.
LEMMA EffectRpcReqVoteResponse ==
    ASSUME TypeOK, NEW m \in msgs, NEW n \in Node, RpcReqVoteResponse(n, m)
    PROVE  TypeOK' /\ Alone(n) /\ CountsVote(n, m)
<1>. DEFINE c == CheckTerm(state[n], m.term)
            counted == m.term >= c.current_term /\ c.type = "candidate"
            s == CountVote(c, m)
            t == [s EXCEPT !.type = "leader", !.leader_id = n]
<1>1. /\ m.rpc = "RVResponse" /\ UNCHANGED meta
      /\ \/ /\ ~counted
            /\ state' = [state EXCEPT ![n] = c]
            /\ msgs' = msgs
         \/ /\ counted
            /\ state' = [state EXCEPT ![n] = s]
            /\ msgs' = msgs
         \/ /\ counted
            /\ state' = [state EXCEPT ![n] = t]
            /\ msgs' = msgs \cup SendHeartbeat(n, s)
  BY ZenonT(30) DEF RpcReqVoteResponse
<1>2. /\ c \in RaftState /\ m.src \in Node /\ m.term \in Nat
      /\ c.current_term >= m.term
      /\ SameClock(state[n], c)
      /\ c.loyalty_agreement = state[n].loyalty_agreement
      /\ \/ Newer(n, m) /\ Retires(state[n], c)
         \/ ~Newer(n, m) /\ c = state[n]
  BY ZenonT(30), TermChecked
<1>3. c.current_term \in Nat
  BY SMTT(30), <1>2, StateFields, BoundAssumption
<1>4. /\ s \in RaftState /\ s.type = c.type /\ s.president = c.president
      /\ s.current_term = c.current_term
      /\ s.vote_granted = IF m.result THEN c.vote_granted \cup {m.src}
                                      ELSE c.vote_granted \ {m.src}
  BY ZenonT(30), <1>2, CountVoteFacts
<1>5. /\ SameClock(c, s) /\ s.loyalty_agreement = c.loyalty_agreement
      /\ s.quorum_loss_streak = c.quorum_loss_streak
  BY ZenonT(30), <1>2, CountVoteClock
<1>6. counted => /\ ~Newer(n, m) /\ c = state[n] /\ m.term = state[n].current_term
                 /\ state[n].type = "candidate"
  <2>1. counted => m.term = c.current_term
    BY <1>2, <1>3
  <2>2. QED
    BY <1>2, <2>1 DEF Retires
<1>. HIDE DEF c, s, counted
<1>7. \A i \in s.vote_granted : i \in c.vote_granted \/ (m.result /\ i = m.src)
  BY <1>4
<1>8. CASE /\ ~counted /\ state' = [state EXCEPT ![n] = c] /\ msgs' = msgs
  <2>1. TypeOK' /\ Alone(n) /\ state'[n] = c
    BY ZenonT(30), <1>1, <1>2, <1>8, Silent
  <2>2. QED
    BY ZenonT(30), <1>2, <1>8, <2>1 DEF CountsVote, SameOffice
<1>9. CASE /\ counted /\ state' = [state EXCEPT ![n] = s] /\ msgs' = msgs
  <2>1. TypeOK' /\ Alone(n) /\ state'[n] = s
    BY ZenonT(30), <1>1, <1>4, <1>9, Silent
  <2>2. SameClock(state[n], s) /\ s.type \in {"candidate", "leader"}
    BY ZenonT(30), <1>4, <1>5, <1>6, <1>9
  <2>3. QED
    BY ZenonT(30), <1>1, <1>4, <1>5, <1>6, <1>7, <1>9, <2>1, <2>2 DEF CountsVote
<1>10. CASE /\ counted /\ state' = [state EXCEPT ![n] = t]
            /\ msgs' = msgs \cup SendHeartbeat(n, s)
  <2>1. /\ t \in RaftState /\ t.type = "leader" /\ t.president = s.president
        /\ t.current_term = s.current_term /\ t.vote_granted = s.vote_granted
        /\ t.quorum_loss_streak = s.quorum_loss_streak /\ SameClock(s, t)
        /\ t.loyalty_agreement = s.loyalty_agreement
    BY ZenonT(30), <1>4 DEF RaftState, SameClock
  <2>2. /\ SendHeartbeat(n, s) \subseteq RpcRequest \cup RpcResponse
        /\ \A p \in SendHeartbeat(n, s) :
             /\ p.rpc = "AppendEntries" /\ p.src = n
             /\ p.term = s.current_term /\ p.time = s.local_time
    BY <1>4, SentRequests, SentTimes
  <2>. HIDE DEF t
  <2>3. TypeOK' /\ Alone(n) /\ state'[n] = t /\ msgs' \ msgs \subseteq SendHeartbeat(n, s)
    BY ZenonT(30), <1>1, <1>10, <2>1, <2>2, OneNode
  <2>4. /\ SameClock(state[n], t) /\ t.type \in {"candidate", "leader"}
        /\ t.local_time = s.local_time
    BY ZenonT(30), <1>5, <1>6, <1>10, <2>1 DEF SameClock
  <2>5. \A p \in msgs' \ msgs :
          /\ p.rpc = "AppendEntries" /\ p.src = n
          /\ p.term = t.current_term /\ p.time = t.local_time
    BY ZenonT(30), <2>1, <2>2, <2>3, <2>4
  <2>6. /\ t.president = state[n].president /\ t.current_term = state[n].current_term
        /\ t.quorum_loss_streak = state[n].quorum_loss_streak
        /\ t.loyalty_agreement = state[n].loyalty_agreement
        /\ \A i \in t.vote_granted :
             i \in state[n].vote_granted \/ (m.result /\ i = m.src)
    BY ZenonT(30), <1>4, <1>5, <1>6, <1>7, <1>10, <2>1
  <2>7. QED
    BY ZenonT(90), <1>1, <1>6, <1>10, <2>3, <2>4, <2>5, <2>6 DEF CountsVote
<1>11. QED
  BY ZenonT(30), <1>1, <1>8, <1>9, <1>10

\* loyaltyTimeout ends the agreement.
LEMMA EffectLoyaltyExpires ==
    ASSUME TypeOK, NEW n \in Node, LoyaltyExpires(n)
    PROVE  TypeOK' /\ Alone(n) /\ Expires(n)
<1>. DEFINE t == [state[n] EXCEPT !.loyalty_agreement = FALSE]
<1>1. state' = [state EXCEPT ![n] = t] /\ UNCHANGED <<msgs, meta>>
  BY ZenonT(30) DEF LoyaltyExpires
<1>2. /\ t \in RaftState /\ SameOffice(state[n], t) /\ SameClock(state[n], t)
      /\ ~t.loyalty_agreement
  <2>1. state[n] \in RaftState
    BY Numbers
  <2>2. QED
    BY ZenonT(30), <2>1 DEF RaftState, SameOffice, SameClock
<1>. HIDE DEF t
<1>3. TypeOK' /\ Alone(n) /\ state'[n] = t
  BY ZenonT(30), <1>1, <1>2, Silent
<1>4. QED
  BY ZenonT(30), <1>1, <1>2, <1>3 DEF Expires

\* What a restart of the daemon does.
LEMMA EffectRestart ==
    ASSUME TypeOK, NEW n \in Node, Restart(n)
    PROVE  /\ TypeOK' /\ Alone(n) /\ msgs' = msgs
           /\ state'[n].type = "follower" /\ ~state'[n].president
           /\ state'[n].quorum_loss_streak = 0
<1>1. state' = [state EXCEPT ![n] = InitNode] /\ UNCHANGED <<msgs, meta>>
  BY ZenonT(30) DEF Restart
<1>2. /\ 0 \in 0..MaxTerm /\ LoyalTicks + 1 \in 0..MaxTime /\ 0 \in 0..MaxVersion
      /\ 0 \in Nat /\ 0 \in 0..MaxTime
  BY BoundAssumption
<1>3. InitNode \in RaftState
  BY ZenonT(30), <1>2 DEF InitNode, RaftState
<1>4. TypeOK' /\ Alone(n) /\ state'[n] = InitNode
  BY ZenonT(30), <1>1, <1>3, Silent
<1>5. QED
  BY <1>1, <1>4 DEF InitNode

-----------------------------------------------------------------------------
(* Presidents are deposed before their election timer fires.               *)

\* A handler that starts a timer starts it with ELECTION_TIMEOUT_MIN.
LEMMA TimingOf ==
    ASSUME Clocks, NEW n \in Node, Alone(n), slot' = slot, due' \in BOOLEAN,
           UNCHANGED loyal_left \/ SignLoyaltyAgreement(n),
           UNCHANGED wait_left \/ StartElectionTimer(n),
           NEW received, UNCHANGED transit \/ Network(received)
    PROVE  /\ Timing(n)
           /\ SignLoyaltyAgreement(n) => loyal_left'[n] = ElectionTimeoutMin
           /\ StartElectionTimer(n) => wait_left'[n] = ElectionTimeoutMin
<1>1. /\ loyal_left \in [Node -> Nat] /\ wait_left \in [Node -> Nat]
      /\ ElectionTimeoutMin \in Nat /\ slot \in Slots
      /\ DOMAIN transit \subseteq msgs /\ msgs \subseteq msgs'
  BY ZenonT(30), Times DEF Clocks, Alone
<1>2. DOMAIN transit' \subseteq msgs'
  BY <1>1 DEF Network
<1>3. /\ loyal_left' \in [Node -> Nat]
      /\ \A i \in Node \ {n} : loyal_left'[i] = loyal_left[i]
      /\ loyal_left'[n] \in {loyal_left[n], ElectionTimeoutMin}
      /\ SignLoyaltyAgreement(n) => loyal_left'[n] = ElectionTimeoutMin
  BY ZenonT(30), <1>1 DEF SignLoyaltyAgreement
<1>4. /\ wait_left' \in [Node -> Nat]
      /\ \A i \in Node \ {n} : wait_left'[i] = wait_left[i]
      /\ wait_left'[n] \in {wait_left[n], ElectionTimeoutMin}
      /\ StartElectionTimer(n) => wait_left'[n] = ElectionTimeoutMin
  BY ZenonT(30), <1>1 DEF StartElectionTimer
<1>5. QED
  BY ZenonT(30), <1>1, <1>2, <1>3, <1>4 DEF Timing, Clocks

\* The conjuncts of DInv speak of one node each.
LEMMA DInvOf ==
    ASSUME DInv, NEW n \in Node, TypeOK', Alone(n), Timing(n),
           \A a \in Server : a # n => Lapse(a)' = Lapse(a),
           n \in Elector => state'[n].type = "follower" /\ ~state'[n].president,
           n \in Server => state'[n].quorum_loss_streak < Larger(Grace, 1),
           n \in Server /\ state'[n].president /\ state'[n].type # "leader" =>
             wait_left'[n] + Lapse(n)' + Moment(state'[n].quorum_loss_streak)
               >= ElectionTimeoutMin
    PROVE  DInv'
<1>1. Elector \subseteq Node /\ Server \subseteq Node
  BY NodeAssumption DEF Server
<1>2. ElectorFollows'
  BY ZenonT(30), <1>1 DEF DInv, ElectorFollows, Alone
<1>3. ASSUME NEW a \in Server
      PROVE  /\ state'[a].quorum_loss_streak < Larger(Grace, 1)
             /\ state'[a].president /\ state'[a].type # "leader" =>
                  wait_left'[a] + Lapse(a)' + Moment(state'[a].quorum_loss_streak)
                    >= ElectionTimeoutMin
  <2>1. CASE a = n
    BY ZenonT(30), <2>1
  <2>2. CASE a # n
    <3>1. /\ state'[a] = state[a] /\ wait_left'[a] = wait_left[a]
          /\ Lapse(a)' = Lapse(a)
      BY ZenonT(30), <1>1, <2>2 DEF Alone, Timing
    <3>2. QED
      BY ZenonT(30), <3>1 DEF DInv, FollowerIsNew
  <2>3. QED  BY <2>1, <2>2
<1>4. FollowerIsNew'
  BY ZenonT(30), <1>3 DEF FollowerIsNew
<1>5. QED
  BY ZenonT(30), <1>2, <1>4 DEF DInv, Timing

\* A step other than a heartbeat keeps a President's role or restarts its
\* election timer.
LEMMA DInvQuiet ==
    ASSUME DInv, NEW n \in Node, TypeOK', Alone(n), Timing(n),
           UNCHANGED <<slot, due>>,
           state'[n].quorum_loss_streak \in {state[n].quorum_loss_streak, 0},
           n \in Elector => state'[n].type = "follower",
           state'[n].president =>
             /\ state[n].president
             /\ \/ wait_left'[n] = ElectionTimeoutMin
                \/ /\ state'[n].quorum_loss_streak = state[n].quorum_loss_streak
                   /\ state'[n].type \in {state[n].type, "leader"}
    PROVE  DInv'
<1>1. \A a \in Server : Lapse(a)' = Lapse(a)
  BY ZenonT(30) DEF Lapse
<1>2. n \in Elector => state'[n].type = "follower" /\ ~state'[n].president
  BY ZenonT(30) DEF DInv, ElectorFollows
<1>3. ASSUME n \in Server
      PROVE  /\ state'[n].quorum_loss_streak < Larger(Grace, 1)
             /\ state'[n].president /\ state'[n].type # "leader" =>
                  wait_left'[n] + Lapse(n)' + Moment(state'[n].quorum_loss_streak)
                    >= ElectionTimeoutMin
  <2>1. /\ state[n].quorum_loss_streak < Larger(Grace, 1)
        /\ state[n].president /\ state[n].type # "leader" =>
             wait_left[n] + Lapse(n) + Moment(state[n].quorum_loss_streak)
               >= ElectionTimeoutMin
    BY ZenonT(30), <1>3 DEF DInv, FollowerIsNew
  <2>2. Larger(Grace, 1) \in Nat \ {0}
    BY BoundAssumption DEF Larger
  <2>3. /\ Moment(state'[n].quorum_loss_streak) \in Nat /\ Lapse(n)' = Lapse(n)
        /\ Moment(state[n].quorum_loss_streak) \in Nat /\ ElectionTimeoutMin \in Nat
    <3>1. state[n].quorum_loss_streak \in Nat /\ 0 \in Nat
      BY Numbers DEF DInv
    <3>2. QED
      BY ZenonT(30), <1>1, <1>3, <3>1, Times
  <2>4. Lapse(n) \in 0..Len(Phase) /\ Len(Phase) \in Nat
    BY ZenonT(30), <1>3, Lapses, Times DEF DInv
  <2>5. wait_left[n] \in Nat /\ wait_left'[n] \in {wait_left[n], ElectionTimeoutMin}
    BY ZenonT(30) DEF DInv, Clocks, Timing
  <2>6. state'[n].quorum_loss_streak < Larger(Grace, 1)
    BY SMTT(30), <2>1, <2>2
  <2>7. state'[n].president /\ state'[n].type # "leader" =>
          wait_left'[n] + Lapse(n) + Moment(state'[n].quorum_loss_streak)
            >= ElectionTimeoutMin
    <3>1. CASE wait_left'[n] = ElectionTimeoutMin
      BY SMTT(30), <2>3, <2>4, <3>1
    <3>2. CASE wait_left'[n] = wait_left[n] /\ wait_left'[n] # ElectionTimeoutMin
      BY ZenonT(30), <2>1, <3>2
    <3>3. QED  BY SMTT(30), <2>5, <3>1, <3>2
  <2>8. QED  BY ZenonT(30), <2>3, <2>6, <2>7
<1>4. QED
  BY ZenonT(30), <1>1, <1>2, <1>3, DInvOf

\* The steps of TNext: what they do, and that they keep DInv.
LEMMA StepTime ==
    ASSUME DInv, TimeStep
    PROVE  /\ DInv' /\ UNCHANGED state /\ msgs' \subseteq msgs
           /\ TimersRun
<1>1. /\ TypeOK /\ Clocks /\ ElectorFollows /\ FollowerIsNew
      /\ UNCHANGED <<state, meta>> /\ due' = TRUE
      /\ loyal_left \in [Node -> Nat] /\ wait_left \in [Node -> Nat]
      /\ slot \in 1..Len(Phase) /\ DOMAIN transit \subseteq msgs
      /\ slot' = IF slot = Len(Phase) THEN 1 ELSE slot + 1
  BY ZenonT(30) DEF DInv, Clocks, Slots, TimeStep
<1>2. \A n \in Node : /\ loyal_left'[n] \in Nat /\ wait_left'[n] \in Nat
                      /\ loyal_left'[n] >= loyal_left[n] - 1
                      /\ wait_left'[n] >= wait_left[n] - 1
                      /\ loyal_left[n] = 0 => loyal_left'[n] = 0
  BY <1>1 DEF TimeStep, Larger
<1>3. DOMAIN transit' \subseteq msgs' /\ msgs' \subseteq msgs
  <2>1. transit' = [m \in {p \in DOMAIN transit : transit[p] < MaxDelay} |->
                     transit[m] + 1]
        /\ msgs' = IF "restart" \in Faults THEN DOMAIN transit' ELSE msgs
    BY ZenonT(30) DEF TimeStep
  <2>2. DOMAIN transit' \subseteq DOMAIN transit
    BY ZenonT(30), <2>1
  <2>3. QED
    BY ZenonT(30), <1>1, <2>1, <2>2
<1>4. TypeOK'
  BY ZenonT(30), <1>1, <1>3 DEF TypeOK
<1>5. Clocks'
  <2>1. slot' \in Slots
    <3>1. Len(Phase) \in Nat \ {0}
      BY ZenonT(30), Times
    <3>2. slot \in 1..Len(Phase) /\ slot' = IF slot = Len(Phase) THEN 1 ELSE slot + 1
      BY ZenonT(30), <1>1
    <3>3. QED
      BY <3>1, <3>2 DEF Slots
  <2>2. loyal_left' \in [Node -> Nat] /\ wait_left' \in [Node -> Nat]
    <3>1. /\ loyal_left' = [n \in Node |-> Larger(loyal_left[n] - 1, 0)]
          /\ wait_left' = [n \in Node |-> Larger(wait_left[n] - 1, 0)]
      BY ZenonT(30) DEF TimeStep
    <3>2. DOMAIN loyal_left' = Node /\ DOMAIN wait_left' = Node
      BY ZenonT(30), <3>1
    <3>3. /\ loyal_left' = [n \in Node |-> loyal_left'[n]]
          /\ wait_left' = [n \in Node |-> wait_left'[n]]
      BY ZenonT(30), <3>1
    <3>4. QED
      BY ZenonT(30), <1>2, <3>2, <3>3
  <2>3. QED
    BY ZenonT(30), <1>1, <1>3, <2>1, <2>2 DEF Clocks
<1>6. ElectorFollows'
  BY ZenonT(30), <1>1 DEF ElectorFollows
<1>7. FollowerIsNew'
  <2>1. ASSUME NEW a \in Server, state[a].president, state[a].type # "leader"
        PROVE  wait_left'[a] + Lapse(a)' + Moment(state[a].quorum_loss_streak)
                 >= ElectionTimeoutMin
    <3>1. wait_left[a] + Lapse(a) + Moment(state[a].quorum_loss_streak)
            >= ElectionTimeoutMin
      BY ZenonT(30), <1>1, <2>1 DEF FollowerIsNew
    <3>2. Lapse(a)' = Lapse(a) + 1
      BY ZenonT(30), <1>1, TimePasses
    <3>3. /\ Lapse(a) \in 0..Len(Phase) /\ Len(Phase) \in Nat
          /\ ElectionTimeoutMin \in Nat
      BY ZenonT(30), <1>1, Lapses, Times
    <3>4. Moment(state[a].quorum_loss_streak) \in Nat /\ a \in Node
      BY ZenonT(30), <1>1, Numbers, Times DEF Server
    <3>5. wait_left'[a] >= wait_left[a] - 1 /\ wait_left'[a] \in Nat /\ wait_left[a] \in Nat
      BY ZenonT(30), <1>1, <1>2, <3>4
    <3>6. QED
      BY SMTT(30), <3>1, <3>2, <3>3, <3>4, <3>5
  <2>2. QED
    BY ZenonT(30), <1>1, <2>1 DEF FollowerIsNew
<1>8. QED
  BY ZenonT(30), <1>1, <1>2, <1>3, <1>4, <1>5, <1>6, <1>7 DEF DInv, TimersRun

\* The election timer fires: DInv is kept, and the node stands.
LEMMA StepElectionTimeout ==
    ASSUME DInv, NEW n \in Node, TElectionTimeout(n)
    PROVE  /\ DInv' /\ Alone(n) /\ Timing(n) /\ StandsUp(n) /\ UNCHANGED <<slot, due>>
           /\ wait_left[n] = 0 /\ loyal_left' = loyal_left
<1>1. TypeOK' /\ Alone(n) /\ StandsUp(n)
  BY ZenonT(30), EffectElectionTimeout DEF DInv, TElectionTimeout
<1>2. UNCHANGED <<slot, due, loyal_left>> /\ wait_left[n] = 0
  BY ZenonT(30) DEF TElectionTimeout
<1>3. Timing(n) /\ wait_left'[n] = ElectionTimeoutMin
  BY ZenonT(30), <1>1, <1>2, TimingOf DEF DInv, Clocks, TElectionTimeout
<1>4. DInv'
  BY ZenonT(30), <1>1, <1>2, <1>3, DInvQuiet DEF StandsUp
<1>5. QED
  BY ZenonT(30), <1>1, <1>2, <1>3, <1>4

\* The loyalty timer fires: DInv is kept, and the agreement ends.
LEMMA StepLoyaltyExpires ==
    ASSUME DInv, NEW n \in Node, TLoyaltyExpires(n)
    PROVE  /\ DInv' /\ Alone(n) /\ Timing(n) /\ Expires(n) /\ UNCHANGED <<slot, due>>
           /\ loyal_left[n] = 0 /\ UNCHANGED timers
<1>1. TypeOK' /\ Alone(n) /\ Expires(n)
  BY ZenonT(30), EffectLoyaltyExpires DEF DInv, TLoyaltyExpires
<1>2. UNCHANGED <<slot, due, timers, loyal_left, wait_left, transit>> /\ loyal_left[n] = 0
  BY ZenonT(30) DEF TLoyaltyExpires, timers
<1>3. Timing(n)
  BY ZenonT(30), <1>1, <1>2, TimingOf DEF DInv, Clocks
<1>4. n \in Elector => state'[n].type = "follower"
  BY ZenonT(30), <1>1 DEF Expires, SameOffice, DInv, ElectorFollows
<1>5. DInv'
  BY ZenonT(30), <1>1, <1>2, <1>3, <1>4, DInvQuiet DEF Expires, SameOffice
<1>6. QED
  BY ZenonT(30), <1>1, <1>2, <1>3, <1>5

\* The controller demotes a node: DInv is kept.
LEMMA StepDown ==
    ASSUME DInv, NEW n \in Node, TDemoteLeader(n) \/ TMetadataDead(n)
    PROVE  /\ DInv' /\ Alone(n) /\ Timing(n) /\ StepsDown(n) /\ UNCHANGED <<slot, due>>
           /\ wait_left'[n] = ElectionTimeoutMin /\ loyal_left' = loyal_left
<1>1. TypeOK' /\ Alone(n) /\ StepsDown(n)
  BY ZenonT(30), EffectStepDown DEF DInv, TDemoteLeader, TMetadataDead
<1>2. UNCHANGED <<slot, due, loyal_left, transit>> /\ StartElectionTimer(n)
  BY ZenonT(30) DEF TDemoteLeader, TMetadataDead
<1>3. Timing(n) /\ wait_left'[n] = ElectionTimeoutMin
  BY ZenonT(30), <1>1, <1>2, TimingOf DEF DInv, Clocks
<1>4. DInv'
  BY ZenonT(30), <1>1, <1>2, <1>3, DInvQuiet DEF StepsDown
<1>5. QED
  BY ZenonT(30), <1>1, <1>2, <1>3, <1>4

\* A daemon restarts: DInv is kept.
LEMMA StepRestart ==
    ASSUME DInv, NEW n \in Node, TRestart(n)
    PROVE  DInv'
<1>1. /\ TypeOK' /\ Alone(n) /\ state'[n].type = "follower"
      /\ ~state'[n].president /\ state'[n].quorum_loss_streak = 0
  BY ZenonT(30), EffectRestart DEF DInv, TRestart
<1>2. UNCHANGED <<slot, due>>
  BY ZenonT(30) DEF TRestart
<1>3. Timing(n)
  BY ZenonT(30), <1>1, <1>2, TimingOf DEF DInv, Clocks, TRestart
<1>4. QED
  BY ZenonT(30), <1>1, <1>2, <1>3, DInvQuiet

\* The heartbeat timer fires: DInv is kept, and the clock of the node moves.
LEMMA StepHeartbeat ==
    ASSUME DInv, NEW n \in Node, THeartbeat(n)
    PROVE  /\ DInv' /\ Alone(n) /\ Timing(n) /\ Beats(n) /\ HeartbeatTiming(n)
<1>1. TypeOK' /\ Alone(n) /\ Beats(n)
  BY ZenonT(30), EffectHeartbeat DEF DInv, THeartbeat
<1>2. UNCHANGED <<slot, loyal_left>> /\ ~due' /\ due /\ Phase[slot] = n
  BY ZenonT(30) DEF THeartbeat
<1>3. /\ Timing(n)
      /\ state[n].president /\ ~state'[n].president
           => wait_left'[n] = ElectionTimeoutMin
  <2>1. /\ UNCHANGED wait_left \/ StartElectionTimer(n)
        /\ state[n].president /\ ~state'[n].president => StartElectionTimer(n)
        /\ due' \in BOOLEAN /\ Network({})
    BY ZenonT(30) DEF THeartbeat, StartElectionTimerIf
  <2>2. QED
    BY ZenonT(30), <1>1, <1>2, <2>1, TimingOf DEF DInv
<1>4. /\ \A a \in Server : Now(a)' = Now(a)
      /\ \A a \in Server : a = n => slot = Turn(a) /\ Lapse(a) = Len(Phase) /\ Lapse(a)' = 0
      /\ \A a \in Server : a # n => Lapse(a)' = Lapse(a)
  <2>1. state'[n].local_time = state[n].local_time + 1
    BY ZenonT(30), <1>1 DEF Beats
  <2>2. QED
    BY ZenonT(30), <1>1, <1>2, <2>1, ClockTicks DEF DInv, Alone
<1>5. n \in Elector => state'[n].type = "follower" /\ ~state'[n].president
  BY <1>1 DEF DInv, ElectorFollows, Beats
<1>6. ASSUME n \in Server
      PROVE  /\ state'[n].quorum_loss_streak < Larger(Grace, 1)
             /\ state'[n].president /\ state'[n].type # "leader" =>
                  wait_left'[n] + Lapse(n)' + Moment(state'[n].quorum_loss_streak)
                    >= ElectionTimeoutMin
  <2>1. /\ state[n].quorum_loss_streak < Larger(Grace, 1)
        /\ state[n].president /\ state[n].type # "leader" =>
             wait_left[n] + Lapse(n) + Moment(state[n].quorum_loss_streak)
               >= ElectionTimeoutMin
    BY ZenonT(30), <1>6 DEF DInv, FollowerIsNew
  <2>2. Larger(Grace, 1) \in Nat \ {0} /\ Larger(Grace, 1) >= Grace /\ Grace \in Nat
    BY BoundAssumption DEF Larger
  <2>3. /\ state[n].quorum_loss_streak \in Nat
        /\ state'[n].quorum_loss_streak \in Nat
    <3>1. TypeOK' => state'[n].quorum_loss_streak \in Nat
      BY ZenonT(30) DEF TypeOK, RaftState
    <3>2. QED
      BY ZenonT(30), <1>1, <3>1, Numbers DEF DInv
  <2>4. /\ Moment(state[n].quorum_loss_streak + 1)
             = Moment(state[n].quorum_loss_streak) + Len(Phase)
        /\ Moment(state[n].quorum_loss_streak) \in Nat
        /\ Len(Phase) \in Nat /\ ElectionTimeoutMin \in Nat
    BY ZenonT(30), <2>3, Times
  <2>5. wait_left[n] \in Nat /\ wait_left'[n] \in {wait_left[n], ElectionTimeoutMin}
    BY ZenonT(30), <1>3 DEF DInv, Clocks, Timing
  <2>6. state'[n].quorum_loss_streak < Larger(Grace, 1)
    BY SMTT(30), <1>1, <2>1, <2>2, <2>3 DEF Beats
  <2>7. ASSUME state'[n].president, state'[n].type # "leader"
        PROVE  wait_left'[n] + 0 + Moment(state'[n].quorum_loss_streak)
                 >= ElectionTimeoutMin
    <3>1. /\ state[n].president /\ state[n].type # "leader"
          /\ state'[n].quorum_loss_streak = state[n].quorum_loss_streak + 1
      BY ZenonT(30), <1>1, <2>7 DEF Beats
    <3>2. /\ Lapse(n) = Len(Phase)
          /\ wait_left[n] + Len(Phase) + Moment(state[n].quorum_loss_streak)
               >= ElectionTimeoutMin
      BY ZenonT(30), <1>4, <1>6, <2>1, <3>1
    <3>3. QED
      BY SMTT(30), <2>4, <2>5, <3>1, <3>2
  <2>8. QED
    BY ZenonT(30), <1>4, <1>6, <2>6, <2>7
<1>7. DInv'
  BY ZenonT(30), <1>1, <1>3, <1>4, <1>5, <1>6, DInvOf
<1>8. QED
  BY ZenonT(30), <1>1, <1>2, <1>3, <1>4, <1>7 DEF HeartbeatTiming

\* A packet arrives: DInv is kept, and one of the handlers has run.
LEMMA StepReceive ==
    ASSUME DInv, NEW n \in Node, NEW m \in DOMAIN transit, TReceive(n, m)
    PROVE  /\ DInv' /\ Alone(n) /\ Timing(n) /\ Received(n, m)
           /\ UNCHANGED <<slot, due>> /\ m \in msgs
<1>1. /\ TypeOK /\ Clocks /\ m \in msgs /\ UNCHANGED <<slot, due>>
      /\ due' \in BOOLEAN /\ Network({m})
  BY ZenonT(30) DEF DInv, Clocks, TReceive
<1>2. CASE RejectAppend(n, m) /\ UNCHANGED timers
  <2>1. TypeOK' /\ Alone(n) /\ Refuses(n, m)
    BY ZenonT(30), <1>1, <1>2, EffectRejectAppend
  <2>2. Timing(n)
    BY ZenonT(30), <1>1, <1>2, <2>1, TimingOf DEF timers
  <2>3. DInv'
    BY ZenonT(30), <1>1, <2>1, <2>2, DInvQuiet DEF Refuses, DInv, ElectorFollows
  <2>4. QED
    BY ZenonT(30), <1>1, <1>2, <2>1, <2>2, <2>3 DEF Received
<1>3. CASE RpcAppend(n, m) /\ SignLoyaltyAgreement(n) /\ StartElectionTimer(n)
  <2>1. TypeOK' /\ Alone(n) /\ Follows(n, m)
    BY ZenonT(30), <1>1, <1>3, EffectRpcAppend
  <2>2. /\ Timing(n) /\ loyal_left'[n] = ElectionTimeoutMin
        /\ wait_left'[n] = ElectionTimeoutMin
    BY ZenonT(30), <1>1, <1>3, <2>1, TimingOf
  <2>3. DInv'
    BY ZenonT(30), <1>1, <2>1, <2>2, DInvQuiet DEF Follows
  <2>4. QED
    BY ZenonT(30), <1>1, <2>1, <2>2, <2>3 DEF Received
<1>4. ASSUME UNCHANGED loyal_left,
             UNCHANGED wait_left \/ StartElectionTimer(n),
             Newer(n, m) => StartElectionTimer(n),
             TypeOK', Alone(n),
             CountsAnswer(n, m) \/ AnswersVote(n, m) \/ CountsVote(n, m)
      PROVE  DInv' /\ Timing(n) /\ Received(n, m)
  <2>1. Timing(n) /\ (Newer(n, m) => wait_left'[n] = ElectionTimeoutMin)
    BY ZenonT(30), <1>1, <1>4, TimingOf
  <2>2. \/ Newer(n, m) /\ Retires(state[n], state'[n])
        \/ SameOffice(state[n], state'[n])
        \/ /\ state[n].type = "candidate" /\ state'[n].type \in {"candidate", "leader"}
           /\ state'[n].president = state[n].president
           /\ state'[n].quorum_loss_streak = state[n].quorum_loss_streak
    BY ZenonT(30), <1>4 DEF CountsAnswer, AnswersVote, CountsVote
  <2>3. n \in Elector => state[n].type = "follower"
    BY ZenonT(30) DEF DInv, ElectorFollows
  <2>4. DInv'
    BY ZenonT(30), <1>1, <1>4, <2>1, <2>2, <2>3, DInvQuiet DEF Retires, SameOffice
  <2>5. QED
    BY ZenonT(30), <1>4, <2>1, <2>4 DEF Received
<1>5. CASE /\ RpcAppendResponse(n, m) \/ RpcReqVoteResponse(n, m)
           /\ StartElectionTimerIf(n, Newer(n, m))
           /\ UNCHANGED loyal_left
  <2>1. /\ UNCHANGED wait_left \/ StartElectionTimer(n)
        /\ Newer(n, m) => StartElectionTimer(n)
    BY ZenonT(30), <1>5 DEF StartElectionTimerIf
  <2>2. /\ TypeOK' /\ Alone(n)
        /\ CountsAnswer(n, m) \/ AnswersVote(n, m) \/ CountsVote(n, m)
    BY ZenonT(30), <1>1, <1>5, EffectRpcAppendResponse, EffectRpcReqVoteResponse
  <2>3. QED
    BY ZenonT(30), <1>1, <1>4, <1>5, <2>1, <2>2
<1>6. CASE /\ RpcReqVote(n, m)
           /\ StartElectionTimerIf(n, Newer(n, m) \/ GrantsVote(state'[n], m))
           /\ UNCHANGED loyal_left
  <2>1. /\ UNCHANGED wait_left \/ StartElectionTimer(n)
        /\ Newer(n, m) => StartElectionTimer(n)
    BY ZenonT(30), <1>6 DEF StartElectionTimerIf
  <2>2. TypeOK' /\ Alone(n) /\ AnswersVote(n, m)
    BY ZenonT(30), <1>1, <1>6, EffectRpcReqVote
  <2>3. QED
    BY ZenonT(30), <1>1, <1>4, <1>6, <2>1, <2>2
<1>7. QED
  BY ZenonT(30), <1>2, <1>3, <1>5, <1>6 DEF TReceive

\* The metadata servers change nothing of the daemons.
LEMMA StepMetadata ==
    ASSUME DInv, NEW n \in Node, MetadataChanges(n)
    PROVE  DInv' /\ UNCHANGED <<state, msgs, slot, due, timers>>
<1>1. /\ UNCHANGED <<state, msgs, slot, due, timers, loyal_left, wait_left, transit>>
      /\ meta' = [meta EXCEPT ![n] = @ + 1]
      /\ meta[n] < MaxVersion \/ \E p \in Node : meta[p] > meta[n]
  BY ZenonT(30) DEF MetadataChanges, MasterWrites, ShadowFollows, timers
<1>2. TypeOK'
  <2>1. meta \in [Node -> 0..MaxVersion] /\ MaxVersion \in Nat
    BY ZenonT(30), BoundAssumption DEF DInv, TypeOK
  <2>2. \A p \in Node : meta[p] \in 0..MaxVersion
    BY ZenonT(30), <2>1
  <2>3. meta[n] + 1 \in 0..MaxVersion
    BY <1>1, <2>1, <2>2
  <2>4. meta' \in [Node -> 0..MaxVersion]
    BY ZenonT(30), <1>1, <2>1, <2>3
  <2>5. QED
    BY ZenonT(30), <1>1, <2>4 DEF DInv, TypeOK
<1>3. QED
  BY ZenonT(30), <1>1, <1>2 DEF DInv, Clocks, ElectorFollows, FollowerIsNew, Lapse

\* The inductive step of DeposedBeforeTimeout, under every kind of fault.
LEMMA DInvNext ==
    ASSUME DInv, [TNext]_tvars
    PROVE  DInv'
<1>1. CASE UNCHANGED tvars
  BY ZenonT(30), <1>1 DEF tvars, vars, timers, DInv, TypeOK, Clocks, ElectorFollows,
       FollowerIsNew, Lapse
<1>2. CASE TimeStep
  BY ZenonT(30), <1>2, StepTime
<1>3. ASSUME NEW m \in DOMAIN transit, TReceive(m.dst, m)
      PROVE  DInv'
  <2>1. m.dst \in Node
    BY ZenonT(30), PacketFields DEF DInv, TypeOK, Clocks
  <2>2. QED
    BY ZenonT(30), <1>3, <2>1, StepReceive
<1>4. ASSUME NEW n \in Node,
             \/ THeartbeat(n) \/ TElectionTimeout(n) \/ TLoyaltyExpires(n)
             \/ TDemoteLeader(n) \/ TMetadataDead(n) \/ TRestart(n)
             \/ MetadataChanges(n)
      PROVE  DInv'
  BY ZenonT(30), <1>4, StepHeartbeat, StepElectionTimeout, StepLoyaltyExpires,
     StepDown, StepRestart, StepMetadata
<1>5. QED
  BY ZenonT(30), <1>1, <1>2, <1>3, <1>4 DEF TNext

\* DInv holds when all daemons start.
LEMMA DInvInit ==
    ASSUME TInit
    PROVE  DInv
<1>1. /\ state = [n \in Node |-> InitNode] /\ msgs = {} /\ meta = [n \in Node |-> 0]
      /\ slot = Len(Phase) /\ due = FALSE /\ transit = << >>
      /\ loyal_left = [n \in Node |-> ElectionTimeoutMin]
      /\ wait_left = [n \in Node |-> ElectionTimeoutMin]
  BY ZenonT(30) DEF TInit, Init
<1>2. TypeOK
  <2>1. /\ 0 \in 0..MaxTerm /\ LoyalTicks + 1 \in 0..MaxTime /\ 0 \in 0..MaxVersion
        /\ 0 \in Nat /\ 0 \in 0..MaxTime
    BY BoundAssumption
  <2>2. InitNode \in RaftState
    BY ZenonT(30), <2>1 DEF InitNode, RaftState
  <2>3. QED
    BY ZenonT(30), <1>1, <2>1, <2>2 DEF TypeOK
<1>3. Clocks
  <2>1. slot \in Slots /\ ElectionTimeoutMin \in Nat
    BY <1>1, Times DEF Slots
  <2>2. DOMAIN transit = {}
    BY <1>1
  <2>3. QED
    BY ZenonT(30), <1>1, <2>1, <2>2 DEF Clocks
<1>4. \A n \in Node : /\ state[n].type = "follower" /\ ~state[n].president
                      /\ state[n].quorum_loss_streak = 0
  BY <1>1 DEF InitNode
<1>5. ElectorFollows
  BY ZenonT(30), <1>4, NodeAssumption DEF ElectorFollows
<1>6. FollowerIsNew
  <2>1. 0 < Larger(Grace, 1)
    BY BoundAssumption DEF Larger
  <2>2. QED
    BY ZenonT(30), <1>4, <2>1 DEF FollowerIsNew, Server
<1>7. QED
  BY ZenonT(30), <1>2, <1>3, <1>5, <1>6 DEF DInv

\* The grace and one period are shorter than the timer that was restarted when
\* the President became a follower.
LEMMA DInvDeposes ==
    ASSUME Larger(Grace, 1) < LoyalTicks, DInv
    PROVE  DeposedBeforeTimeout
<1>1. SUFFICES ASSUME NEW n \in Node, state[n].president,
                      state[n].type # "leader"
               PROVE  wait_left[n] > 0
  BY ZenonT(30) DEF DeposedBeforeTimeout
<1>2. n \in Server
  BY ZenonT(30), <1>1 DEF DInv, ElectorFollows, Server
<1>3. /\ state[n].quorum_loss_streak < Larger(Grace, 1)
      /\ wait_left[n] + Lapse(n) + Moment(state[n].quorum_loss_streak)
           >= ElectionTimeoutMin
  BY ZenonT(30), <1>1, <1>2 DEF DInv, FollowerIsNew
<1>4. Lapse(n) \in 0..Len(Phase) /\ Len(Phase) \in Nat \ {0}
  BY ZenonT(30), <1>1, <1>2, Lapses, Times DEF DInv
<1>5. wait_left[n] \in Nat /\ state[n].quorum_loss_streak \in Nat
  BY ZenonT(30), <1>1, Numbers DEF DInv, Clocks
<1>. DEFINE top == state[n].quorum_loss_streak
<1>6. top + 1 \in Nat /\ top + 2 \in Nat /\ top + 2 <= LoyalTicks /\ LoyalTicks \in Nat
  BY <1>3, <1>5, BoundAssumption DEF Larger
<1>7. Moment(top + 2) = Moment(top) + Len(Phase) + Len(Phase)
  <2>1. /\ Moment(top + 1) = Moment(top) + Len(Phase)
        /\ Moment((top + 1) + 1) = Moment(top + 1) + Len(Phase)
    BY ZenonT(30), <1>5, <1>6, Times
  <2>2. (top + 1) + 1 = top + 2
    BY <1>5
  <2>3. QED  BY ZenonT(30), <2>1, <2>2
<1>8. /\ Moment(top) \in Nat /\ Moment(top + 2) <= ElectionTimeoutMin
      /\ ElectionTimeoutMin \in Nat
  BY ZenonT(30), <1>5, <1>6, Times
<1>9. QED
  BY SMTT(30), <1>3, <1>4, <1>5, <1>7, <1>8

\* A President that is no Leader loses its office in its own heartbeat handler
\* before its election timer can fire, so that electionTimeout never runs on a
\* President: for every number of nodes, every order of their heartbeats, every
\* delay of the packets and every sequence of demotions, deaths and restarts, as
\* long as QUORUM_LOSS_GRACE_HEARTBEATS periods, and one period, are shorter than
\* ELECTION_TIMEOUT_MIN.
THEOREM Deposed ==
    ASSUME Larger(Grace, 1) < LoyalTicks
    PROVE  TSpec => []DeposedBeforeTimeout
<1>1. TInit => DInv
  BY DInvInit
<1>2. DInv /\ [TNext]_tvars => DInv'
  BY DInvNext
<1>3. DInv => DeposedBeforeTimeout
  BY DInvDeposes
<1>4. QED
  BY <1>1, <1>2, <1>3, PTL DEF TSpec

-----------------------------------------------------------------------------
(* A tick is a heartbeat, and a heartbeat counts in time.                  *)

\* Whoever a tick of a Leader counts as loyal has an agreement.
LEMMA CountedNow ==
    ASSUME "restart" \notin Faults, PInv, [TNext]_tvars
    PROVE  \A n \in Node :
             /\ state'[n].local_time # state[n].local_time
             /\ state'[n].type = "leader"
             => \A i \in LoyalVotes(state'[n]) \ {n} : state[i].loyalty_agreement
\* A heartbeat that is counted was answered after less than ELECTION_TIMEOUT_MIN.
<1>CountedInTime.
    ASSUME PInv, NEW n \in Server, NEW i \in Node \ {n}, THeartbeat(n),
           i \in LoyalVotes(state'[n])
    PROVE  loyal_left[i] > 0
  <2> USE <1>CountedInTime
  <2>1. n \in Node /\ Beats(n) /\ due /\ Phase[slot] = n /\ slot \in Slots
    BY ZenonT(30), StepHeartbeat DEF PInv, DInv, Clocks, Server, THeartbeat
  <2>2. /\ state[n].heartbeat \in [Node -> 0..MaxTime] /\ state[n].local_time \in Nat
        /\ loyal_left[i] \in Nat
    BY ZenonT(30), <2>1, Numbers, StateFields DEF PInv, DInv, Clocks
  <2>3. /\ state'[n].local_time = state[n].local_time + 1
        /\ state'[n].heartbeat = [state[n].heartbeat EXCEPT ![n] = state'[n].local_time]
    BY ZenonT(30), <2>1 DEF Beats
  <2>. DEFINE now == state[n].local_time
              seen == state[n].heartbeat[i]
  <2>4. seen \in Nat /\ state'[n].heartbeat[i] = seen
    <3>1. state'[n].heartbeat[i] = seen
      BY ZenonT(30), <2>2, <2>3
    <3>2. QED
      BY ZenonT(30), <2>1, <3>1, Numbers DEF PInv, DInv
  <2>5. (now + 1) - seen + 1 <= LoyalTicks
    BY ZenonT(30), <2>3, <2>4 DEF LoyalVotes
  <2>6. Now(n) = Moment(now) + Len(Phase)
    <3>1. slot = Turn(n)
      BY ZenonT(30), <2>1, Turns
    <3>2. QED
      BY ZenonT(30), <2>1, <3>1 DEF Now, Lapse
  <2>7. loyal_left[i] + (Moment(now) + Len(Phase)) >= Moment(seen) + ElectionTimeoutMin
    BY ZenonT(30), <2>6 DEF PInv, AgreementLasts, Loyal, Outlasts
  <2>8. PICK more \in Nat : seen + LoyalTicks = now + 2 + more
    <3>1. /\ seen + LoyalTicks - now - 2 \in Nat
          /\ seen + LoyalTicks = now + 2 + (seen + LoyalTicks - now - 2)
      BY SMTT(30), <2>2, <2>4, <2>5, BoundAssumption
    <3>2. QED  BY SMTT(30), <3>1
  <2>9. Moment(seen) + ElectionTimeoutMin
          = Moment(now) + Len(Phase) + Len(Phase) + Moment(more)
    <3>1. \A p, x, l \in Nat : (x + l) * p = x * p + l * p
      OBVIOUS
    <3>2. \A p, y, d \in Nat : (y + 2 + d) * p = y * p + p + p + d * p
      OBVIOUS
    <3>3. Len(Phase) \in Nat /\ LoyalTicks \in Nat /\ now \in Nat /\ seen \in Nat
      BY ZenonT(30), Times, BoundAssumption, <2>2, <2>4
    <3>. HIDE DEF now, seen
    <3>4. (seen + LoyalTicks) * Len(Phase)
            = seen * Len(Phase) + LoyalTicks * Len(Phase)
      BY ZenonT(30), <3>1, <3>3
    <3>5. (now + 2 + more) * Len(Phase)
            = now * Len(Phase) + Len(Phase) + Len(Phase) + more * Len(Phase)
      BY ZenonT(30), <3>2, <3>3
    <3>6. QED
      BY ZenonT(30), <2>8, <3>4, <3>5 DEF Moment, ElectionTimeoutMin
  <2>10. /\ Moment(now) \in Nat /\ Moment(more) \in Nat /\ Len(Phase) \in Nat \ {0}
    BY ZenonT(30), <2>2, <2>8, Times
  <2>11. QED
    BY SMTT(30), <2>2, <2>7, <2>9, <2>10
\* Nothing but the heartbeat handler counts a node's local time.
<1>OnlyHeartbeatTicks.
    ASSUME DInv, [TNext]_tvars, "restart" \notin Faults, NEW x \in Node,
           state'[x].local_time # state[x].local_time
    PROVE  THeartbeat(x)
  <2> USE <1>OnlyHeartbeatTicks
  <2>1. ASSUME NEW n \in Node, Alone(n), state'[n].local_time = state[n].local_time
        PROVE  FALSE
    BY ZenonT(30), <2>1 DEF Alone
  <2>2. ~UNCHANGED state
    BY ZenonT(30)
  <2>3. CASE UNCHANGED tvars
    BY ZenonT(30), <2>2, <2>3 DEF tvars, vars
  <2>4. CASE TimeStep
    BY ZenonT(30), <2>2, <2>4 DEF TimeStep
  <2>5. ASSUME NEW m \in DOMAIN transit, TReceive(m.dst, m)
        PROVE  FALSE
    <3>1. m.dst \in Node
      BY ZenonT(30), PacketNumbers DEF DInv, TypeOK, Clocks
    <3>2. Alone(m.dst) /\ Received(m.dst, m)
      BY ZenonT(30), <2>5, <3>1, StepReceive
    <3>3. state'[m.dst].local_time = state[m.dst].local_time
      BY ZenonT(30), <2>2, <3>2 DEF Received, Refuses, Follows, CountsAnswer, AnswersVote,
         CountsVote, SameClock
    <3>4. QED
      BY ZenonT(30), <2>1, <3>1, <3>2, <3>3
  <2>6. ASSUME NEW n \in Node,
               \/ TElectionTimeout(n) \/ TLoyaltyExpires(n)
               \/ TDemoteLeader(n) \/ TMetadataDead(n)
        PROVE  FALSE
    <3>1. Alone(n) /\ (StandsUp(n) \/ Expires(n) \/ StepsDown(n))
      BY ZenonT(30), <2>6, StepElectionTimeout, StepLoyaltyExpires, StepDown
    <3>2. state'[n].local_time = state[n].local_time
      BY ZenonT(30), <3>1 DEF StandsUp, Expires, StepsDown, SameClock
    <3>3. QED
      BY ZenonT(30), <2>1, <3>1, <3>2
  <2>7. ASSUME NEW n \in Node, MetadataChanges(n)
        PROVE  FALSE
    BY ZenonT(30), <2>2, <2>7, StepMetadata
  <2>8. \A n \in Node : ~TRestart(n)
    BY ZenonT(30) DEF TRestart, Fault
  <2>9. ASSUME NEW n \in Node, THeartbeat(n)
        PROVE  THeartbeat(x)
    BY ZenonT(30), <2>9, StepHeartbeat DEF Alone
  <2>10. QED
    BY ZenonT(30), <2>3, <2>4, <2>5, <2>6, <2>7, <2>8, <2>9 DEF TNext
<1>1. SUFFICES ASSUME NEW n \in Node, state'[n].local_time # state[n].local_time,
                      state'[n].type = "leader",
                      NEW i \in LoyalVotes(state'[n]) \ {n}
               PROVE  state[i].loyalty_agreement
  OBVIOUS
<1>2. i \in Node \ {n}
  BY ZenonT(30) DEF LoyalVotes
<1>3. THeartbeat(n)
  BY ZenonT(30), <1>1, <1>OnlyHeartbeatTicks DEF PInv
<1>4. n \in Server
  <2>1. DInv'
    BY ZenonT(30), DInvNext DEF PInv
  <2>2. "leader" # "follower"
    OBVIOUS
  <2>3. n \notin Elector
    BY ZenonT(30), <1>1, <2>1, <2>2 DEF DInv, ElectorFollows
  <2>4. QED
    BY ZenonT(30), <2>3 DEF Server
<1>5. loyal_left[i] > 0
  BY ZenonT(30), <1>2, <1>3, <1>4, <1>CountedInTime
<1>6. loyal_left[i] # 0
  BY <1>5
<1>7. QED
  BY ZenonT(30), <1>2, <1>6 DEF PInv, AgreementLasts

-----------------------------------------------------------------------------
(* The theorems.                                                           *)

\* Facts about finite sets, for the majorities.
INSTANCE FiniteSetTheorems

\* Quorum is a majority of the nodes.
LEMMA QuorumsMeet == Majorities
<1>1. IsFiniteSet(Node) /\ Cardinality(Node) \in Nat
  BY ZenonT(30), NodeAssumption, FS_CardinalityType
<1>2. \A S \in SUBSET Node : IsFiniteSet(S) /\ Cardinality(S) \in Nat
  BY ZenonT(30), <1>1, FS_Subset, FS_CardinalityType
<1>3. ASSUME NEW S \in SUBSET Node, NEW T \in SUBSET Node,
             Cardinality(S) >= Quorum, Cardinality(T) >= Quorum
      PROVE  S \cap T # {}
  <2>1. Cardinality(S) + Cardinality(T) > Cardinality(Node)
    BY SMTT(30), <1>1, <1>2, <1>3 DEF Quorum
  <2>2. QED
    BY ZenonT(30), <1>1, <1>3, <2>1, FS_MajoritiesIntersect
<1>4. ASSUME ~(Quorum > 1), NEW a \in Node, NEW b \in Node, a # b
      PROVE  FALSE
  <2>1. Cardinality({a}) = 1 /\ Cardinality({b}) = 1
    BY ZenonT(30), FS_Singleton
  <2>2. Cardinality({a}) >= Quorum /\ Cardinality({b}) >= Quorum
    BY SMTT(30), <1>1, <1>4, <2>1 DEF Quorum
  <2>3. {a} \cap {b} # {}
    BY ZenonT(60), <1>3, <2>2
  <2>4. QED
    BY ZenonT(30), <1>4, <2>3
<1>5. ASSUME NEW S \in SUBSET Node, NEW T \in SUBSET Node, S \subseteq T,
             Cardinality(S) >= Quorum
      PROVE  Cardinality(T) >= Quorum
  <2>1. Cardinality(S) <= Cardinality(T)
    BY ZenonT(30), <1>2, <1>5, FS_Subset
  <2>2. Quorum \in Nat
    BY SMTT(30), <1>1 DEF Quorum
  <2>3. QED
    BY SMTT(30), <1>2, <1>5, <2>1, <2>2
<1>6. Quorum \in Nat
  BY SMTT(30), <1>1 DEF Quorum
<1>7. ~(Quorum > 1) => \A a \in Node : Cardinality({a}) >= Quorum
  <2>1. \A a \in Node : Cardinality({a}) = 1
    BY ZenonT(30), FS_Singleton
  <2>2. QED
    BY SMTT(30), <1>6, <2>1
<1>8. QED
  BY ZenonT(30), <1>3, <1>4, <1>5, <1>6, <1>7 DEF Majorities

-----------------------------------------------------------------------------
(* A term has at most one Leader.                                          *)

\* Types, votes and roles stay consistent in every reachable state, for every
\* number of nodes, every subset of electors and every bound on terms and times.
THEOREM Invariance == Spec => []IInv
<1>1. Init => IInv
  BY ZenonT(30), InitInv
<1>2. IInv /\ [Next]_vars => IInv'
  BY ZenonT(30), NextInv, QuorumsMeet
<1>3. QED
  BY <1>1, <1>2, PTL DEF Spec

\* Every handler keeps the daemons' state and the packets within their types.
THEOREM TypeCorrect == Spec => []TypeOK
<1>1. IInv => TypeOK
  BY DEF IInv
<1>2. QED
  BY <1>1, Invariance, PTL

\* No two nodes are Leader of one term, however the packets are lost, delayed
\* and reordered and although a node that steps down forgets its vote.
THEOREM OneLeader == Spec => []OneLeaderPerTerm
<1>1. IInv => OneLeaderPerTerm
  BY DEF IInv, Core, OneIncumbentPerTerm, OneLeaderPerTerm, Incumbent, SameTerm
<1>2. QED
  BY <1>1, Invariance, PTL

-----------------------------------------------------------------------------
(* There is one President at a time.                                       *)

\* The inductive step of OnePresident.
LEMMA PInvNext ==
    ASSUME Faults \subseteq {"demotion"}, Grace <= 1, LoyalTicks >= 2,
           PInv, [TNext]_tvars
    PROVE  PInv'
<1>1. DInv'
  BY ZenonT(30), DInvNext DEF PInv
<1>2. "restart" \notin Faults /\ "death" \notin Faults
  OBVIOUS
<1>3. CASE UNCHANGED tvars
  <2>1. UNCHANGED <<state, msgs, slot, due, timers>> /\ UNCHANGED vars
    BY ZenonT(30), <1>3 DEF tvars, vars
  <2>2. IInv'
    BY ZenonT(30), <2>1, NextInv, QuorumsMeet DEF PInv
  <2>3. QED
    BY ZenonT(30), <1>1, <2>1, <2>2, PInvQuiet
<1>4. CASE TimeStep
  <2>1. msgs' = msgs
    BY ZenonT(30), <1>2, <1>4 DEF TimeStep
  <2>2. TimersRun
    BY ZenonT(30), <1>4, StepTime DEF PInv
  <2>3. IInv'
    <3>1. UNCHANGED vars
      BY ZenonT(30), <1>4, <2>1 DEF TimeStep, vars
    <3>2. QED
      BY ZenonT(30), <3>1, NextInv, QuorumsMeet DEF PInv
  <2>4. QED
    BY ZenonT(30), <1>1, <1>4, <2>1, <2>2, <2>3, PInvTime
<1>5. ASSUME NEW m \in DOMAIN transit, TReceive(m.dst, m)
      PROVE  PInv'
  <2>1. m \in msgs /\ m.dst \in Node
    BY ZenonT(30), PacketNumbers DEF PInv, DInv, TypeOK, Clocks
  <2>2. Receive(m.dst, m)
    BY ZenonT(30), <1>5 DEF TReceive, Receive
  <2>3. IInv'
    BY ZenonT(30), <2>1, <2>2, NextInv, QuorumsMeet DEF PInv, Next
  <2>4. Moves(m.dst)
    <3>1. /\ Received(m.dst, m) /\ Alone(m.dst) /\ Timing(m.dst)
          /\ UNCHANGED <<slot, due>>
      BY ZenonT(30), <1>5, <2>1, StepReceive DEF PInv
    <3>2. TypeOK'
      BY ZenonT(30), <1>1 DEF DInv
    <3>3. QED
      BY ZenonT(30), <2>1, <3>1, <3>2, MovesReceive
  <2>5. QED
    BY ZenonT(30), <1>1, <2>1, <2>3, <2>4, PInvMoves, QuorumsMeet
<1>6. ASSUME NEW n \in Node, THeartbeat(n)
      PROVE  PInv'
  <2>1. IInv'
    BY ZenonT(30), <1>6, InvHeartbeat DEF PInv, THeartbeat
  <2>2. Moves(n)
    BY ZenonT(30), <1>6, StepHeartbeat, MovesHeartbeat DEF PInv
  <2>3. QED
    BY ZenonT(30), <1>1, <2>1, <2>2, PInvMoves, QuorumsMeet
<1>7. ASSUME NEW n \in Node, TElectionTimeout(n)
      PROVE  PInv'
  <2>1. Larger(Grace, 1) < LoyalTicks
    BY SMTT(30), BoundAssumption DEF Larger
  <2>2. ~state[n].president
    <3>1. ElectionTimeout(n) /\ state[n].type # "leader" /\ wait_left[n] = 0
      BY ZenonT(30), <1>7 DEF TElectionTimeout, ElectionTimeout
    <3>2. state[n].president => 0 > 0
      BY ZenonT(30), <2>1, <3>1, DInvDeposes DEF PInv, DeposedBeforeTimeout
    <3>3. QED
      BY SMTT(30), <3>2
  <2>3. IInv'
    BY ZenonT(30), <1>7, <2>2, InvElectionTimeout, QuorumsMeet DEF PInv, TElectionTimeout
  <2>4. Moves(n)
    BY ZenonT(30), <1>7, StepElectionTimeout, MovesElectionTimeout DEF PInv
  <2>5. QED
    BY ZenonT(30), <1>1, <2>3, <2>4, PInvMoves, QuorumsMeet
<1>8. ASSUME NEW n \in Node, TLoyaltyExpires(n)
      PROVE  PInv'
  <2>1. IInv'
    BY ZenonT(30), <1>8, InvLoyaltyExpires DEF PInv, TLoyaltyExpires
  <2>2. Moves(n)
    <3>1. /\ Alone(n) /\ Timing(n) /\ Expires(n) /\ UNCHANGED <<slot, due>>
          /\ loyal_left'[n] = 0
      BY ZenonT(30), <1>8, StepLoyaltyExpires DEF PInv, timers
    <3>2. QED
      BY ZenonT(30), <3>1, MovesLoyaltyExpires
  <2>3. QED
    BY ZenonT(30), <1>1, <2>1, <2>2, PInvMoves, QuorumsMeet
<1>9. ASSUME NEW n \in Node, TDemoteLeader(n)
      PROVE  PInv'
  <2>1. IInv'
    BY ZenonT(30), <1>9, InvDemoteLeader DEF PInv, TDemoteLeader
  <2>2. Moves(n)
    <3>1. /\ Alone(n) /\ Timing(n) /\ StepsDown(n) /\ UNCHANGED <<slot, due>>
          /\ wait_left'[n] = ElectionTimeoutMin /\ loyal_left'[n] = loyal_left[n]
      BY ZenonT(30), <1>9, StepDown DEF PInv
    <3>2. QED
      BY ZenonT(30), <3>1, MovesDemoteLeader
  <2>3. QED
    BY ZenonT(30), <1>1, <2>1, <2>2, PInvMoves, QuorumsMeet
<1>10. ASSUME NEW n \in Node, MetadataChanges(n)
       PROVE  PInv'
  <2>1. IInv'
    BY ZenonT(30), <1>10, InvMetadata DEF PInv, MetadataChanges
  <2>2. QED
    BY ZenonT(30), <1>1, <1>10, <2>1, StepMetadata, PInvQuiet DEF PInv
<1>11. \A n \in Node : ~TMetadataDead(n) /\ ~TRestart(n)
  BY ZenonT(30), <1>2 DEF TMetadataDead, TRestart, Fault
<1>12. QED
  BY ZenonT(30), <1>3, <1>4, <1>5, <1>6, <1>7, <1>8, <1>9, <1>10, <1>11 DEF TNext

\* "There can be only one President at the time": for every number of nodes,
\* every order of their heartbeats, every delay, loss and reordering of the
\* packets and every demotion by the controller, as long as no President is
\* forgiven a lost quorum, ELECTION_TIMEOUT_MIN is two heartbeat periods at
\* least and no daemon restarts and no metadata server dies.
THEOREM President ==
    ASSUME Faults \subseteq {"demotion"}, Grace <= 1, LoyalTicks >= 2
    PROVE  TSpec => []OnePresident
<1>1. TInit => PInv
  BY ZenonT(30), InitInv, DInvInit, PInvInit DEF TInit
<1>2. PInv /\ [TNext]_tvars => PInv'
  BY ZenonT(30), PInvNext
<1>3. PInv => OnePresident
  BY ZenonT(30) DEF PInv
<1>4. QED
  BY <1>1, <1>2, <1>3, PTL DEF TSpec

\* Whoever a Leader counts as loyal is bound by an agreement at that moment,
\* under the conditions under which there is one President.
THEOREM Counted ==
    ASSUME Faults \subseteq {"demotion"}, Grace <= 1, LoyalTicks >= 2
    PROVE  TSpec => CountedAreLoyal
<1>1. TInit => PInv
  BY ZenonT(30), InitInv, DInvInit, PInvInit DEF TInit
<1>2. PInv /\ [TNext]_tvars => PInv'
  BY ZenonT(30), PInvNext
<1>3. PInv /\ [TNext]_tvars =>
        [\A n \in Node :
           /\ state'[n].local_time # state[n].local_time
           /\ state'[n].type = "leader"
           => \A i \in LoyalVotes(state'[n]) \ {n} : state[i].loyalty_agreement]_tvars
  <2>1. "restart" \notin Faults
    OBVIOUS
  <2>2. QED
    BY ZenonT(30), <2>1, CountedNow
<1>4. QED
  BY <1>1, <1>2, <1>3, PTL DEF TSpec, CountedAreLoyal

=============================================================================
