----------------------------- MODULE URaftVotes -----------------------------
(***************************************************************************)
(* What the helpers of the handlers do to the state of a daemon, which     *)
(* terms packets have, and that what votes and roles have in common (IInv) *)
(* survives every step: every kind of step (a change of role, a candidacy, *)
(* a vote, a vote counted) keeps it, and every action of URaft is one of   *)
(* them.                                                                   *)
(***************************************************************************)
EXTENDS URaft, TLAPS

-----------------------------------------------------------------------------
(* What the helpers of the handlers do to the state of one daemon.         *)

\* The fields of a daemon's state that the proof speaks of.
LEMMA StateFields ==
    ASSUME NEW s \in RaftState
    PROVE  /\ s.type \in {"follower", "candidate", "leader"}
           /\ s.current_term \in 0..MaxTerm
           /\ s.voted_for \in Node \cup {None}
           /\ s.leader_id \in Node \cup {None}
           /\ s.local_time \in 0..MaxTime
           /\ s.president \in BOOLEAN
           /\ s.loyalty_agreement \in BOOLEAN
           /\ s.data_version \in 0..MaxVersion
           /\ s.quorum_loss_streak \in Nat
           /\ s.heartbeat \in [Node -> 0..MaxTime]
           /\ s.vote_granted \in SUBSET Node
BY DEF RaftState

\* stepDownToFollower gives a follower without a vote or a leader.
LEMMA StepDownFacts ==
    ASSUME NEW s \in RaftState
    PROVE  LET t == StepDownToFollower(s)
           IN  /\ t \in RaftState
               /\ t.type = "follower" /\ ~t.president
               /\ t.voted_for = None /\ t.leader_id = None
               /\ t.current_term = s.current_term
               /\ t.vote_granted = s.vote_granted
BY ZenonT(30) DEF RaftState, StepDownToFollower

\* checkTerm makes a node a follower of a newer term or leaves it alone.
LEMMA CheckTermFacts ==
    ASSUME NEW s \in RaftState, NEW term \in 0..MaxTerm
    PROVE  LET c == CheckTerm(s, term)
           IN  /\ c \in RaftState
               /\ term <= s.current_term => c = s
               /\ term > s.current_term =>
                    /\ c.type = "follower" /\ ~c.president
                    /\ c.voted_for = None /\ c.leader_id = None
                    /\ c.current_term = term
                    /\ c.vote_granted = s.vote_granted
<1>. DEFINE d == StepDownToFollower(s)
<1>1. CASE term > s.current_term
  <2>1. CheckTerm(s, term) = [d EXCEPT !.current_term = term]
    BY <1>1 DEF CheckTerm
  <2>2. d \in RaftState /\ d.type = "follower" /\ ~d.president
        /\ d.voted_for = None /\ d.leader_id = None
        /\ d.vote_granted = s.vote_granted
    BY StepDownFacts
  <2>. HIDE DEF d
  <2>3. QED  BY <1>1, <2>1, <2>2, StateFields DEF RaftState
<1>2. CASE ~(term > s.current_term)
  BY <1>2, StateFields, BoundAssumption DEF CheckTerm
<1>3. QED  BY <1>1, <1>2

\* The packets a daemon sends to everybody else.
LEMMA SentRequests ==
    ASSUME NEW n \in Node, NEW s \in RaftState
    PROVE  /\ \A m \in SendHeartbeat(n, s) :
                /\ m \in RpcRequest /\ m.rpc = "AppendEntries"
                /\ m.src = n /\ m.dst # n /\ m.term = s.current_term
           /\ \A m \in SendRequestForVotes(n, s) :
                /\ m \in RpcRequest /\ m.rpc = "RequestVote"
                /\ m.src = n /\ m.dst # n /\ m.term = s.current_term
BY StateFields DEF SendHeartbeat, SendRequestForVotes, RpcRequest

\* What the handlers use of a packet.
LEMMA PacketFields ==
    ASSUME NEW m \in RpcRequest \cup RpcResponse
    PROVE  /\ m.rpc \in {"AppendEntries", "RequestVote", "AEResponse", "RVResponse"}
           /\ m.term \in 0..MaxTerm /\ m.src \in Node /\ m.dst \in Node
           /\ m.rpc \in {"AppendEntries", "RequestVote"} => m \in RpcRequest
           /\ m.rpc \in {"AEResponse", "RVResponse"} => m \in RpcResponse
BY DEF RpcRequest, RpcResponse

\* What NodeGetVersion answers is a version.
LEMMA VersionType ==
    ASSUME TypeOK, NEW n \in Node, NEW version \in NodeGetVersion(n)
    PROVE  version \in 0..MaxVersion
BY BoundAssumption DEF TypeOK, NodeGetVersion

-----------------------------------------------------------------------------
(* Types.                                                                  *)

\* A step of one daemon that gives it a well-typed state and sends well-typed
\* packets keeps the types.
LEMMA TypeOfStep ==
    ASSUME TypeOK, NEW n \in Node, NEW t \in RaftState,
           state' = [state EXCEPT ![n] = t],
           msgs' \subseteq msgs \cup RpcRequest \cup RpcResponse,
           UNCHANGED meta
    PROVE  TypeOK'
BY DEF TypeOK

\* Stand makes a candidate of the next term, or a Leader when alone.
LEMMA StandFacts ==
    ASSUME NEW n \in Node, NEW s \in RaftState, NEW version \in 0..MaxVersion,
           s.current_term < MaxTerm
    PROVE  LET t == Stand(n, s, version)
           IN  /\ t \in RaftState
               /\ t.type = IF Quorum > 1 THEN "candidate" ELSE "leader"
               /\ t.current_term = s.current_term + 1
               /\ t.voted_for = n
               /\ t.vote_granted = {n}
               /\ t.president = s.president
<1>. DEFINE type == IF Quorum > 1 THEN "candidate" ELSE "leader"
            hb == [s.heartbeat EXCEPT ![n] = s.local_time]
            v == IF Quorum > 1 THEN version ELSE s.data_version
<1>1. /\ type \in {"follower", "candidate", "leader"} /\ v \in 0..MaxVersion
      /\ n \in Node \cup {None} /\ {n} \in SUBSET Node
  BY StateFields
<1>2. hb \in [Node -> 0..MaxTime]
  BY StateFields
<1>3. s.current_term + 1 \in 0..MaxTerm
  BY StateFields, BoundAssumption
<1>. DEFINE d == [s EXCEPT !.type = type, !.current_term = s.current_term + 1,
                           !.voted_for = n]
<1>4. /\ d \in RaftState
      /\ d.type = type /\ d.current_term = s.current_term + 1
      /\ d.voted_for = n /\ d.president = s.president
  <2>. HIDE DEF type
  <2>1. QED  BY ZenonT(30), <1>1, <1>3 DEF RaftState
<1>5. Stand(n, s, version) =
        [d EXCEPT !.vote_granted = {n}, !.heartbeat = hb, !.data_version = v]
  BY DEF Stand
<1>. HIDE DEF hb, v, d
<1>6. QED
  BY <1>1, <1>2, <1>4, <1>5, ZenonT(60) DEF RaftState

\* Tick counts the clock and refreshes nothing of the role.
LEMMA TickFacts ==
    ASSUME NEW n \in Node, NEW s \in RaftState, s.local_time < MaxTime
    PROVE  LET t == Tick(n, s)
           IN  /\ t \in RaftState
               /\ t.type = s.type /\ t.president = s.president
               /\ t.voted_for = s.voted_for /\ t.leader_id = s.leader_id
               /\ t.current_term = s.current_term
               /\ t.vote_granted = s.vote_granted
<1>. DEFINE time == s.local_time + 1
            hb == [s.heartbeat EXCEPT ![n] = time]
<1>1. time \in 0..MaxTime
  BY StateFields, BoundAssumption
<1>2. hb \in [Node -> 0..MaxTime]
  BY <1>1, StateFields
<1>3. Tick(n, s) = [s EXCEPT !.local_time = time, !.heartbeat = hb]
  BY DEF Tick
<1>. HIDE DEF time, hb
<1>4. QED
  BY ZenonT(30), <1>1, <1>2, <1>3 DEF RaftState

\* Follow makes a follower of the sender and keeps the vote.
LEMMA FollowFacts ==
    ASSUME NEW s \in RaftState, NEW leader \in Node, NEW version \in 0..MaxVersion
    PROVE  LET t == Follow(s, leader, version)
           IN  /\ t \in RaftState
               /\ t.type = "follower" /\ t.president = s.president
               /\ t.voted_for = s.voted_for /\ t.leader_id = leader
               /\ t.current_term = s.current_term
               /\ t.vote_granted = s.vote_granted
<1>. DEFINE d == [s EXCEPT !.data_version = version, !.leader_id = leader]
<1>1. /\ d \in RaftState
      /\ d.president = s.president
      /\ d.voted_for = s.voted_for /\ d.leader_id = leader
      /\ d.current_term = s.current_term
      /\ d.vote_granted = s.vote_granted
  BY ZenonT(30) DEF RaftState
<1>2. Follow(s, leader, version) =
        [d EXCEPT !.loyalty_agreement = TRUE, !.type = "follower"]
  BY DEF Follow
<1>. HIDE DEF d
<1>3. QED
  BY ZenonT(60), <1>1, <1>2 DEF RaftState

\* Answered refreshes a heartbeat time only.
LEMMA AnsweredFacts ==
    ASSUME NEW s \in RaftState, NEW i \in Node, NEW time \in 0..MaxTime
    PROVE  LET t == Answered(s, i, time)
           IN  /\ t \in RaftState
               /\ t.type = s.type /\ t.president = s.president
               /\ t.voted_for = s.voted_for /\ t.leader_id = s.leader_id
               /\ t.current_term = s.current_term
               /\ t.vote_granted = s.vote_granted
<1>. DEFINE hb == [s.heartbeat EXCEPT ![i] = Larger(s.heartbeat[i], time)]
<1>1. hb \in [Node -> 0..MaxTime]
  BY StateFields DEF Larger
<1>2. Answered(s, i, time) = [s EXCEPT !.heartbeat = hb]
  BY DEF Answered
<1>. HIDE DEF hb
<1>3. QED
  BY <1>1, <1>2 DEF RaftState

\* CountVote changes the counted votes only.
LEMMA CountVoteFacts ==
    ASSUME NEW s \in RaftState, NEW m, m.src \in Node
    PROVE  LET t == CountVote(s, m)
           IN  /\ t \in RaftState
               /\ t.type = s.type /\ t.president = s.president
               /\ t.voted_for = s.voted_for /\ t.leader_id = s.leader_id
               /\ t.current_term = s.current_term
               /\ t.vote_granted = IF m.result
                                   THEN s.vote_granted \cup {m.src}
                                   ELSE s.vote_granted \ {m.src}
<1>. DEFINE votes == IF m.result THEN s.vote_granted \cup {m.src}
                                ELSE s.vote_granted \ {m.src}
<1>1. votes \in SUBSET Node
  BY StateFields
<1>2. CountVote(s, m) = [s EXCEPT !.vote_granted = votes]
  BY DEF CountVote
<1>. HIDE DEF votes
<1>3. CountVote(s, m) \in RaftState /\ CountVote(s, m).vote_granted = votes
      /\ CountVote(s, m).type = s.type /\ CountVote(s, m).president = s.president
      /\ CountVote(s, m).voted_for = s.voted_for
      /\ CountVote(s, m).leader_id = s.leader_id
      /\ CountVote(s, m).current_term = s.current_term
  BY <1>1, <1>2 DEF RaftState
<1>4. QED
  BY <1>3 DEF votes

\* The clocks and the terms of well-typed nodes are numbers.
LEMMA Numbers ==
    ASSUME TypeOK, NEW n \in Node
    PROVE  /\ state[n] \in RaftState
           /\ state[n].local_time \in Nat /\ state[n].current_term \in Nat
           /\ state[n].quorum_loss_streak \in Nat
           /\ \A i \in Node : state[n].heartbeat[i] \in Nat
<1>1. state[n] \in RaftState
  BY DEF TypeOK
<1>2. QED
  BY <1>1, StateFields, BoundAssumption

-----------------------------------------------------------------------------
(* Packets and terms.                                                      *)

\* Votes and heartbeats speak of terms their sender, and for a vote its
\* addressee, has reached.
LEMMA TermBounds ==
    ASSUME PacketTerms
    PROVE  /\ \A v, a, term : Granted(msgs, v, a, term) =>
                /\ v # a
                /\ term <= state[v].current_term
                /\ term <= state[a].current_term
           /\ \A a, term : Led(msgs, a, term) => term <= state[a].current_term
BY DEF PacketTerms, Granted, Led

\* The fields of packets that the conjuncts of PInv speak of.
LEMMA PacketNumbers ==
    ASSUME NEW m \in RpcRequest \cup RpcResponse
    PROVE  /\ m.src \in Node /\ m.dst \in Node /\ m.term \in Nat
           /\ m.rpc = "AppendEntries" => m.time \in Nat
           /\ m.rpc = "AEResponse" => m.req_time \in Nat /\ m.result \in BOOLEAN
<1>1. MaxTime \in Nat /\ MaxTerm \in Nat
  BY BoundAssumption
<1>2. QED
  BY <1>1 DEF RpcRequest, RpcResponse

-----------------------------------------------------------------------------
(* Quorums.                                                                *)

\* Any two sets of Quorum nodes meet, a larger set than a quorum is one, and
\* one node is a quorum only by itself.
Majorities ==
    /\ Quorum \in Nat
    /\ \A S, T \in SUBSET Node :
         Cardinality(S) >= Quorum /\ Cardinality(T) >= Quorum => S \cap T # {}
    /\ \A S, T \in SUBSET Node :
         S \subseteq T /\ Cardinality(S) >= Quorum => Cardinality(T) >= Quorum
    /\ ~(Quorum > 1) =>
         \A a, b \in Node : a = b /\ Cardinality({a}) >= Quorum

-----------------------------------------------------------------------------
(* The packets of a step.                                                  *)

\* New packets of node n add only what they say to the history of votes and
\* heartbeats.
LEMMA NewPackets ==
    ASSUME NEW n, NEW term, NEW new, msgs' = msgs \cup new,
           \A m \in new : m.src = n /\ m.term = term
    PROVE  /\ \A v, a, tau : Granted(msgs, v, a, tau) => Granted(msgs', v, a, tau)
           /\ \A a, tau : Led(msgs, a, tau) => Led(msgs', a, tau)
           /\ \A a, tau : Led(msgs', a, tau) =>
                Led(msgs, a, tau) \/ (a = n /\ tau = term)
           /\ (\A m \in new : m.rpc # "AppendEntries") =>
                \A a, tau : Led(msgs', a, tau) => Led(msgs, a, tau)
           /\ (\A m \in new : m.rpc = "RVResponse" => ~m.result) =>
                \A v, a, tau : Granted(msgs', v, a, tau) => Granted(msgs, v, a, tau)
BY DEF Granted, Led

\* PacketTerms when terms do not decrease and n sends packets of its term.
LEMMA PacketTermsStep ==
    ASSUME TypeOK, PacketTerms, NEW n \in Node, NEW t \in RaftState,
           state' = [state EXCEPT ![n] = t],
           t.current_term >= state[n].current_term,
           NEW new \in SUBSET (RpcRequest \cup RpcResponse), msgs' = msgs \cup new,
           \A m \in new :
              /\ m.src = n /\ m.dst # n /\ m.term = t.current_term
              /\ m.rpc = "RVResponse" /\ m.result
                   => m.term <= state[m.dst].current_term
    PROVE  PacketTerms'
<1>1. \A i \in Node : /\ state[i].current_term \in Int
                      /\ state'[i].current_term \in Int
                      /\ state[i].current_term <= state'[i].current_term
                      /\ i # n => state'[i] = state[i]
  BY StateFields DEF TypeOK
<1>2. state'[n] = t
  BY DEF TypeOK
<1>3. \A m \in msgs \cup new : m.src \in Node /\ m.dst \in Node /\ m.term \in Int
  BY PacketFields DEF TypeOK
<1>4. SUFFICES ASSUME NEW m \in msgs \cup new
      PROVE  /\ m.src # m.dst
             /\ m.term <= state'[m.src].current_term
             /\ m.rpc = "RVResponse" /\ m.result
                  => m.term <= state'[m.dst].current_term
  BY DEF PacketTerms
<1>5. CASE m \in msgs
  BY <1>1, <1>3, <1>5 DEF PacketTerms
<1>6. CASE m \in new
  BY <1>1, <1>2, <1>3, <1>6
<1>7. QED
  BY <1>4, <1>5, <1>6

\* The same when no packet grants a vote.
LEMMA QuietPackets ==
    ASSUME IInv, NEW n \in Node, NEW t \in RaftState,
           state' = [state EXCEPT ![n] = t],
           t.current_term >= state[n].current_term,
           NEW new \in SUBSET (RpcRequest \cup RpcResponse), msgs' = msgs \cup new,
           \A m \in new :
              /\ m.src = n /\ m.dst # n /\ m.term = t.current_term
              /\ m.rpc = "RVResponse" => ~m.result
    PROVE  /\ PacketTerms'
           /\ \A v, a, tau : Granted(msgs', v, a, tau) <=> Granted(msgs, v, a, tau)
           /\ \A a, tau : Led(msgs, a, tau) => Led(msgs', a, tau)
           /\ \A a, tau : Led(msgs', a, tau) => Led(msgs, a, tau) \/ a = n
           /\ (\A m \in new : m.rpc # "AppendEntries") =>
                \A a, tau : Led(msgs', a, tau) <=> Led(msgs, a, tau)
<1>1. TypeOK /\ PacketTerms
  BY DEF IInv, Core
<1>2. \A m \in new :
         /\ m.src = n /\ m.dst # n /\ m.term = t.current_term
         /\ m.rpc = "RVResponse" /\ m.result
              => m.term <= state[m.dst].current_term
  OBVIOUS
<1>3. PacketTerms'
  BY ZenonT(30), <1>1, <1>2, PacketTermsStep
<1>4. QED
  BY ZenonT(60), <1>3, NewPackets

\* The same when nothing is sent.
LEMMA NoPackets ==
    ASSUME IInv, NEW n \in Node, NEW t \in RaftState,
           state' = [state EXCEPT ![n] = t],
           t.current_term >= state[n].current_term,
           msgs' = msgs
    PROVE  /\ PacketTerms'
           /\ \A v, a, tau : Granted(msgs', v, a, tau) <=> Granted(msgs, v, a, tau)
           /\ \A a, tau : Led(msgs', a, tau) <=> Led(msgs, a, tau)
<1>1. msgs' = msgs \cup {} /\ {} \in SUBSET (RpcRequest \cup RpcResponse)
  OBVIOUS
<1>2. PacketTerms'
  BY ZenonT(30), <1>1, QuietPackets
<1>3. QED
  BY <1>2

-----------------------------------------------------------------------------
(* The kinds of steps, by what they do to roles and votes.                 *)

\* A step that changes nobody's role, term or votes, in which only an
\* incumbent sends heartbeats.
LEMMA SameRole ==
    ASSUME IInv, PacketTerms', NEW n \in Node, NEW t,
           state' = [state EXCEPT ![n] = t],
           t.type = state[n].type,
           t.current_term = state[n].current_term,
           t.voted_for = state[n].voted_for,
           t.leader_id = state[n].leader_id,
           t.vote_granted = state[n].vote_granted,
           t.president => Incumbent(n),
           state[n].president => t.president,
           \A v, a, tau : Granted(msgs', v, a, tau) <=> Granted(msgs, v, a, tau),
           \A a, tau : Led(msgs, a, tau) => Led(msgs', a, tau),
           \A a, tau : Led(msgs', a, tau) =>
              Led(msgs, a, tau) \/ (a = n /\ Incumbent(n))
    PROVE  Core'
<1>1. \A i \in Node :
        /\ state'[i].type = state[i].type
        /\ state'[i].current_term = state[i].current_term
        /\ state'[i].voted_for = state[i].voted_for
        /\ state'[i].leader_id = state[i].leader_id
        /\ state'[i].vote_granted = state[i].vote_granted
        /\ state'[i].president => Incumbent(i)
        /\ state[i].president => state'[i].president
  BY DEF IInv, TypeOK, Incumbent
<1>2. \A i \in Node : /\ Candidate(i)' <=> Candidate(i)
                      /\ Incumbent(i)' <=> Incumbent(i)
                      /\ Standing(i)' <=> Standing(i)
  BY <1>1 DEF Candidate, Incumbent, Standing
<1>3. StandingGrantsNobody'
  BY ZenonT(30), <1>1 DEF IInv, Core, StandingGrantsNobody
<1>4. VoteRemembered'
  BY <1>1, <1>2 DEF IInv, Core, VoteRemembered, SameTerm
<1>5. VoteWasGranted'
  BY ZenonT(30), <1>1 DEF IInv, Core, VoteWasGranted
<1>6. FollowedHasLed'
  BY ZenonT(30), <1>1 DEF IInv, Core, FollowedHasLed
<1>7. CandidateHasNotLed'
  BY <1>1, <1>2 DEF IInv, Core, CandidateHasNotLed, Candidate, Incumbent
<1>8. VotesAreGranted'
  BY ZenonT(30), <1>1, <1>2 DEF IInv, Core, VotesAreGranted
<1>9. IncumbentHasQuorum'
  BY ZenonT(30), <1>1, <1>2 DEF IInv, Core, IncumbentHasQuorum, Quorum
<1>10. CandidatesShareNoVoter'
  BY SMTT(30), <1>1, <1>2 DEF IInv, Core, CandidatesShareNoVoter, SameTerm
<1>11. IncumbentKeepsVoters'
  BY <1>1, <1>2, SMTT(40) DEF IInv, Core, IncumbentKeepsVoters, SameTerm
<1>12. OneIncumbentPerTerm'
  BY <1>1, <1>2 DEF IInv, Core, OneIncumbentPerTerm, SameTerm
<1>13. QED
  BY <1>3, <1>4, <1>5, <1>6, <1>7, <1>8, <1>9, <1>10, <1>11, <1>12 DEF Core

\* A step in which n becomes or stays a follower: in a newer term, in the same
\* term with its vote, or in the same term without its vote when it stood.
LEMMA BecomesFollower ==
    ASSUME IInv, PacketTerms', NEW n \in Node, NEW t \in RaftState,
           state' = [state EXCEPT ![n] = t],
           t.type = "follower",
           t.vote_granted = state[n].vote_granted,
           t.leader_id = None \/ Led(msgs, t.leader_id, t.current_term),
           \/ /\ t.current_term > state[n].current_term
              /\ ~t.president /\ t.voted_for = None
           \/ /\ t.current_term = state[n].current_term
              /\ t.president = state[n].president
              /\ t.voted_for = state[n].voted_for
           \/ /\ t.current_term = state[n].current_term
              /\ ~t.president /\ t.voted_for = None
              /\ state[n].type # "follower" \/ state[n].president,
           \A v, a, tau : Granted(msgs', v, a, tau) <=> Granted(msgs, v, a, tau),
           \A a, tau : Led(msgs', a, tau) <=> Led(msgs, a, tau)
    PROVE  Core'
<1>. USE NodeAssumption
<1>1. /\ state'[n] = t
      /\ \A i \in Node : i # n => state'[i] = state[i]
  BY SMTT(30) DEF IInv, TypeOK
<1>2. \A i \in Node : /\ Candidate(i)' => Candidate(i) /\ i # n
                      /\ Incumbent(i)' =>
                           /\ Incumbent(i)
                           /\ state'[i].current_term = state[i].current_term
                           /\ state'[i].voted_for = state[i].voted_for
                      /\ Standing(i)' =>
                           /\ Standing(i)
                           /\ state'[i].current_term = state[i].current_term
                           /\ state'[i].voted_for = state[i].voted_for
                      /\ state'[i].vote_granted = state[i].vote_granted
  BY ZenonT(30), <1>1 DEF Candidate, Incumbent, Standing
<1>3. StandingGrantsNobody'
  BY ZenonT(30), <1>1 DEF IInv, Core, StandingGrantsNobody
<1>4. VoteRemembered'
  <2>1. SUFFICES ASSUME NEW v \in Node, NEW a \in Node,
                        Granted(msgs, v, a, state'[v].current_term),
                        state'[v].current_term = state'[a].current_term,
                        Standing(a)'
        PROVE  state'[v].voted_for # None
    BY ZenonT(30) DEF VoteRemembered, SameTerm
  <2>2. Standing(a) /\ state'[a].current_term = state[a].current_term
    BY ZenonT(30), <1>2, <2>1
  <2>3. CASE v # n
    BY ZenonT(30), <1>1, <2>1, <2>2, <2>3 DEF IInv, Core, VoteRemembered, SameTerm
  <2>4. ASSUME v = n PROVE a # n
    BY ZenonT(30), <2>1, <2>4, TermBounds DEF IInv, Core
  <2>5. CASE v = n /\ t.current_term > state[n].current_term
    <3>1. t.current_term <= state[n].current_term
      BY ZenonT(30), <1>1, <2>1, <2>5, TermBounds DEF IInv, Core
    <3>2. QED
      BY SMTT(30), <2>5, <3>1, StateFields DEF IInv, TypeOK
  <2>6. CASE /\ v = n
             /\ t.current_term = state[n].current_term
             /\ t.voted_for = state[n].voted_for
    BY SMTT(30), <1>1, <2>1, <2>2, <2>6 DEF IInv, Core, VoteRemembered, SameTerm
  <2>7. CASE /\ v = n
             /\ t.current_term = state[n].current_term
             /\ state[n].type # "follower" \/ state[n].president
    <3>1. Granted(msgs, n, a, state[n].current_term)
      BY ZenonT(30), <1>1, <2>1, <2>7
    <3>2. SameTerm(n, a)
      BY ZenonT(30), <1>1, <2>1, <2>2, <2>7 DEF SameTerm
    <3>3. state[n].president
      BY ZenonT(30), <2>7, <3>1 DEF IInv, Core, StandingGrantsNobody
    <3>4. Incumbent(n) /\ n \in state[n].vote_granted
      BY ZenonT(30), <3>3 DEF IInv, Core, VotesAreGranted, Incumbent, Standing
    <3>5. ~Candidate(a)
      BY ZenonT(30), <3>1, <3>2, <3>4 DEF IInv, Core, IncumbentKeepsVoters, SameTerm
    <3>6. ~Incumbent(a)
      BY ZenonT(30), <2>4, <2>7, <3>2, <3>4 DEF IInv, Core, OneIncumbentPerTerm
    <3>7. QED
      BY ZenonT(30), <2>2, <3>5, <3>6 DEF Standing
  <2>8. QED
    BY ZenonT(30), <2>3, <2>5, <2>6, <2>7
<1>5. VoteWasGranted'
  BY <1>1 DEF IInv, Core, VoteWasGranted
<1>6. FollowedHasLed'
  BY SMTT(30), <1>1 DEF IInv, Core, FollowedHasLed
<1>7. CandidateHasNotLed'
  BY ZenonT(30), <1>1, <1>2 DEF IInv, Core, CandidateHasNotLed
<1>8. VotesAreGranted'
  BY ZenonT(30), <1>2 DEF IInv, Core, VotesAreGranted
<1>9. IncumbentHasQuorum'
  BY ZenonT(30), <1>2 DEF IInv, Core, IncumbentHasQuorum, Quorum
<1>10. CandidatesShareNoVoter'
  BY <1>1, <1>2, SMTT(40) DEF IInv, Core, CandidatesShareNoVoter, SameTerm
<1>11. IncumbentKeepsVoters'
  <2>1. SUFFICES ASSUME NEW x \in Node, NEW y \in Node, NEW v \in state'[x].vote_granted,
                        Incumbent(x)', Candidate(y)',
                        state'[x].current_term = state'[y].current_term,
                        Granted(msgs', v, y, state'[y].current_term)
        PROVE  FALSE
    BY ZenonT(30) DEF IncumbentKeepsVoters, SameTerm
  <2>2. /\ Incumbent(x) /\ Candidate(y) /\ SameTerm(x, y) /\ v \in state[x].vote_granted
        /\ state'[y] = state[y]
    BY ZenonT(30), <1>1, <1>2, <2>1 DEF SameTerm
  <2>3. QED
    BY ZenonT(30), <2>1, <2>2 DEF IInv, Core, IncumbentKeepsVoters
<1>12. OneIncumbentPerTerm'
  <2>1. SUFFICES ASSUME NEW x \in Node, NEW y \in Node, Incumbent(x)', Incumbent(y)',
                        state'[x].current_term = state'[y].current_term
        PROVE  x = y
    BY ZenonT(30) DEF OneIncumbentPerTerm, SameTerm
  <2>2. Incumbent(x) /\ Incumbent(y) /\ SameTerm(x, y)
    BY <1>1, <1>2, <2>1 DEF SameTerm
  <2>3. QED
    BY ZenonT(30), <2>2 DEF IInv, Core, OneIncumbentPerTerm
<1>13. QED
  BY ZenonT(30), <1>3, <1>4, <1>5, <1>6, <1>7, <1>8, <1>9, <1>10, <1>11, <1>12 DEF Core

\* A step in which n stands for election in the next term.
LEMMA Stands ==
    ASSUME Majorities, IInv, PacketTerms', NEW n \in Node, NEW t,
           state' = [state EXCEPT ![n] = t],
           t.type = IF Quorum > 1 THEN "candidate" ELSE "leader",
           t.current_term = state[n].current_term + 1,
           t.voted_for = n, t.vote_granted = {n}, ~t.president,
           \A v, a, tau : Granted(msgs', v, a, tau) <=> Granted(msgs, v, a, tau),
           \A a, tau : Led(msgs', a, tau) <=> Led(msgs, a, tau)
    PROVE  Core'
<1>. USE NodeAssumption
<1>. DEFINE term == state[n].current_term + 1
<1>1. /\ state'[n] = t
      /\ \A i \in Node : i # n => state'[i] = state[i]
      /\ \A i \in Node \ {n} : /\ Candidate(i)' <=> Candidate(i)
                               /\ Incumbent(i)' <=> Incumbent(i)
                               /\ Standing(i)' <=> Standing(i)
  BY DEF IInv, TypeOK, Candidate, Incumbent, Standing
<1>2. ~(term <= state[n].current_term)
  BY StateFields DEF IInv, TypeOK
<1>3. \A i : /\ ~Granted(msgs, n, i, term)
             /\ ~Granted(msgs, i, n, term)
             /\ ~Led(msgs, n, term)
  BY SMTT(30), <1>2, TermBounds DEF IInv, Core
<1>4. Incumbent(n)' => \A a, b \in Node : a = b /\ Cardinality({a}) >= Quorum
  BY ZenonT(30), <1>1 DEF Majorities, Incumbent
<1>5. t.current_term = term
  BY SMTT(30)
<1>. HIDE DEF term
<1>6. StandingGrantsNobody'
  BY <1>1, <1>3, <1>5, SMTT(40) DEF IInv, Core, StandingGrantsNobody
<1>7. VoteRemembered'
  BY <1>1, <1>3, <1>5, SMTT(40) DEF IInv, Core, VoteRemembered, SameTerm
<1>8. VoteWasGranted'
  BY <1>1, SMTT(40) DEF IInv, Core, VoteWasGranted
<1>9. FollowedHasLed'
  BY <1>1, SMTT(40) DEF IInv, Core, FollowedHasLed
<1>10. CandidateHasNotLed'
  BY <1>1, <1>3, <1>5, SMTT(40) DEF IInv, Core, CandidateHasNotLed
<1>11. VotesAreGranted'
  BY <1>1, SMTT(40) DEF IInv, Core, VotesAreGranted
<1>12. IncumbentHasQuorum'
  <2>1. Incumbent(n)' => Cardinality({n}) >= Quorum
    BY ZenonT(30), <1>4
  <2>2. QED
    BY <1>1, <2>1, ZenonT(60) DEF IInv, Core, IncumbentHasQuorum, Quorum
<1>13. CandidatesShareNoVoter'
  BY <1>1, <1>3, <1>5, SMTT(40) DEF IInv, Core, CandidatesShareNoVoter, SameTerm
<1>14. IncumbentKeepsVoters'
  <2>1. SUFFICES ASSUME NEW a \in Node, NEW b \in Node, NEW v \in state'[a].vote_granted,
                        Incumbent(a)', Candidate(b)',
                        state'[a].current_term = state'[b].current_term,
                        Granted(msgs, v, b, state'[b].current_term)
        PROVE  FALSE
    BY ZenonT(30) DEF IncumbentKeepsVoters, SameTerm
  <2>2. b # n
    BY SMTT(40), <1>1, <1>3, <1>5, <2>1
  <2>3. a # n
    BY ZenonT(30), <1>4, <2>1, <2>2
  <2>4. QED
    BY ZenonT(30), <1>1, <2>1, <2>2, <2>3 DEF IInv, Core, IncumbentKeepsVoters, SameTerm
<1>15. OneIncumbentPerTerm'
  <2>1. SUFFICES ASSUME NEW a \in Node, NEW b \in Node, Incumbent(a)', Incumbent(b)',
                        SameTerm(a, b)'
                 PROVE  a = b
    BY ZenonT(30) DEF OneIncumbentPerTerm
  <2>2. CASE a # n /\ b # n
    BY ZenonT(30), <1>1, <2>1, <2>2 DEF IInv, Core, OneIncumbentPerTerm, SameTerm
  <2>3. CASE a = n \/ b = n
    BY ZenonT(30), <1>4, <2>1, <2>3
  <2>4. QED
    BY ZenonT(30), <2>2, <2>3
<1>16. QED
  BY ZenonT(30), <1>6, <1>7, <1>8, <1>9, <1>10, <1>11, <1>12, <1>13, <1>14, <1>15 DEF Core

\* A step in which the follower n grants its vote to b: in a newer term than
\* its own, or in its term to the leader it follows, or to the node it voted
\* for, or as its first vote.
LEMMA Votes ==
    ASSUME IInv, PacketTerms', NEW n \in Node, NEW t \in RaftState,
           NEW b \in Node, b # n,
           state' = [state EXCEPT ![n] = t],
           t.type = "follower",
           t.voted_for = b,
           t.vote_granted = state[n].vote_granted,
           \/ /\ t.current_term > state[n].current_term
              /\ ~t.president /\ t.leader_id = None
           \/ /\ t.current_term = state[n].current_term
              /\ state[n].type = "follower"
              /\ t.president = state[n].president
              /\ t.leader_id = state[n].leader_id
              /\ state[n].leader_id = b \/ state[n].voted_for \in {None, b},
           Granted(msgs', n, b, t.current_term),
           \A v, a, tau : Granted(msgs, v, a, tau) => Granted(msgs', v, a, tau),
           \A v, a, tau : Granted(msgs', v, a, tau) =>
              \/ Granted(msgs, v, a, tau)
              \/ v = n /\ a = b /\ tau = t.current_term,
           \A a, tau : Led(msgs', a, tau) <=> Led(msgs, a, tau)
    PROVE  Core'
<1>. USE NodeAssumption
<1>1. /\ state'[n] = t
      /\ \A i \in Node : i # n => state'[i] = state[i]
  BY ZenonT(30) DEF IInv, TypeOK
<1>2. \A i \in Node : /\ Candidate(i)' => Candidate(i) /\ i # n
                      /\ Incumbent(i)' =>
                           /\ Incumbent(i)
                           /\ state'[i].current_term = state[i].current_term
                      /\ Standing(i)' =>
                           /\ Standing(i)
                           /\ state'[i].current_term = state[i].current_term
                      /\ state'[i].vote_granted = state[i].vote_granted
                      /\ state[i].voted_for # None => state'[i].voted_for # None
  BY ZenonT(30), <1>1 DEF Candidate, Incumbent, Standing
<1>3. t.current_term > state[n].current_term =>
        \A a : ~Granted(msgs, n, a, t.current_term)
  <2>1. t.current_term > state[n].current_term
          => ~(t.current_term <= state[n].current_term)
    BY StateFields, SMTT(40) DEF IInv, TypeOK
  <2>2. QED
    BY <2>1, TermBounds, SMTT(40) DEF IInv, Core
\* If b is a candidate and n has voted in this term, it has voted for b.
<1>4. ASSUME Candidate(b), state[b].current_term = t.current_term,
             t.current_term = state[n].current_term, state[n].voted_for # None
      PROVE  Granted(msgs, n, b, t.current_term)
  <2>1. state[n].leader_id # b
    BY <1>3, <1>4, StateFields, SMTT(40) DEF IInv, Core, TypeOK, FollowedHasLed, CandidateHasNotLed
  <2>2. state[n].voted_for = b
    BY <1>4, <2>1, StateFields, SMTT(40) DEF IInv, TypeOK
  <2>3. QED
    BY <1>4, <2>2, SMTT(40) DEF IInv, Core, VoteWasGranted
\* A vote of n for a standing node of this term is remembered.
<1>5. ASSUME NEW a \in Node, Standing(a), state[a].current_term = t.current_term,
             Granted(msgs, n, a, t.current_term)
      PROVE  t.current_term = state[n].current_term /\ state[n].voted_for # None
  <2>1. t.current_term = state[n].current_term
    BY ZenonT(30), <1>3, <1>5
  <2>2. QED
    BY <1>5, <2>1, SMTT(40) DEF IInv, Core, VoteRemembered, SameTerm
<1>6. StandingGrantsNobody'
  BY <1>1, SMTT(40) DEF IInv, Core, StandingGrantsNobody
<1>7. VoteRemembered'
  <2>1. SUFFICES ASSUME NEW v \in Node, NEW a \in Node, v # n,
                        Granted(msgs', v, a, state'[v].current_term),
                        state'[v].current_term = state'[a].current_term, Standing(a)'
        PROVE  state'[v].voted_for # None
    BY ZenonT(90), <1>1 DEF VoteRemembered, SameTerm
  <2>2. /\ Granted(msgs, v, a, state[v].current_term) /\ SameTerm(v, a) /\ Standing(a)
        /\ state'[v] = state[v]
    BY ZenonT(30), <1>1, <1>2, <2>1 DEF SameTerm
  <2>3. QED
    BY ZenonT(30), <2>2 DEF IInv, Core, VoteRemembered
<1>8. VoteWasGranted'
  BY <1>1, SMTT(40) DEF IInv, Core, VoteWasGranted
<1>9. FollowedHasLed'
  BY <1>1, SMTT(40) DEF IInv, Core, FollowedHasLed
<1>10. CandidateHasNotLed'
  BY ZenonT(30), <1>1, <1>2 DEF IInv, Core, CandidateHasNotLed
<1>11. VotesAreGranted'
  BY ZenonT(30), <1>2 DEF IInv, Core, VotesAreGranted
<1>12. IncumbentHasQuorum'
  BY ZenonT(30), <1>2 DEF IInv, Core, IncumbentHasQuorum, Quorum
<1>13. CandidatesShareNoVoter'
  <2>1. SUFFICES ASSUME NEW x \in Node, NEW y \in Node, NEW v \in Node, x # y,
                        Candidate(x)', Candidate(y)',
                        state'[x].current_term = state'[y].current_term,
                        Granted(msgs', v, x, state'[x].current_term),
                        Granted(msgs', v, y, state'[y].current_term)
        PROVE  FALSE
    BY ZenonT(60) DEF CandidatesShareNoVoter, SameTerm
  <2>2. /\ Candidate(x) /\ Candidate(y) /\ SameTerm(x, y)
        /\ state'[x] = state[x] /\ state'[y] = state[y]
    BY ZenonT(60), <1>1, <1>2, <2>1 DEF SameTerm
  <2>3. ASSUME NEW z \in {x, y}, Granted(msgs, n, z, t.current_term),
               state[z].current_term = t.current_term, Candidate(b), SameTerm(z, b)
        PROVE  Granted(msgs, n, b, t.current_term)
    BY ZenonT(30), <1>4, <1>5, <2>2, <2>3 DEF Standing, SameTerm
  <2>4. Granted(msgs, v, x, state[x].current_term)
        /\ Granted(msgs, v, y, state[y].current_term)
    BY <2>1, <2>2, <2>3, SMTT(40) DEF SameTerm
  <2>5. QED
    BY ZenonT(30), <2>1, <2>2, <2>4 DEF IInv, Core, CandidatesShareNoVoter
<1>14. IncumbentKeepsVoters'
  <2>1. SUFFICES ASSUME NEW x \in Node, NEW y \in Node, NEW v \in state'[x].vote_granted,
                        Incumbent(x)', Candidate(y)',
                        state'[x].current_term = state'[y].current_term,
                        Granted(msgs', v, y, state'[y].current_term)
        PROVE  FALSE
    BY ZenonT(30) DEF IncumbentKeepsVoters, SameTerm
  <2>2. /\ Incumbent(x) /\ Candidate(y) /\ SameTerm(x, y) /\ y # n
        /\ state'[y] = state[y] /\ v \in state[x].vote_granted
        /\ state'[x].current_term = state[x].current_term
    BY ZenonT(30), <1>1, <1>2, <2>1 DEF SameTerm
  <2>3. ~Granted(msgs, v, y, state[y].current_term)
    BY SMTT(30), <2>2 DEF IInv, Core, IncumbentKeepsVoters
  <2>4. v = n /\ y = b /\ state[y].current_term = t.current_term
    BY ZenonT(60), <2>1, <2>2, <2>3
  <2>5. t.current_term = state[n].current_term /\ state[n].voted_for # None
    <3>1. CASE x = n
      BY ZenonT(60), <1>1, <2>2, <2>4, <3>1 DEF IInv, Core, VotesAreGranted, Standing, SameTerm
    <3>2. CASE x # n
      <4>1. Granted(msgs, n, x, state[x].current_term)
        BY ZenonT(60), <2>2, <2>4, <3>2 DEF IInv, Core, VotesAreGranted, Standing
      <4>2. QED
        BY ZenonT(60), <1>5, <2>2, <2>4, <4>1 DEF Standing, SameTerm
    <3>3. QED  BY SMTT(30), <3>1, <3>2
  <2>6. QED
    BY ZenonT(30), <1>4, <2>2, <2>3, <2>4, <2>5
<1>15. OneIncumbentPerTerm'
  <2>1. SUFFICES ASSUME NEW x \in Node, NEW y \in Node, Incumbent(x)', Incumbent(y)',
                        state'[x].current_term = state'[y].current_term
        PROVE  x = y
    BY SMTT(30) DEF OneIncumbentPerTerm, SameTerm
  <2>2. Incumbent(x) /\ Incumbent(y) /\ SameTerm(x, y)
    BY ZenonT(60), <1>1, <1>2, <2>1 DEF SameTerm
  <2>3. QED
    BY ZenonT(30), <2>2 DEF IInv, Core, OneIncumbentPerTerm
<1>16. QED
  BY ZenonT(30), <1>6, <1>7, <1>8, <1>9, <1>10, <1>11, <1>12, <1>13, <1>14, <1>15 DEF Core

\* A step in which the candidate n counts votes that were granted to it, and
\* becomes Leader when a quorum has voted for it.
LEMMA Counts ==
    ASSUME Majorities, IInv, PacketTerms', NEW n \in Node, NEW t \in RaftState,
           state' = [state EXCEPT ![n] = t],
           Candidate(n),
           t.current_term = state[n].current_term,
           t.voted_for = state[n].voted_for,
           t.president = state[n].president,
           n \in t.vote_granted,
           \A v \in t.vote_granted \ {n} :
              Granted(msgs, v, n, state[n].current_term),
           \/ /\ t.type = "candidate"
              /\ \A a, tau : Led(msgs', a, tau) <=> Led(msgs, a, tau)
           \/ /\ t.type = "leader"
              /\ Cardinality(t.vote_granted) >= Quorum,
           \A v, a, tau : Granted(msgs', v, a, tau) <=> Granted(msgs, v, a, tau),
           \A a, tau : Led(msgs, a, tau) => Led(msgs', a, tau),
           \A a, tau : Led(msgs', a, tau) => Led(msgs, a, tau) \/ a = n
    PROVE  Core'
<1>. USE NodeAssumption
<1>1. /\ state'[n] = t
      /\ \A i \in Node : i # n => state'[i] = state[i]
      /\ \A i \in Node : state'[i].current_term = state[i].current_term
  BY ZenonT(30) DEF IInv, TypeOK
<1>2. /\ ~state[n].president /\ ~Incumbent(n)
      /\ Candidate(n)' <=> t.type = "candidate"
      /\ Incumbent(n)' <=> t.type = "leader"
      /\ Standing(n) /\ Standing(n)'
      /\ \A i \in Node \ {n} : /\ Candidate(i)' <=> Candidate(i)
                               /\ Incumbent(i)' <=> Incumbent(i)
                               /\ Standing(i)' <=> Standing(i)
  BY ZenonT(30), <1>1 DEF IInv, Core, CandidateHasNotLed, Candidate, Incumbent, Standing
<1>3. StandingGrantsNobody'
  BY ZenonT(90), <1>1 DEF IInv, Core, StandingGrantsNobody, Candidate
<1>4. VoteRemembered'
  <2>1. SUFFICES ASSUME NEW v \in Node, NEW a \in Node,
                        Granted(msgs, v, a, state[v].current_term),
                        state[v].current_term = state[a].current_term, Standing(a)'
        PROVE  state'[v].voted_for # None
    BY SMTT(30), <1>1 DEF VoteRemembered, SameTerm
  <2>2. Standing(a)
    BY ZenonT(60), <1>2, <2>1
  <2>3. state[v].voted_for # None
    BY ZenonT(30), <2>1, <2>2 DEF IInv, Core, VoteRemembered, SameTerm
  <2>4. QED
    BY ZenonT(30), <1>1, <2>3
<1>5. VoteWasGranted'
  BY <1>1, SMTT(40) DEF IInv, Core, VoteWasGranted
<1>6. FollowedHasLed'
  BY <1>1, SMTT(40) DEF IInv, Core, FollowedHasLed
<1>7. CandidateHasNotLed'
  BY <1>1, <1>2, ZenonT(60) DEF IInv, Core, CandidateHasNotLed
<1>8. VotesAreGranted'
  <2>1. SUFFICES ASSUME NEW i \in Node, Standing(i)'
        PROVE  /\ state'[i].voted_for # None
               /\ i \in state'[i].vote_granted
               /\ \A v \in state'[i].vote_granted \ {i} :
                    Granted(msgs', v, i, state'[i].current_term)
    BY ZenonT(30) DEF VotesAreGranted
  <2>2. VotesAreGranted
    BY ZenonT(30) DEF IInv, Core
  <2>3. CASE i = n
    BY ZenonT(60), <1>1, <1>2, <2>2, <2>3 DEF VotesAreGranted
  <2>4. CASE i # n
    <3>1. state'[i] = state[i] /\ Standing(i)
      BY ZenonT(30), <1>1, <1>2, <2>1, <2>4
    <3>2. QED
      BY ZenonT(60), <2>2, <3>1 DEF VotesAreGranted
  <2>5. QED
    BY ZenonT(30), <2>3, <2>4
<1>9. IncumbentHasQuorum'
  <2>1. SUFFICES ASSUME NEW a \in Node, Incumbent(a)'
        PROVE  Cardinality(state'[a].vote_granted) >= Quorum
    BY DEF IncumbentHasQuorum, Quorum
  <2>2. CASE a = n
    BY ZenonT(30), <1>1, <1>2, <2>1, <2>2
  <2>3. CASE a # n
    BY ZenonT(60), <1>1, <1>2, <2>1, <2>3 DEF IInv, Core, IncumbentHasQuorum
  <2>4. QED  BY <2>2, <2>3
<1>10. CandidatesShareNoVoter'
  <2>1. SUFFICES ASSUME NEW a \in Node, NEW b \in Node, NEW v \in Node, a # b,
                        Candidate(a)', Candidate(b)',
                        state[a].current_term = state[b].current_term,
                        Granted(msgs, v, a, state[a].current_term),
                        Granted(msgs, v, b, state[b].current_term)
        PROVE  FALSE
    BY ZenonT(60), <1>1 DEF CandidatesShareNoVoter, SameTerm
  <2>2. Candidate(a) /\ Candidate(b)
    BY ZenonT(30), <1>2, <2>1
  <2>3. QED
    BY ZenonT(60), <2>1, <2>2 DEF IInv, Core, CandidatesShareNoVoter, SameTerm
<1>11. IncumbentKeepsVoters'
  <2>1. SUFFICES ASSUME NEW a \in Node, NEW b \in Node, NEW v \in state'[a].vote_granted,
                        Incumbent(a)', Candidate(b)',
                        state[a].current_term = state[b].current_term,
                        Granted(msgs, v, b, state[b].current_term)
        PROVE  FALSE
    BY ZenonT(60), <1>1 DEF IncumbentKeepsVoters, SameTerm
  <2>2. Candidate(b)
    BY ZenonT(60), <1>2, <2>1
  <2>3. CASE a # n
    BY ZenonT(60), <1>1, <1>2, <2>1, <2>2, <2>3 DEF IInv, Core, IncumbentKeepsVoters, SameTerm
  <2>4. CASE a = n
    <3>1. b # n /\ v \in t.vote_granted /\ v \in Node
      BY ZenonT(60), <1>1, <1>2, <2>1, <2>4, StateFields
    <3>2. v # n
      BY ZenonT(30), <2>1, <2>4, <3>1 DEF IInv, Core, StandingGrantsNobody, Candidate
    <3>3. Granted(msgs, v, n, state[n].current_term)
      BY ZenonT(30), <3>1, <3>2
    <3>4. QED
      BY ZenonT(60), <2>1, <2>2, <2>4, <3>1, <3>3 DEF IInv, Core, CandidatesShareNoVoter, SameTerm
  <2>5. QED  BY SMTT(30), <2>3, <2>4
<1>12. OneIncumbentPerTerm'
  <2>1. ASSUME t.type = "leader", NEW a \in Node, a # n, Incumbent(a), SameTerm(a, n)
        PROVE  FALSE
    <3>1. /\ state[a].vote_granted \in SUBSET Node /\ t.vote_granted \in SUBSET Node
          /\ Cardinality(state[a].vote_granted) >= Quorum
          /\ Cardinality(t.vote_granted) >= Quorum
      BY ZenonT(30), <2>1, StateFields DEF IInv, Core, TypeOK, IncumbentHasQuorum
    <3>2. PICK w \in Node : w \in state[a].vote_granted /\ w \in t.vote_granted
      BY ZenonT(30), <3>1 DEF Majorities
    <3>3. ~Granted(msgs, w, n, state[n].current_term)
      BY ZenonT(30), <2>1, <3>2 DEF IInv, Core, IncumbentKeepsVoters
    <3>4. w = n
      BY ZenonT(30), <3>2, <3>3
    <3>5. Granted(msgs, n, a, state[n].current_term)
      BY ZenonT(30), <2>1, <3>2, <3>4 DEF IInv, Core, VotesAreGranted, Standing, SameTerm
    <3>6. QED
      BY ZenonT(30), <3>5 DEF IInv, Core, StandingGrantsNobody, Candidate
  <2>2. SUFFICES ASSUME NEW a \in Node, NEW b \in Node, Incumbent(a)', Incumbent(b)',
                        SameTerm(a, b), a # b
        PROVE  FALSE
    BY SMTT(30), <1>1 DEF OneIncumbentPerTerm, SameTerm
  <2>3. CASE a # n /\ b # n
    BY ZenonT(60), <1>2, <2>2, <2>3 DEF IInv, Core, OneIncumbentPerTerm
  <2>4. CASE a = n
    BY ZenonT(30), <1>2, <2>1, <2>2, <2>4 DEF SameTerm
  <2>5. CASE b = n
    BY <1>2, <2>1, <2>2, <2>5 DEF SameTerm
  <2>6. QED  BY ZenonT(30), <2>3, <2>4, <2>5
<1>13. QED
  BY ZenonT(30), <1>3, <1>4, <1>5, <1>6, <1>7, <1>8, <1>9, <1>10, <1>11, <1>12 DEF Core

-----------------------------------------------------------------------------
(* Every action keeps the invariant.                                       *)

\* ElectionTimeout starts a new term with the node's own vote.
LEMMA InvElectionTimeout ==
    ASSUME Majorities, IInv, NEW n \in Node, ~state[n].president, ElectionTimeout(n)
    PROVE  IInv'
<1>1. PICK version \in NodeGetVersion(n) :
        LET s == Stand(n, state[n], version)
         IN  /\ state' = [state EXCEPT ![n] = s]
             /\ msgs' = msgs \cup (IF Quorum > 1
                                   THEN SendRequestForVotes(n, s) ELSE {})
  BY ZenonT(60) DEF ElectionTimeout
<1>. DEFINE t == Stand(n, state[n], version)
            new == IF Quorum > 1 THEN SendRequestForVotes(n, t) ELSE {}
<1>2. state[n] \in RaftState /\ state[n].current_term < MaxTerm
  BY DEF IInv, TypeOK, ElectionTimeout
<1>3. version \in 0..MaxVersion
  BY SMTT(30), VersionType DEF IInv
<1>4. /\ t \in RaftState
      /\ t.type = IF Quorum > 1 THEN "candidate" ELSE "leader"
      /\ t.current_term = state[n].current_term + 1
      /\ t.voted_for = n /\ t.vote_granted = {n} /\ ~t.president
  BY SMTT(40), <1>2, <1>3, StandFacts
<1>. HIDE DEF t
<1>5. /\ new \in SUBSET (RpcRequest \cup RpcResponse)
      /\ \A m \in new : /\ m.rpc # "AppendEntries" /\ m.rpc # "RVResponse"
                         /\ m.src = n /\ m.dst # n /\ m.term = t.current_term
  BY <1>4, SentRequests
<1>6. state' = [state EXCEPT ![n] = t] /\ msgs' = msgs \cup new
  BY <1>1 DEF t
<1>. HIDE DEF new
<1>7. TypeOK'
  BY ZenonT(60), <1>4, <1>5, <1>6, TypeOfStep DEF IInv, ElectionTimeout
<1>8. t.current_term >= state[n].current_term
  BY SMTT(40), <1>2, <1>4, StateFields
<1>9. /\ PacketTerms'
      /\ \A v, a, tau : Granted(msgs', v, a, tau) <=> Granted(msgs, v, a, tau)
      /\ \A a, tau : Led(msgs', a, tau) <=> Led(msgs, a, tau)
  <2>1. t \in RaftState
    BY <1>4
  <2>2. QED
    BY ZenonT(60), <1>5, <1>6, <1>8, <2>1, QuietPackets
<1>10. Core'
  BY ZenonT(30), <1>4, <1>6, <1>9, Stands
<1>11. QED
  BY <1>7, <1>10 DEF IInv

\* Heartbeat keeps the role, makes a Leader President, or deposes a President.
LEMMA InvHeartbeat ==
    ASSUME IInv, NEW n \in Node, Heartbeat(n)
    PROVE  IInv'
<1>. DEFINE s == Tick(n, state[n])
            hasQuorum == /\ s.type = "leader"
                         /\ Cardinality(LoyalVotes(s)) >= Quorum
            streak == s.quorum_loss_streak + 1
<1>1. state[n] \in RaftState /\ state[n].local_time < MaxTime
  BY DEF IInv, TypeOK, Heartbeat
<1>2. /\ s \in RaftState
      /\ s.type = state[n].type /\ s.president = state[n].president
      /\ s.voted_for = state[n].voted_for /\ s.leader_id = state[n].leader_id
      /\ s.current_term = state[n].current_term
      /\ s.vote_granted = state[n].vote_granted
  BY <1>1, TickFacts
<1>3. \/ /\ s.president /\ ~hasQuorum
         /\ state' = [state EXCEPT
                        ![n] = [s EXCEPT !.quorum_loss_streak = streak]]
         /\ msgs' = msgs \cup SendHeartbeat(n, s)
      \/ /\ s.president /\ ~hasQuorum
         /\ state' = [state EXCEPT ![n] = StepDownToFollower(s)]
         /\ msgs' = msgs
      \/ /\ s.president => hasQuorum
         /\ state' = [state EXCEPT
                        ![n] = [s EXCEPT !.president = hasQuorum,
                                         !.quorum_loss_streak =
                                            IF s.president THEN 0 ELSE @]]
         /\ msgs' = msgs \cup
              CASE s.type = "candidate" -> SendRequestForVotes(n, s)
                [] s.type = "leader"    -> SendHeartbeat(n, s)
                [] s.type = "follower"  -> {}
  BY ZenonT(30) DEF Heartbeat
<1>4. UNCHANGED meta
  BY DEF Heartbeat
<1>5. hasQuorum \in BOOLEAN /\ (hasQuorum => s.type = "leader")
  OBVIOUS
<1>. HIDE DEF s, hasQuorum
\* A step that keeps the role, for any packets the role may send.
<1>6. ASSUME NEW t \in RaftState, state' = [state EXCEPT ![n] = t],
             t.type = s.type, t.current_term = s.current_term,
             t.voted_for = s.voted_for, t.leader_id = s.leader_id,
             t.vote_granted = s.vote_granted,
             t.president => s.type = "leader" \/ s.president,
             s.president => t.president,
             NEW new \in {SendRequestForVotes(n, s), SendHeartbeat(n, s), {}},
             new = SendHeartbeat(n, s) => s.type = "leader" \/ s.president \/ new = {},
             msgs' = msgs \cup new
      PROVE  IInv'
  <2>1. /\ new \in SUBSET (RpcRequest \cup RpcResponse)
        /\ \A m \in new : /\ m.rpc # "RVResponse" /\ m.src = n /\ m.dst # n
                           /\ m.term = t.current_term
        /\ new # SendHeartbeat(n, s) => \A m \in new : m.rpc # "AppendEntries"
    BY <1>2, <1>6, SentRequests
  <2>2. TypeOK'
    BY ZenonT(30), <1>4, <1>6, <2>1, TypeOfStep DEF IInv
  <2>3. t.current_term >= state[n].current_term
    BY <1>1, <1>2, <1>6, StateFields
  <2>4. /\ PacketTerms'
        /\ \A v, a, tau : Granted(msgs', v, a, tau) <=> Granted(msgs, v, a, tau)
        /\ \A a, tau : Led(msgs, a, tau) => Led(msgs', a, tau)
        /\ \A a, tau : Led(msgs', a, tau) => Led(msgs, a, tau) \/ a = n
        /\ (\A m \in new : m.rpc # "AppendEntries") =>
             \A a, tau : Led(msgs', a, tau) <=> Led(msgs, a, tau)
    BY ZenonT(60), <1>6, <2>1, <2>3, QuietPackets
  <2>5. \A a, tau : Led(msgs', a, tau) =>
          Led(msgs, a, tau) \/ (a = n /\ Incumbent(n))
    BY SMTT(30), <1>2, <1>6, <2>1, <2>4 DEF Incumbent
  <2>6. t.president => Incumbent(n)
    BY <1>2, <1>6 DEF Incumbent
  <2>7. Core'
    BY ZenonT(30), <1>2, <1>6, <2>4, <2>5, <2>6, SameRole
  <2>8. QED
    BY SMTT(30), <2>2, <2>7 DEF IInv
<1>7. CASE /\ s.president
           /\ state' = [state EXCEPT ![n] = [s EXCEPT !.quorum_loss_streak = streak]]
           /\ msgs' = msgs \cup SendHeartbeat(n, s)
  <2>. DEFINE t == [s EXCEPT !.quorum_loss_streak = streak]
  <2>1. streak \in Nat
    BY SMTT(40), <1>2, StateFields
  <2>2. /\ t \in RaftState
        /\ t.type = s.type /\ t.current_term = s.current_term
        /\ t.voted_for = s.voted_for /\ t.leader_id = s.leader_id
        /\ t.vote_granted = s.vote_granted /\ t.president = s.president
    <3>. HIDE DEF streak
    <3>1. QED  BY <1>2, <2>1 DEF RaftState
  <2>. HIDE DEF t, streak
  <2>3. state' = [state EXCEPT ![n] = t]
    BY <1>7 DEF t
  <2>4. QED
    BY ZenonT(60), <1>6, <1>7, <2>2, <2>3
<1>8. CASE /\ s.president
           /\ state' = [state EXCEPT ![n] = StepDownToFollower(s)]
           /\ msgs' = msgs
  <2>. DEFINE t == StepDownToFollower(s)
  <2>1. /\ t \in RaftState
        /\ t.type = "follower" /\ ~t.president
        /\ t.voted_for = None /\ t.leader_id = None
        /\ t.current_term = s.current_term
        /\ t.vote_granted = s.vote_granted
    BY <1>2, StepDownFacts
  <2>. HIDE DEF t
  <2>2. state' = [state EXCEPT ![n] = t]
    BY <1>8 DEF t
  <2>3. TypeOK'
    BY ZenonT(30), <1>4, <1>8, <2>1, <2>2, TypeOfStep DEF IInv
  <2>4. /\ PacketTerms'
        /\ \A v, a, tau : Granted(msgs', v, a, tau) <=> Granted(msgs, v, a, tau)
        /\ \A a, tau : Led(msgs', a, tau) <=> Led(msgs, a, tau)
    <3>1. t.current_term >= state[n].current_term
      BY <1>1, <1>2, <2>1, StateFields
    <3>2. QED
      BY ZenonT(60), <1>8, <2>1, <2>2, <3>1, NoPackets
  <2>5. Core'
    <3>1. /\ t.current_term = state[n].current_term
          /\ t.vote_granted = state[n].vote_granted
          /\ state[n].president
      BY <1>2, <1>8, <2>1
    <3>2. QED
      BY ZenonT(30), <2>1, <2>2, <2>4, <3>1, BecomesFollower
  <2>6. QED
    BY SMTT(30), <2>3, <2>5 DEF IInv
<1>9. CASE /\ s.president => hasQuorum
           /\ state' = [state EXCEPT
                          ![n] = [s EXCEPT !.president = hasQuorum,
                                           !.quorum_loss_streak =
                                              IF s.president THEN 0 ELSE @]]
           /\ msgs' = msgs \cup
                CASE s.type = "candidate" -> SendRequestForVotes(n, s)
                  [] s.type = "leader"    -> SendHeartbeat(n, s)
                  [] s.type = "follower"  -> {}
  <2>. DEFINE st == IF s.president THEN 0 ELSE s.quorum_loss_streak
              t == [s EXCEPT !.president = hasQuorum, !.quorum_loss_streak = st]
              new == CASE s.type = "candidate" -> SendRequestForVotes(n, s)
                       [] s.type = "leader"    -> SendHeartbeat(n, s)
                       [] s.type = "follower"  -> {}
  <2>1. st \in Nat
    BY <1>2, StateFields
  <2>2. state' = [state EXCEPT ![n] = t] /\ msgs' = msgs \cup new
    <3>1. t = [s EXCEPT !.president = hasQuorum,
                        !.quorum_loss_streak = IF s.president THEN 0 ELSE @]
      BY <1>2 DEF RaftState
    <3>2. QED  BY ZenonT(30), <1>9, <3>1
  <2>3. /\ t \in RaftState
        /\ t.type = s.type /\ t.current_term = s.current_term
        /\ t.voted_for = s.voted_for /\ t.leader_id = s.leader_id
        /\ t.vote_granted = s.vote_granted /\ t.president = hasQuorum
    <3>. HIDE DEF st
    <3>1. QED  BY ZenonT(30), <1>2, <1>5, <2>1 DEF RaftState
  <2>4. /\ new \in {SendRequestForVotes(n, s), SendHeartbeat(n, s), {}}
        /\ new = SendHeartbeat(n, s) => s.type = "leader" \/ new = {}
    <3>1. CASE s.type = "candidate"
      <4>1. new = SendRequestForVotes(n, s)
        BY SMTT(30), <3>1
      <4>2. \A m \in SendRequestForVotes(n, s) : m \notin SendHeartbeat(n, s)
        BY <1>2, SentRequests
      <4>3. QED  BY ZenonT(30), <4>1, <4>2
    <3>2. CASE s.type = "leader"
      BY <3>2
    <3>3. CASE s.type = "follower"
      BY <3>3
    <3>4. QED  BY ZenonT(30), <1>2, <3>1, <3>2, <3>3, StateFields
  <2>. HIDE DEF t, new
  <2>5. QED
    BY ZenonT(30), <1>5, <1>6, <1>9, <2>2, <2>3, <2>4
<1>10. QED
  BY ZenonT(30), <1>3, <1>7, <1>8, <1>9

\* A step of the whole invariant that keeps the role of n and sends neither a
\* grant nor an append packet.
LEMMA QuietSame ==
    ASSUME IInv, NEW n \in Node, NEW t \in RaftState,
           state' = [state EXCEPT ![n] = t],
           t.type = state[n].type,
           t.current_term = state[n].current_term,
           t.voted_for = state[n].voted_for,
           t.leader_id = state[n].leader_id,
           t.vote_granted = state[n].vote_granted,
           t.president = state[n].president,
           NEW new \in SUBSET (RpcRequest \cup RpcResponse), msgs' = msgs \cup new,
           \A m \in new :
              /\ m.src = n /\ m.dst # n /\ m.term = t.current_term
              /\ m.rpc = "RVResponse" => ~m.result
              /\ m.rpc # "AppendEntries",
           UNCHANGED meta
    PROVE  IInv'
<1>1. TypeOK'
  BY ZenonT(30), TypeOfStep DEF IInv
<1>2. t.current_term >= state[n].current_term
  BY StateFields
<1>3. /\ PacketTerms'
      /\ \A v, a, tau : Granted(msgs', v, a, tau) <=> Granted(msgs, v, a, tau)
      /\ \A a, tau : Led(msgs', a, tau) <=> Led(msgs, a, tau)
  BY ZenonT(60), <1>2, QuietPackets
<1>4. t.president => Incumbent(n)
  BY SMTT(30) DEF Incumbent
<1>5. Core'
  BY ZenonT(30), <1>3, <1>4, SameRole
<1>6. QED
  BY <1>1, <1>5 DEF IInv

\* The same for a step after which n is a follower.
LEMMA QuietFollower ==
    ASSUME IInv, NEW n \in Node, NEW t \in RaftState,
           state' = [state EXCEPT ![n] = t],
           t.type = "follower",
           t.vote_granted = state[n].vote_granted,
           t.leader_id = None \/ Led(msgs, t.leader_id, t.current_term),
           \/ /\ t.current_term > state[n].current_term
              /\ ~t.president /\ t.voted_for = None
           \/ /\ t.current_term = state[n].current_term
              /\ t.president = state[n].president
              /\ t.voted_for = state[n].voted_for
           \/ /\ t.current_term = state[n].current_term
              /\ ~t.president /\ t.voted_for = None
              /\ state[n].type # "follower" \/ state[n].president,
           NEW new \in SUBSET (RpcRequest \cup RpcResponse), msgs' = msgs \cup new,
           \A m \in new :
              /\ m.src = n /\ m.dst # n /\ m.term = t.current_term
              /\ m.rpc = "RVResponse" => ~m.result
              /\ m.rpc # "AppendEntries",
           UNCHANGED meta
    PROVE  IInv'
<1>1. TypeOK'
  BY ZenonT(60), TypeOfStep DEF IInv
<1>2. t.current_term >= state[n].current_term
  <2>1. state[n] \in RaftState
    BY SMTT(30) DEF IInv, TypeOK
  <2>2. state[n].current_term \in Nat /\ t.current_term \in Nat
    BY SMTT(40), <2>1, StateFields, BoundAssumption
  <2>3. QED
    BY SMTT(40), <2>2
<1>3. /\ PacketTerms'
      /\ \A v, a, tau : Granted(msgs', v, a, tau) <=> Granted(msgs, v, a, tau)
      /\ \A a, tau : Led(msgs', a, tau) <=> Led(msgs, a, tau)
  BY ZenonT(30), <1>2, QuietPackets
<1>4. Core'
  BY ZenonT(30), <1>3, BecomesFollower
<1>5. QED
  BY <1>1, <1>4 DEF IInv

\* LoyaltyExpires touches neither the role nor the vote.
LEMMA InvLoyaltyExpires ==
    ASSUME IInv, NEW n \in Node, LoyaltyExpires(n)
    PROVE  IInv'
<1>. DEFINE t == [state[n] EXCEPT !.loyalty_agreement = FALSE]
<1>1. state[n] \in RaftState
  BY DEF IInv, TypeOK
<1>2. t \in RaftState
  BY ZenonT(30), <1>1 DEF RaftState
<1>3. /\ t.type = state[n].type /\ t.president = state[n].president
      /\ t.voted_for = state[n].voted_for /\ t.leader_id = state[n].leader_id
      /\ t.current_term = state[n].current_term
      /\ t.vote_granted = state[n].vote_granted
  BY <1>1 DEF RaftState
<1>4. /\ state' = [state EXCEPT ![n] = t] /\ UNCHANGED meta
      /\ msgs' = msgs \cup {} /\ {} \in SUBSET (RpcRequest \cup RpcResponse)
      /\ \A m \in {} :
            /\ m.src = n /\ m.dst # n /\ m.term = t.current_term
            /\ m.rpc = "RVResponse" => ~m.result
            /\ m.rpc # "AppendEntries"
  BY DEF LoyaltyExpires
<1>. HIDE DEF t
<1>5. QED
  BY ZenonT(30), <1>2, <1>3, <1>4, QuietSame

\* DemoteLeader makes a standing node a follower of nobody, in the same term.
LEMMA InvDemoteLeader ==
    ASSUME IInv, NEW n \in Node, DemoteLeader(n)
    PROVE  IInv'
<1>. DEFINE t == StepDownToFollower(state[n])
<1>1. state[n] \in RaftState /\ state[n].type # "follower"
  BY DEF IInv, TypeOK, DemoteLeader
<1>2. t \in RaftState
  BY ZenonT(30), <1>1, StepDownFacts
<1>3. /\ t.type = "follower" /\ ~t.president
      /\ t.voted_for = None /\ t.leader_id = None
      /\ t.current_term = state[n].current_term
      /\ t.vote_granted = state[n].vote_granted
  BY SMTT(30), <1>1, StepDownFacts
<1>4. /\ state' = [state EXCEPT ![n] = t] /\ UNCHANGED meta
      /\ msgs' = msgs \cup {} /\ {} \in SUBSET (RpcRequest \cup RpcResponse)
      /\ \A m \in {} :
            /\ m.src = n /\ m.dst # n /\ m.term = t.current_term
            /\ m.rpc = "RVResponse" => ~m.result
            /\ m.rpc # "AppendEntries"
  BY SMTT(30) DEF DemoteLeader
<1>. HIDE DEF t
<1>5. QED
  BY ZenonT(30), <1>1, <1>2, <1>3, <1>4, QuietFollower

\* RejectAppend only answers.
LEMMA InvRejectAppend ==
    ASSUME IInv, NEW m \in msgs, NEW n \in Node, n = m.dst, RejectAppend(n, m)
    PROVE  IInv'
<1>. DEFINE r == [rpc |-> "AEResponse", term |-> state[n].current_term, src |-> n,
                  dst |-> m.src, result |-> FALSE, req_time |-> m.time]
<1>1. m \in RpcRequest /\ m.src \in Node /\ m.src # n
  BY PacketFields DEF IInv, Core, TypeOK, PacketTerms, RejectAppend
<1>2. state[n] \in RaftState
  BY DEF IInv, TypeOK
<1>3. r \in RpcResponse
  BY ZenonT(30), <1>1, <1>2, StateFields DEF RpcRequest, RpcResponse
<1>4. /\ msgs' = msgs \cup {r} /\ UNCHANGED meta
      /\ state' = [state EXCEPT ![n] = state[n]]
  BY SMTT(30) DEF RejectAppend, IInv, TypeOK
<1>5. /\ {r} \in SUBSET (RpcRequest \cup RpcResponse)
      /\ \A p \in {r} :
            /\ p.src = n /\ p.dst # n /\ p.term = state[n].current_term
            /\ p.rpc = "RVResponse" => ~p.result
            /\ p.rpc # "AppendEntries"
  BY SMTT(30), <1>1, <1>3
<1>. HIDE DEF r
<1>6. QED
  BY ZenonT(30), <1>2, <1>4, <1>5, QuietSame

\* RpcAppend makes the receiver a follower of a node that has led its term.
LEMMA InvRpcAppend ==
    ASSUME IInv, NEW m \in msgs, NEW n \in Node, n = m.dst, RpcAppend(n, m)
    PROVE  IInv'
<1>. DEFINE s == CheckTerm(state[n], m.term)
            r == [rpc |-> "AEResponse", term |-> s.current_term, src |-> n,
                  dst |-> m.src, result |-> TRUE, req_time |-> m.time]
<1>1. /\ m \in RpcRequest /\ m.src \in Node /\ m.src # n
      /\ m.rpc = "AppendEntries" /\ m.term \in 0..MaxTerm
      /\ m.term >= state[n].current_term
  BY ZenonT(30), PacketFields DEF IInv, Core, TypeOK, PacketTerms, RpcAppend
<1>2. state[n] \in RaftState /\ state[n].current_term \in Nat /\ m.term \in Nat
  BY <1>1, StateFields, BoundAssumption DEF IInv, TypeOK
<1>3. s \in RaftState
  BY ZenonT(30), <1>1, <1>2, CheckTermFacts
<1>4. /\ s.current_term = m.term /\ s.vote_granted = state[n].vote_granted
      /\ \/ m.term > state[n].current_term /\ ~s.president /\ s.voted_for = None
         \/ m.term = state[n].current_term /\ s = state[n]
  BY SMTT(30), <1>1, <1>2, CheckTermFacts
<1>5. PICK version \in IF n \in Elector
                        THEN {Larger(s.data_version, m.data_version)}
                        ELSE IF m.src # s.leader_id THEN NodeGetVersion(n)
                        ELSE {s.data_version} :
        /\ state' = [state EXCEPT ![n] = Follow(s, m.src, version)]
        /\ msgs' = msgs \cup {r}
  BY ZenonT(60) DEF RpcAppend
<1>. DEFINE t == Follow(s, m.src, version)
<1>6. version \in 0..MaxVersion
  <2>1. m.data_version \in 0..MaxVersion
    BY SMTT(30), <1>1 DEF RpcRequest
  <2>2. s.data_version \in 0..MaxVersion
    BY SMTT(30), <1>3, StateFields
  <2>3. \A w \in NodeGetVersion(n) : w \in 0..MaxVersion
    BY VersionType DEF IInv
  <2>4. QED
    BY SMTT(30), <1>5, <2>1, <2>2, <2>3 DEF Larger
<1>7. r \in RpcResponse
  BY ZenonT(30), <1>1, <1>3, StateFields DEF RpcRequest, RpcResponse
<1>8. state' = [state EXCEPT ![n] = t] /\ msgs' = msgs \cup {r} /\ UNCHANGED meta
  BY ZenonT(60), <1>5 DEF RpcAppend
<1>. HIDE DEF s
<1>9. t \in RaftState
  BY ZenonT(30), <1>1, <1>3, <1>6, FollowFacts
<1>10. /\ t.type = "follower" /\ t.president = s.president
       /\ t.voted_for = s.voted_for /\ t.leader_id = m.src
       /\ t.current_term = m.term
       /\ t.vote_granted = state[n].vote_granted
  <2>1. /\ t.type = "follower" /\ t.president = s.president
        /\ t.voted_for = s.voted_for /\ t.leader_id = m.src
        /\ t.current_term = s.current_term
        /\ t.vote_granted = s.vote_granted
    BY <1>1, <1>3, <1>6, FollowFacts
  <2>2. QED
    BY ZenonT(30), <1>4, <2>1
<1>11. Led(msgs, m.src, m.term)
  BY ZenonT(30), <1>1 DEF Led
<1>. HIDE DEF t
<1>12. /\ {r} \in SUBSET (RpcRequest \cup RpcResponse)
       /\ \A p \in {r} :
             /\ p.src = n /\ p.dst # n /\ p.term = t.current_term
             /\ p.rpc = "RVResponse" => ~p.result
             /\ p.rpc # "AppendEntries"
  BY SMTT(30), <1>1, <1>4, <1>7, <1>10
<1>. HIDE DEF r
<1>13. \/ /\ t.current_term > state[n].current_term
          /\ ~t.president /\ t.voted_for = None
       \/ /\ t.current_term = state[n].current_term
          /\ t.president = state[n].president
          /\ t.voted_for = state[n].voted_for
  BY ZenonT(30), <1>4, <1>10
<1>14. Led(msgs, t.leader_id, t.current_term)
  BY <1>10, <1>11
<1>15. QED
  BY ZenonT(30), <1>8, <1>9, <1>10, <1>12, <1>13, <1>14, QuietFollower

\* The two outcomes of CheckTerm, as a relation between the state t after it
\* and the state u before it.
Checked(u, t) ==
    \/ /\ t.type = u.type /\ t.president = u.president
       /\ t.voted_for = u.voted_for /\ t.leader_id = u.leader_id
       /\ t.current_term = u.current_term
       /\ t.vote_granted = u.vote_granted
    \/ /\ t.current_term > u.current_term
       /\ t.type = "follower" /\ ~t.president
       /\ t.voted_for = None /\ t.leader_id = None
       /\ t.vote_granted = u.vote_granted

\* CheckTerm keeps the role, or makes a follower of a newer term.
LEMMA CheckedTerm ==
    ASSUME NEW s \in RaftState, NEW term \in 0..MaxTerm
    PROVE  Checked(s, CheckTerm(s, term))
<1>1. s.current_term \in Nat /\ term \in Nat
  BY SMTT(30), StateFields, BoundAssumption
<1>2. CASE term <= s.current_term
  BY ZenonT(30), <1>1, <1>2, CheckTermFacts DEF Checked
<1>3. CASE term > s.current_term
  BY ZenonT(30), <1>1, <1>3, CheckTermFacts DEF Checked
<1>4. QED
  BY SMTT(30), <1>1, <1>2, <1>3

\* A step that only checks the term of a packet, and grants no vote.
LEMMA InvChecked ==
    ASSUME IInv, NEW n \in Node, NEW t \in RaftState, Checked(state[n], t),
           state' = [state EXCEPT ![n] = t],
           NEW new \in SUBSET (RpcRequest \cup RpcResponse), msgs' = msgs \cup new,
           \A m \in new :
              /\ m.src = n /\ m.dst # n /\ m.term = t.current_term
              /\ m.rpc = "RVResponse" => ~m.result
              /\ m.rpc # "AppendEntries",
           UNCHANGED meta
    PROVE  IInv'
<1>1. CASE /\ t.type = state[n].type /\ t.president = state[n].president
           /\ t.voted_for = state[n].voted_for
           /\ t.leader_id = state[n].leader_id
           /\ t.current_term = state[n].current_term
           /\ t.vote_granted = state[n].vote_granted
  BY ZenonT(30), <1>1, QuietSame
<1>2. CASE /\ t.current_term > state[n].current_term
           /\ t.type = "follower" /\ ~t.president
           /\ t.voted_for = None /\ t.leader_id = None
           /\ t.vote_granted = state[n].vote_granted
  BY ZenonT(30), <1>2, QuietFollower
<1>3. QED
  BY SMTT(30), <1>1, <1>2 DEF Checked

\* RpcAppendResponse refreshes a heartbeat time and nothing else.
LEMMA InvRpcAppendResponse ==
    ASSUME IInv, NEW m \in msgs, NEW n \in Node, n = m.dst,
           RpcAppendResponse(n, m)
    PROVE  IInv'
<1>. DEFINE s == CheckTerm(state[n], m.term)
            counted == m.term >= s.current_term /\ s.type = "leader"
            t == IF counted THEN Answered(s, m.src, m.req_time) ELSE s
<1>1. m \in RpcResponse /\ m.src \in Node /\ m.term \in 0..MaxTerm
  BY PacketFields DEF IInv, TypeOK, RpcAppendResponse
<1>2. m.req_time \in 0..MaxTime
  BY <1>1 DEF RpcResponse
<1>3. state[n] \in RaftState
  BY DEF IInv, TypeOK
<1>4. s \in RaftState
  BY ZenonT(30), <1>1, <1>3, CheckTermFacts
<1>5. /\ state' = [state EXCEPT ![n] = t] /\ UNCHANGED meta
      /\ msgs' = msgs \cup {} /\ {} \in SUBSET (RpcRequest \cup RpcResponse)
      /\ \A p \in {} :
            /\ p.src = n /\ p.dst # n /\ p.term = t.current_term
            /\ p.rpc = "RVResponse" => ~p.result
            /\ p.rpc # "AppendEntries"
  BY SMTT(30) DEF RpcAppendResponse
<1>. HIDE DEF s, counted
<1>6. t \in RaftState
  BY ZenonT(30), <1>1, <1>2, <1>4, AnsweredFacts
<1>7. /\ t.type = s.type /\ t.president = s.president
      /\ t.voted_for = s.voted_for /\ t.leader_id = s.leader_id
      /\ t.current_term = s.current_term
      /\ t.vote_granted = s.vote_granted
  BY ZenonT(30), <1>1, <1>2, <1>4, AnsweredFacts
<1>. HIDE DEF t
<1>8. Checked(state[n], s)
  BY ZenonT(30), <1>1, <1>3, CheckedTerm DEF s
<1>9. Checked(state[n], t)
  BY <1>7, <1>8 DEF Checked
<1>10. QED
  BY ZenonT(60), <1>5, <1>6, <1>9, InvChecked

\* RpcReqVote refuses, or gives the one vote of the term.
LEMMA InvRpcReqVote ==
    ASSUME IInv, NEW m \in msgs, NEW n \in Node, n = m.dst, RpcReqVote(n, m)
    PROVE  IInv'
<1>. DEFINE c == CheckTerm(state[n], m.term)
<1>1. /\ m \in RpcRequest /\ m.src \in Node /\ m.src # n
      /\ m.term \in 0..MaxTerm /\ m.term <= state[m.src].current_term
  BY ZenonT(30), PacketFields DEF IInv, Core, TypeOK, PacketTerms, RpcReqVote
<1>2. state[n] \in RaftState /\ state[n].current_term \in Nat /\ m.term \in Nat
  BY SMTT(30), <1>1, StateFields, BoundAssumption DEF IInv, TypeOK
<1>3. c \in RaftState
  BY ZenonT(30), <1>1, <1>2, CheckTermFacts
<1>4. \/ m.term <= state[n].current_term /\ c = state[n]
      \/ /\ m.term > state[n].current_term
         /\ c.type = "follower" /\ ~c.president
         /\ c.voted_for = None /\ c.leader_id = None
         /\ c.current_term = m.term
         /\ c.vote_granted = state[n].vote_granted
  BY SMTT(60), <1>1, <1>2, CheckTermFacts
<1>5. PICK version \in IF c.voted_for = None /\ n \notin Elector
                        THEN NodeGetVersion(n) ELSE {c.data_version} :
        LET s == [c EXCEPT !.data_version = version]
        IN  /\ state' = [state EXCEPT
                 ![n] = IF GrantsVote(s, m)
                        THEN [s EXCEPT !.voted_for = m.src] ELSE s]
            /\ msgs' = msgs \cup
                 {[rpc |-> "RVResponse", term |-> s.current_term,
                   src |-> n, dst |-> m.src,
                   result |-> GrantsVote(s, m), req_time |-> m.time]}
  BY ZenonT(30) DEF RpcReqVote
<1>. DEFINE s == [c EXCEPT !.data_version = version]
            grants == GrantsVote(s, m)
            r == [rpc |-> "RVResponse", term |-> s.current_term, src |-> n,
                  dst |-> m.src, result |-> grants, req_time |-> m.time]
<1>6. version \in 0..MaxVersion
  <2>1. \A w \in NodeGetVersion(n) : w \in 0..MaxVersion
    BY SMTT(30), VersionType DEF IInv
  <2>2. c.data_version \in 0..MaxVersion
    BY <1>3, StateFields
  <2>3. QED
    BY ZenonT(30), <1>5, <2>1, <2>2
<1>. HIDE DEF c
<1>7. s \in RaftState
  BY <1>3, <1>6 DEF RaftState
<1>8. /\ s.type = c.type /\ s.president = c.president
      /\ s.voted_for = c.voted_for /\ s.leader_id = c.leader_id
      /\ s.current_term = c.current_term
      /\ s.vote_granted = c.vote_granted
  BY <1>3 DEF RaftState
<1>9. /\ ~grants => state' = [state EXCEPT ![n] = s]
      /\ grants => state' = [state EXCEPT ![n] = [s EXCEPT !.voted_for = m.src]]
  BY ZenonT(30), <1>5
<1>10. msgs' = msgs \cup {r} /\ UNCHANGED meta
  BY SMTT(30), <1>5 DEF RpcReqVote
<1>11. Checked(state[n], s)
  <2>1. Checked(state[n], c)
    BY SMTT(30), <1>1, <1>2, CheckedTerm DEF c
  <2>. HIDE DEF s
  <2>2. QED
    BY SMTT(30), <1>8, <2>1 DEF Checked
<1>. HIDE DEF s
<1>12. grants => /\ s.type = "follower" /\ m.term >= s.current_term
                 /\ s.leader_id = m.src \/ s.voted_for \in {None, m.src}
  BY DEF GrantsVote
<1>13. grants \in BOOLEAN
  BY DEF GrantsVote
<1>. HIDE DEF grants
<1>14. r \in RpcResponse
  BY ZenonT(30), <1>1, <1>7, <1>13, StateFields DEF RpcRequest, RpcResponse
<1>15. CASE ~grants
  <2>1. state' = [state EXCEPT ![n] = s]
    BY SMTT(30), <1>9, <1>15
  <2>2. /\ {r} \in SUBSET (RpcRequest \cup RpcResponse)
        /\ \A p \in {r} :
              /\ p.src = n /\ p.dst # n /\ p.term = s.current_term
              /\ p.rpc = "RVResponse" => ~p.result
              /\ p.rpc # "AppendEntries"
    BY SMTT(30), <1>1, <1>14, <1>15
  <2>. HIDE DEF r
  <2>3. QED
    BY ZenonT(30), <1>7, <1>10, <1>11, <2>1, <2>2, InvChecked
<1>16. CASE grants
  <2>. DEFINE t == [s EXCEPT !.voted_for = m.src]
  <2>1. t \in RaftState
    BY <1>1, <1>7 DEF RaftState
  <2>2. /\ t.type = s.type /\ t.president = s.president
        /\ t.voted_for = m.src /\ t.leader_id = s.leader_id
        /\ t.current_term = s.current_term
        /\ t.vote_granted = s.vote_granted
    BY <1>7 DEF RaftState
  <2>3. state' = [state EXCEPT ![n] = t]
    BY ZenonT(30), <1>9, <1>16
  <2>. HIDE DEF t
  <2>4. /\ s.current_term >= state[n].current_term
        /\ s.current_term <= m.term
    BY SMTT(40), <1>2, <1>4, <1>8, <1>12, <1>16
  <2>5. s.current_term \in Nat /\ state[m.src].current_term \in Nat
    BY <1>1, <1>7, StateFields, BoundAssumption, SMTT(40) DEF IInv, TypeOK
  <2>6. /\ r.src = n /\ r.dst = m.src /\ r.term = t.current_term
        /\ r.rpc = "RVResponse" /\ r.result
    BY SMTT(40), <1>16, <2>2
  <2>. HIDE DEF r
  <2>7. TypeOK'
    BY <1>14, <1>10, <2>1, <2>3, TypeOfStep, ZenonT(60) DEF IInv
  <2>8. PacketTerms'
    <3>1. TypeOK /\ PacketTerms
      BY SMTT(40) DEF IInv, Core
    <3>2. t.current_term >= state[n].current_term
      BY ZenonT(30), <2>2, <2>4
    <3>3. m.term <= state[m.src].current_term => t.current_term <= state[m.src].current_term
      BY SMTT(40), <1>2, <2>2, <2>4, <2>5
    <3>4. /\ {r} \in SUBSET (RpcRequest \cup RpcResponse)
          /\ \A p \in {r} :
                /\ p.src = n /\ p.dst # n /\ p.term = t.current_term
                /\ p.rpc = "RVResponse" /\ p.result
                     => p.term <= state[p.dst].current_term
      BY ZenonT(30), <1>1, <1>14, <2>6, <3>3
    <3>5. QED
      BY ZenonT(60), <1>10, <2>1, <2>3, <3>1, <3>2, <3>4, PacketTermsStep
  <2>9. /\ Granted(msgs', n, m.src, t.current_term)
        /\ \A v, a, tau : Granted(msgs, v, a, tau) => Granted(msgs', v, a, tau)
        /\ \A v, a, tau : Granted(msgs', v, a, tau) =>
             \/ Granted(msgs, v, a, tau)
             \/ v = n /\ a = m.src /\ tau = t.current_term
        /\ \A a, tau : Led(msgs', a, tau) <=> Led(msgs, a, tau)
    BY ZenonT(30), <1>10, <2>6 DEF Granted, Led
  <2>10. \/ /\ t.current_term > state[n].current_term
            /\ ~t.president /\ t.leader_id = None
         \/ /\ t.current_term = state[n].current_term
            /\ state[n].type = "follower"
            /\ t.president = state[n].president
            /\ t.leader_id = state[n].leader_id
            /\ state[n].leader_id = m.src \/ state[n].voted_for \in {None, m.src}
    BY ZenonT(30), <1>4, <1>8, <1>12, <1>16, <2>2
  <2>11. t.type = "follower" /\ t.vote_granted = state[n].vote_granted
    BY ZenonT(30), <1>4, <1>8, <1>12, <1>16, <2>2
  <2>12. Core'
    BY ZenonT(60), <1>1, <2>1, <2>2, <2>3, <2>8, <2>9, <2>10, <2>11, Votes
  <2>13. QED
    BY <2>7, <2>12 DEF IInv
<1>17. QED
  BY ZenonT(30), <1>15, <1>16

\* RpcReqVoteResponse counts a vote that was granted to this node in this term.
LEMMA InvRpcReqVoteResponse ==
    ASSUME Majorities, IInv, NEW m \in msgs, NEW n \in Node, n = m.dst,
           RpcReqVoteResponse(n, m)
    PROVE  IInv'
<1>. DEFINE c == CheckTerm(state[n], m.term)
            s == CountVote(c, m)
            t == [s EXCEPT !.type = "leader", !.leader_id = n]
            counted == m.term >= c.current_term /\ c.type = "candidate"
            elected == Cardinality(s.vote_granted) >= Quorum
<1>1. /\ m \in RpcResponse /\ m.src \in Node /\ m.term \in 0..MaxTerm /\ m.src # n
      /\ m.result => m.term <= state[n].current_term
      /\ m.rpc = "RVResponse"
  BY ZenonT(30), PacketFields DEF IInv, Core, TypeOK, PacketTerms, RpcReqVoteResponse
<1>2. state[n] \in RaftState /\ state[n].current_term \in Nat /\ m.term \in Nat
  BY <1>1, StateFields, BoundAssumption, SMTT(40) DEF IInv, TypeOK
<1>3. c \in RaftState
  BY ZenonT(30), <1>1, <1>2, CheckTermFacts
<1>4. Checked(state[n], c) /\ (counted => m.term <= state[n].current_term)
  BY SMTT(40), <1>1, <1>2, CheckedTerm, CheckTermFacts
<1>5. counted => c = state[n] /\ m.term = state[n].current_term
  BY SMTT(60), <1>1, <1>2, <1>4, CheckTermFacts
<1>6. UNCHANGED meta
  BY ZenonT(30) DEF RpcReqVoteResponse
<1>7. \/ /\ ~counted
         /\ state' = [state EXCEPT ![n] = c] /\ msgs' = msgs
      \/ /\ counted /\ ~elected
         /\ state' = [state EXCEPT ![n] = s] /\ msgs' = msgs
      \/ /\ counted /\ elected
         /\ state' = [state EXCEPT ![n] = t]
         /\ msgs' = msgs \cup SendHeartbeat(n, s)
  BY SMTT(40) DEF RpcReqVoteResponse
<1>8. CASE /\ ~counted
           /\ state' = [state EXCEPT ![n] = c] /\ msgs' = msgs
  <2>1. /\ msgs' = msgs \cup {} /\ {} \in SUBSET (RpcRequest \cup RpcResponse)
        /\ \A p \in {} :
              /\ p.src = n /\ p.dst # n /\ p.term = c.current_term
              /\ p.rpc = "RVResponse" => ~p.result
              /\ p.rpc # "AppendEntries"
    BY SMTT(40), <1>8
  <2>. HIDE DEF c, s, t
  <2>2. QED
    BY ZenonT(60), <1>3, <1>4, <1>6, <1>8, <2>1, InvChecked
<1>9. s \in RaftState
  BY ZenonT(60), <1>1, <1>3, CountVoteFacts
<1>10. /\ s.type = c.type /\ s.president = c.president
       /\ s.voted_for = c.voted_for /\ s.leader_id = c.leader_id
       /\ s.current_term = c.current_term
       /\ s.vote_granted = IF m.result THEN c.vote_granted \cup {m.src}
                                       ELSE c.vote_granted \ {m.src}
  BY ZenonT(60), <1>1, <1>3, CountVoteFacts
<1>. HIDE DEF s
<1>11. t \in RaftState
  BY ZenonT(30), <1>9 DEF RaftState
<1>12. /\ t.type = "leader" /\ t.president = s.president
       /\ t.voted_for = s.voted_for
       /\ t.current_term = s.current_term
       /\ t.vote_granted = s.vote_granted
  BY <1>9 DEF RaftState
<1>. HIDE DEF c, t
\* What both counting outcomes share.
<1>13. ASSUME counted
       PROVE  /\ Candidate(n) /\ n \in s.vote_granted
              /\ \A v \in s.vote_granted \ {n} :
                    Granted(msgs, v, n, state[n].current_term)
  <2>1. state[n].type = "candidate" /\ Standing(n)
    BY ZenonT(30), <1>5, <1>13 DEF Standing, Candidate
  <2>2. /\ n \in state[n].vote_granted
        /\ \A v \in state[n].vote_granted \ {n} :
              Granted(msgs, v, n, state[n].current_term)
    BY ZenonT(30), <2>1 DEF IInv, Core, VotesAreGranted
  <2>3. m.result => Granted(msgs, m.src, n, state[n].current_term)
    BY ZenonT(30), <1>1, <1>5, <1>13 DEF Granted
  <2>4. Candidate(n)
    BY <2>1 DEF Candidate
  <2>5. s.vote_granted = IF m.result THEN state[n].vote_granted \cup {m.src}
                                     ELSE state[n].vote_granted \ {m.src}
    BY ZenonT(30), <1>5, <1>10, <1>13
  <2>. HIDE DEF counted
  <2>6. CASE m.result
    <3>1. s.vote_granted = state[n].vote_granted \cup {m.src}
      BY <2>5, <2>6
    <3>2. QED
      BY ZenonT(30), <2>2, <2>3, <2>4, <2>6, <3>1
  <2>7. CASE ~m.result
    <3>1. s.vote_granted = state[n].vote_granted \ {m.src}
      BY ZenonT(30), <2>5, <2>7
    <3>2. QED
      BY ZenonT(30), <1>1, <2>2, <2>4, <3>1
  <2>8. QED
    BY <2>6, <2>7
<1>14. CASE /\ counted /\ ~elected
            /\ state' = [state EXCEPT ![n] = s] /\ msgs' = msgs
  <2>1. TypeOK'
    BY <1>6, <1>9, <1>14, TypeOfStep, ZenonT(60) DEF IInv
  <2>2. s.current_term = state[n].current_term /\ s.voted_for = state[n].voted_for
        /\ s.president = state[n].president /\ s.type = "candidate"
    BY ZenonT(30), <1>5, <1>10, <1>14
  <2>3. s.current_term >= state[n].current_term
    BY SMTT(40), <1>2, <2>2
  <2>4. state' = [state EXCEPT ![n] = s] /\ msgs' = msgs
    BY SMTT(40), <1>14
  <2>5. /\ PacketTerms'
        /\ \A v, a, tau : Granted(msgs', v, a, tau) <=> Granted(msgs, v, a, tau)
        /\ \A a, tau : Led(msgs', a, tau) <=> Led(msgs, a, tau)
    BY ZenonT(60), <1>9, <2>3, <2>4, NoPackets
  <2>6. Core'
    BY ZenonT(60), <1>9, <1>13, <1>14, <2>2, <2>4, <2>5, Counts
  <2>7. QED
    BY <2>1, <2>6, SMTT(40) DEF IInv
<1>15. CASE /\ counted /\ elected
            /\ state' = [state EXCEPT ![n] = t]
            /\ msgs' = msgs \cup SendHeartbeat(n, s)
  <2>. DEFINE new == SendHeartbeat(n, s)
  <2>1. /\ t.current_term = state[n].current_term
        /\ t.voted_for = state[n].voted_for
        /\ t.president = state[n].president
        /\ t.current_term = s.current_term
    BY ZenonT(60), <1>5, <1>10, <1>12, <1>15
  <2>2. /\ new \in SUBSET (RpcRequest \cup RpcResponse)
        /\ \A p \in new : /\ p.rpc # "RVResponse" /\ p.src = n /\ p.dst # n
                           /\ p.term = t.current_term
    BY SMTT(40), <1>9, <2>1, SentRequests
  <2>3. state' = [state EXCEPT ![n] = t] /\ msgs' = msgs \cup new
    BY SMTT(40), <1>15
  <2>. HIDE DEF new
  <2>4. TypeOK'
    BY <1>6, <1>11, <2>2, <2>3, TypeOfStep, ZenonT(60) DEF IInv
  <2>5. t.current_term >= state[n].current_term
    BY SMTT(40), <1>2, <2>1
  <2>6. /\ PacketTerms'
        /\ \A v, a, tau : Granted(msgs', v, a, tau) <=> Granted(msgs, v, a, tau)
        /\ \A a, tau : Led(msgs, a, tau) => Led(msgs', a, tau)
        /\ \A a, tau : Led(msgs', a, tau) => Led(msgs, a, tau) \/ a = n
    <3>1. \A p \in new : /\ p.src = n /\ p.dst # n /\ p.term = t.current_term
                         /\ p.rpc = "RVResponse" => ~p.result
      BY SMTT(40), <2>2
    <3>2. new \in SUBSET (RpcRequest \cup RpcResponse)
      BY SMTT(40), <2>2
    <3>3. QED
      BY ZenonT(60), <1>11, <2>3, <2>5, <3>1, <3>2, QuietPackets
  <2>7. t.type = "leader" /\ Cardinality(t.vote_granted) >= Quorum
    BY ZenonT(30), <1>12, <1>15
  <2>8. /\ Candidate(n) /\ n \in t.vote_granted
        /\ \A v \in t.vote_granted \ {n} :
              Granted(msgs, v, n, state[n].current_term)
    BY ZenonT(30), <1>12, <1>13, <1>15
  <2>9. Core'
    BY ZenonT(60), <1>11, <2>1, <2>3, <2>6, <2>7, <2>8, Counts
  <2>10. QED
    BY <2>4, <2>9 DEF IInv
<1>16. QED
  BY ZenonT(30), <1>7, <1>8, <1>14, <1>15

\* The metadata servers' own steps touch no raft state.
LEMMA InvMetadata ==
    ASSUME IInv, NEW n \in Node, MasterWrites(n) \/ ShadowFollows(n)
    PROVE  IInv'
<1>1. UNCHANGED <<state, msgs>>
  BY DEF MasterWrites, ShadowFollows
<1>2. meta \in [Node -> 0..MaxVersion]
  BY DEF IInv, TypeOK
<1>3. \A p \in Node : meta[p] \in Nat /\ meta[p] <= MaxVersion
  BY SMTT(30), <1>2, BoundAssumption
<1>4. meta[n] < MaxVersion
  BY SMTT(30), <1>3, BoundAssumption DEF MasterWrites, ShadowFollows
<1>5. meta' = [meta EXCEPT ![n] = meta[n] + 1]
  BY DEF MasterWrites, ShadowFollows
<1>6. meta' \in [Node -> 0..MaxVersion]
  BY SMTT(30), <1>2, <1>3, <1>4, <1>5, BoundAssumption
<1>7. TypeOK'
  BY ZenonT(30), <1>1, <1>6 DEF IInv, TypeOK
<1>8. Core'
  BY ZenonT(60), <1>1 DEF IInv, Core, PacketTerms, StandingGrantsNobody, VoteRemembered,
       VoteWasGranted, FollowedHasLed, CandidateHasNotLed, VotesAreGranted,
       IncumbentHasQuorum, CandidatesShareNoVoter, IncumbentKeepsVoters,
       OneIncumbentPerTerm, Standing, Candidate, Incumbent, SameTerm, Quorum
<1>9. QED
  BY <1>7, <1>8 DEF IInv

\* No vote has been given and nobody has led in the initial state.
LEMMA InitInv ==
    ASSUME Init
    PROVE  IInv
<1>1. InitNode \in RaftState
  <2>1. 0 \in 0..MaxTerm /\ LoyalTicks + 1 \in 0..MaxTime /\ 0 \in 0..MaxVersion /\ 0 \in Nat
    BY BoundAssumption
  <2>2. 0 \in 0..MaxTime
    BY BoundAssumption
  <2>3. [i \in Node |-> 0] \in [Node -> 0..MaxTime]
    BY ZenonT(30), <2>2
  <2>4. QED
    BY <2>1, <2>3, ZenonT(30) DEF InitNode, RaftState
<1>2. /\ InitNode.type = "follower" /\ ~InitNode.president
      /\ InitNode.voted_for = None /\ InitNode.leader_id = None
  BY DEF InitNode
<1>3. TypeOK
  <2>1. 0 \in 0..MaxVersion
    BY BoundAssumption
  <2>2. QED
    BY <1>1, <2>1 DEF Init, TypeOK
<1>4. \A n \in Node : state[n] = InitNode
  BY DEF Init
<1>5. msgs = {}
  BY SMTT(30) DEF Init
<1>6. Core
  BY ZenonT(60), <1>2, <1>4, <1>5, NodeAssumption
     DEF Core, PacketTerms, StandingGrantsNobody, VoteRemembered, VoteWasGranted,
         FollowedHasLed, CandidateHasNotLed, VotesAreGranted, IncumbentHasQuorum,
         CandidatesShareNoVoter, IncumbentKeepsVoters, OneIncumbentPerTerm,
         Standing, Candidate, Incumbent, SameTerm, Granted, Led
<1>7. QED
  BY <1>3, <1>6 DEF IInv

\* One step lemma per action.
LEMMA NextInv ==
    ASSUME Majorities, IInv, [Next]_vars
    PROVE  IInv'
<1>1. CASE UNCHANGED vars
  BY ZenonT(60), <1>1 DEF vars, IInv, TypeOK, Core, PacketTerms, StandingGrantsNobody,
       VoteRemembered, VoteWasGranted, FollowedHasLed, CandidateHasNotLed,
       VotesAreGranted, IncumbentHasQuorum, CandidatesShareNoVoter,
       IncumbentKeepsVoters, OneIncumbentPerTerm, Standing, Candidate, Incumbent,
       SameTerm, Quorum
<1>2. ASSUME NEW m \in msgs, Receive(m.dst, m)
      PROVE  IInv'
  <2>1. PICK n \in Node : n = m.dst
    BY ZenonT(30), PacketFields DEF IInv, TypeOK
  <2>2. QED
    BY ZenonT(30), <1>2, <2>1, InvRejectAppend, InvRpcAppend, InvRpcAppendResponse,
       InvRpcReqVote, InvRpcReqVoteResponse DEF Receive
<1>3. ASSUME NEW n \in Node,
             \/ ~state[n].president /\ ElectionTimeout(n)
             \/ Heartbeat(n)
             \/ LoyaltyExpires(n)
             \/ DemoteLeader(n)
             \/ MasterWrites(n)
             \/ ShadowFollows(n)
      PROVE  IInv'
  BY ZenonT(30), <1>3, InvElectionTimeout, InvHeartbeat, InvLoyaltyExpires, InvDemoteLeader,
     InvMetadata
<1>4. QED
  BY ZenonT(30), <1>1, <1>2, <1>3 DEF Next

=============================================================================
