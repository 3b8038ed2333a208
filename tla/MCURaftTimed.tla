---------------------------- MODULE MCURaftTimed ----------------------------
(* Instance of URaftTimed for TLC: three nodes whose heartbeats alternate. *)
EXTENDS URaftTimed

CONSTANTS n1, n2, n3

MCPhase == <<n1, n2>>

\* States that differ only in when a node's clock started, in how long ago an
\* agreement expired, or in what no handler reads any more are the same.
SinceStamp(n, t) == Larger(t - state[n].local_time, -LoyalTicks)

\* An answer of an earlier term, or to a node that is a follower now, changes
\* nothing when it arrives.
Ineffective(m) ==
    /\ m.rpc \in {"AEResponse", "RVResponse"}
    /\ \/ m.term < state[m.dst].current_term
       \/ /\ m.term = state[m.dst].current_term
          /\ \/ state[m.dst].type = "follower"
             \/ m.rpc = "RVResponse" /\ state[m.dst].type = "leader"

PacketView(m) ==
    IF m.rpc \in {"AppendEntries", "RequestVote"}
    THEN [m EXCEPT !.time = SinceStamp(m.src, @)]
    ELSE [m EXCEPT !.req_time = SinceStamp(m.dst, @)]

\* A node that has not voted asks for its version before it uses it.
NodeView(n) ==
    LET s == state[n] IN
    <<s.type, s.current_term, s.voted_for, s.leader_id, s.president,
      s.loyalty_agreement, s.quorum_loss_streak,
      IF s.voted_for = None /\ n \notin Elector THEN 0 ELSE s.data_version,
      [i \in Node |-> SinceStamp(n, s.heartbeat[i])],
      IF s.type = "candidate" THEN s.vote_granted ELSE {},
      meta[n], loyal_left[n],
      IF s.type = "leader" \/ n \in Elector THEN 0 ELSE wait_left[n]>>

View ==
    <<[n \in Node |-> NodeView(n)], slot, due, faults,
      {<<PacketView(m), transit[m]>> : m \in {p \in DOMAIN transit : ~Ineffective(p)}}>>
=============================================================================
