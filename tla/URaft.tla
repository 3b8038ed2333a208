------------------------------- MODULE URaft -------------------------------
(***************************************************************************)
(* uRaft, the leader election of the metadata servers (src/uraft/uraft.cc):*)
(* Raft's election without the log.  A node that a quorum voted for is the *)
(* Leader; a Leader that a quorum of loyal nodes answered recently is the  *)
(* President, and only the President promotes its metadata server.         *)
(*                                                                         *)
(* One handler of the daemon's event loop is one action.  Timers may fire  *)
(* at any moment here (URaftTimed adds the clocks), and UDP packets may be *)
(* lost, duplicated, delayed and reordered: msgs is the set of all packets *)
(* ever sent and a packet in it may be received any number of times.       *)
(*                                                                         *)
(* Left out, because only the status port reads it: node_[i].data_version, *)
(* what a Leader adds to vote_granted and the data_version of answers.     *)
(* node_[i].recv only saves sending a vote request again to a node that    *)
(* answered, and the network may deliver a duplicate of it anyway.  A      *)
(* blocked node (block_leader_promotion_ set) only restarts its election   *)
(* timer when that fires, which is a stuttering step; an elector is        *)
(* blocked for ever.  Assertions are modelled as in a build without them;  *)
(* the properties speak of them.                                           *)
(***************************************************************************)
EXTENDS Integers, FiniteSets

CONSTANTS
    Node,           \* the configured nodes (URAFT_NODE_ADDRESS)
    Elector,        \* those with URAFT_ELECTOR_MODE = 1
    None,           \* the id -1
    LoyalTicks,     \* ELECTION_TIMEOUT_MIN / HEARTBEAT_PERIOD
    Grace,          \* QUORUM_LOSS_GRACE_HEARTBEATS
    VersionTimeout, \* may the metadata-version helper time out?
    MaxTerm,        \* bound: highest term
    MaxTime,        \* bound: highest local_time
    MaxVersion      \* bound: highest metadata version

ASSUME NodeAssumption ==
    /\ IsFiniteSet(Node)
    /\ Node # {}
    /\ Elector \subseteq Node
    /\ None \notin Node

ASSUME BoundAssumption ==
    /\ LoyalTicks \in Nat \ {0}
    /\ Grace \in Nat
    /\ VersionTimeout \in BOOLEAN
    /\ MaxTerm \in Nat
    /\ MaxTime \in Nat /\ MaxTime > LoyalTicks
    /\ MaxVersion \in Nat

VARIABLES
    state,  \* state_, quorum_loss_streak_ and node_ of every daemon
    msgs,   \* packets sent
    meta    \* version of the metadata of every metadata server (electors: 0)

vars == <<state, msgs, meta>>

\* Mutant: half of the nodes are enough.
MutQuorum == Cardinality(Node) \div 2

Quorum == Cardinality(Node) \div 2 + 1

Larger(a, b) == IF a > b THEN a ELSE b

-----------------------------------------------------------------------------
(* The daemon's state and the packets.                                     *)

RaftState ==
    [type               : {"follower", "candidate", "leader"},
     current_term       : 0..MaxTerm,
     voted_for          : Node \cup {None},
     leader_id          : Node \cup {None},
     local_time         : 0..MaxTime,
     president          : BOOLEAN,
     loyalty_agreement  : BOOLEAN,
     data_version       : 0..MaxVersion,
     quorum_loss_streak : Nat,
     heartbeat          : [Node -> 0..MaxTime],
     vote_granted       : SUBSET Node]

RpcRequest ==
    [rpc : {"AppendEntries", "RequestVote"}, term : 0..MaxTerm,
     src : Node, dst : Node, time : 0..MaxTime, data_version : 0..MaxVersion]

RpcResponse ==
    [rpc : {"AEResponse", "RVResponse"}, term : 0..MaxTerm,
     src : Node, dst : Node, result : BOOLEAN, req_time : 0..MaxTime]

\* Mutant: the daemon starts without a loyalty agreement.
MutInitNode ==
    [type |-> "follower", current_term |-> 0, voted_for |-> None,
     leader_id |-> None, local_time |-> LoyalTicks + 1, president |-> FALSE,
     loyalty_agreement |-> FALSE, data_version |-> 0, quorum_loss_streak |-> 0,
     heartbeat |-> [i \in Node |-> 0], vote_granted |-> {}]

\* uRaft::uRaft and init: the daemon starts loyal to nobody in particular,
\* so that an agreement signed before a fast restart can expire.
InitNode ==
    [type |-> "follower", current_term |-> 0, voted_for |-> None,
     leader_id |-> None, local_time |-> LoyalTicks + 1, president |-> FALSE,
     loyalty_agreement |-> TRUE, data_version |-> 0, quorum_loss_streak |-> 0,
     heartbeat |-> [i \in Node |-> 0], vote_granted |-> {}]

Init ==
    /\ state = [n \in Node |-> InitNode]
    /\ msgs = {}
    /\ meta = [n \in Node |-> 0]

-----------------------------------------------------------------------------
(* Helpers of the handlers; s is the state of one daemon.                  *)

\* voteCount(true): the nodes whose last answered heartbeat is recent.
LoyalVotes(s) ==
    {i \in Node : s.local_time - s.heartbeat[i] + 1 <= LoyalTicks}

\* stepDownToFollower without a new term.
StepDownToFollower(s) ==
    [s EXCEPT !.type = "follower", !.president = FALSE, !.voted_for = None,
              !.leader_id = None, !.quorum_loss_streak = 0]

\* checkTerm, called on every packet before its handler.
CheckTerm(s, term) ==
    IF term > s.current_term
    THEN [StepDownToFollower(s) EXCEPT !.current_term = term]
    ELSE s

SendHeartbeat(n, s) ==
    {[rpc |-> "AppendEntries", term |-> s.current_term, src |-> n, dst |-> i,
      time |-> s.local_time, data_version |-> s.data_version] :
        i \in Node \ {n}}

SendRequestForVotes(n, s) ==
    {[rpc |-> "RequestVote", term |-> s.current_term, src |-> n, dst |-> i,
      time |-> s.local_time, data_version |-> s.data_version] :
        i \in Node \ {n}}

\* The metadata-version helper answers with the version of the local metadata
\* or, when it times out or prints nonsense, nodeGetVersion returns 0.
NodeGetVersion(n) ==
    {meta[n]} \cup (IF VersionTimeout THEN {0} ELSE {})

-----------------------------------------------------------------------------
(* Timer handlers.                                                         *)

\* The state in which node n, in state s, stands for election.
Stand(n, s, version) ==
    [s EXCEPT !.type = IF Quorum > 1 THEN "candidate" ELSE "leader",
              !.current_term = s.current_term + 1,
              !.voted_for = n,
              !.vote_granted = {n},
              !.heartbeat = [s.heartbeat EXCEPT ![n] = s.local_time],
              !.data_version = IF Quorum > 1 THEN version ELSE s.data_version]

\* electionTimeout.  A Leader's election timer is cancelled.
ElectionTimeout(n) ==
    /\ n \notin Elector
    /\ state[n].type # "leader"
    /\ state[n].current_term < MaxTerm
    /\ \E version \in NodeGetVersion(n) :
         LET s == Stand(n, state[n], version)
         IN  /\ state' = [state EXCEPT ![n] = s]
             /\ msgs' = msgs \cup (IF Quorum > 1
                                   THEN SendRequestForVotes(n, s) ELSE {})
    /\ UNCHANGED meta

\* Mutant: one heartbeat more than configured is tolerated.
MutQuorumLossTolerated(streak) == streak <= Grace

\* The quorum hysteresis of heartbeat.
QuorumLossTolerated(streak) == streak < Grace

Tick(n, s) ==
    [s EXCEPT !.local_time = s.local_time + 1,
              !.heartbeat = [s.heartbeat EXCEPT ![n] = s.local_time + 1]]

\* heartbeat, every HEARTBEAT_PERIOD.
Heartbeat(n) ==
    /\ state[n].local_time < MaxTime
    /\ LET s == Tick(n, state[n])
           hasQuorum == /\ s.type = "leader"
                        /\ Cardinality(LoyalVotes(s)) >= Quorum
           streak == s.quorum_loss_streak + 1
       IN  \/ /\ s.president /\ ~hasQuorum /\ QuorumLossTolerated(streak)
              /\ state' = [state EXCEPT
                             ![n] = [s EXCEPT !.quorum_loss_streak = streak]]
              /\ msgs' = msgs \cup SendHeartbeat(n, s)
           \/ /\ s.president /\ ~hasQuorum /\ ~QuorumLossTolerated(streak)
              /\ state' = [state EXCEPT ![n] = StepDownToFollower(s)]
              /\ msgs' = msgs
           \/ /\ s.president => hasQuorum
              /\ state' = [state EXCEPT
                             ![n] = [s EXCEPT
                                       !.president = hasQuorum,
                                       !.quorum_loss_streak =
                                           IF s.president THEN 0 ELSE @]]
              /\ msgs' = msgs \cup
                   CASE s.type = "candidate" -> SendRequestForVotes(n, s)
                     [] s.type = "leader"    -> SendHeartbeat(n, s)
                     [] s.type = "follower"  -> {}
    /\ UNCHANGED meta

\* The timer of signLoyaltyAgreement.
LoyaltyExpires(n) ==
    /\ state[n].loyalty_agreement
    /\ state' = [state EXCEPT ![n] = [state[n] EXCEPT !.loyalty_agreement = FALSE]]
    /\ UNCHANGED <<msgs, meta>>

-----------------------------------------------------------------------------
(* Packet handlers (receivePacket: checkTerm, then the handler).           *)

\* rpcAppend of a packet with an old term.
RejectAppend(n, m) ==
    /\ m.rpc = "AppendEntries"
    /\ m.term < state[n].current_term
    /\ msgs' = msgs \cup
         {[rpc |-> "AEResponse", term |-> state[n].current_term, src |-> n,
           dst |-> m.src, result |-> FALSE, req_time |-> m.time]}
    /\ UNCHANGED <<state, meta>>

Follow(s, leader, version) ==
    [s EXCEPT !.data_version = version,
              !.leader_id = leader,
              !.loyalty_agreement = TRUE,
              !.type = "follower"]

\* rpcAppend of a current packet: follow the sender and sign an agreement.
RpcAppend(n, m) ==
    /\ m.rpc = "AppendEntries"
    /\ m.term >= state[n].current_term
    /\ LET s == CheckTerm(state[n], m.term)
       IN  \E version \in IF n \in Elector
                          THEN {Larger(s.data_version, m.data_version)}
                          ELSE IF m.src # s.leader_id THEN NodeGetVersion(n)
                          ELSE {s.data_version} :
             /\ state' = [state EXCEPT ![n] = Follow(s, m.src, version)]
             /\ msgs' = msgs \cup
                  {[rpc |-> "AEResponse", term |-> s.current_term, src |-> n,
                    dst |-> m.src, result |-> TRUE, req_time |-> m.time]}
    /\ UNCHANGED meta

Answered(s, i, time) ==
    [s EXCEPT !.heartbeat =
        [s.heartbeat EXCEPT ![i] = Larger(s.heartbeat[i], time)]]

\* rpcAppendResponse.  The result field is not looked at.
RpcAppendResponse(n, m) ==
    /\ m.rpc = "AEResponse"
    /\ LET s == CheckTerm(state[n], m.term)
           counted == m.term >= s.current_term /\ s.type = "leader"
       IN  state' = [state EXCEPT
             ![n] = IF counted
                    THEN Answered(s, m.src, m.req_time)
                    ELSE s]
    /\ UNCHANGED <<msgs, meta>>

\* Mutant: the version is not looked at.
MutGrantsOutdated(s, m) ==
    /\ s.type = "follower"
    /\ m.term >= s.current_term
    /\ \/ s.loyalty_agreement /\ s.leader_id = m.src
       \/ ~s.loyalty_agreement /\ s.voted_for \in {None, m.src}

\* The condition under which rpcReqVote grants its vote, in state s.
GrantsVote(s, m) ==
    /\ s.type = "follower"
    /\ m.term >= s.current_term
    /\ m.data_version >= s.data_version
    /\ \/ s.loyalty_agreement /\ s.leader_id = m.src
       \/ ~s.loyalty_agreement /\ s.voted_for \in {None, m.src}

\* rpcReqVote.
RpcReqVote(n, m) ==
    /\ m.rpc = "RequestVote"
    /\ LET c == CheckTerm(state[n], m.term)
       IN  \E version \in IF c.voted_for = None /\ n \notin Elector
                          THEN NodeGetVersion(n) ELSE {c.data_version} :
             LET s == [c EXCEPT !.data_version = version]
             IN  /\ state' = [state EXCEPT
                      ![n] = IF GrantsVote(s, m)
                             THEN [s EXCEPT !.voted_for = m.src] ELSE s]
                 /\ msgs' = msgs \cup
                      {[rpc |-> "RVResponse", term |-> s.current_term,
                        src |-> n, dst |-> m.src,
                        result |-> GrantsVote(s, m), req_time |-> m.time]}
    /\ UNCHANGED meta

\* Mutant: a refusal counts as a vote.
MutCountVote(s, m) ==
    [s EXCEPT !.vote_granted = s.vote_granted \cup {m.src}]

CountVote(s, m) ==
    [s EXCEPT !.vote_granted = IF m.result THEN s.vote_granted \cup {m.src}
                                           ELSE s.vote_granted \ {m.src}]

\* rpcReqVoteResponse: the vote that completes a quorum elects the Leader.
RpcReqVoteResponse(n, m) ==
    /\ m.rpc = "RVResponse"
    /\ LET c == CheckTerm(state[n], m.term)
           counted == m.term >= c.current_term /\ c.type = "candidate"
           s == CountVote(c, m)
           elected == Cardinality(s.vote_granted) >= Quorum
       IN  \/ /\ ~counted
              /\ state' = [state EXCEPT ![n] = c]
              /\ msgs' = msgs
           \/ /\ counted /\ ~elected
              /\ state' = [state EXCEPT ![n] = s]
              /\ msgs' = msgs
           \/ /\ counted /\ elected
              /\ state' = [state EXCEPT
                             ![n] = [s EXCEPT !.type = "leader",
                                              !.leader_id = n]]
              /\ msgs' = msgs \cup SendHeartbeat(n, s)
    /\ UNCHANGED meta

-----------------------------------------------------------------------------
(* Calls from the controller and the metadata servers.                     *)

\* demoteLeader.
DemoteLeader(n) ==
    /\ state[n].type # "follower"
    /\ state' = [state EXCEPT ![n] = StepDownToFollower(state[n])]
    /\ UNCHANGED <<msgs, meta>>

\* The metadata server of the President applies a change (external).
MasterWrites(n) ==
    /\ state[n].president
    /\ meta[n] < MaxVersion
    /\ meta' = [meta EXCEPT ![n] = @ + 1]
    /\ UNCHANGED <<state, msgs>>

\* A shadow receives a change from a President's server (external).
ShadowFollows(n) ==
    /\ n \notin Elector
    /\ \E p \in Node : state[p].president /\ meta[p] > meta[n]
    /\ meta' = [meta EXCEPT ![n] = @ + 1]
    /\ UNCHANGED <<state, msgs>>

\* checkNodeStatus finds the metadata server dead and calls stepDownToFollower
\* whatever the node's type is: a follower forgets its vote and its leader.
MetadataDead(n) ==
    /\ n \notin Elector
    /\ state' = [state EXCEPT ![n] = StepDownToFollower(@)]
    /\ UNCHANGED <<msgs, meta>>

\* The daemon stops and starts again; nothing of its state is on disk.
Restart(n) ==
    /\ state' = [state EXCEPT ![n] = InitNode]
    /\ UNCHANGED <<msgs, meta>>

Receive(n, m) ==
    \/ RejectAppend(n, m)
    \/ RpcAppend(n, m)
    \/ RpcAppendResponse(n, m)
    \/ RpcReqVote(n, m)
    \/ RpcReqVoteResponse(n, m)

\* A President that an append packet made a follower has an election timer,
\* but its heartbeat handler deposes it first, as long as the grace of
\* QUORUM_LOSS_GRACE_HEARTBEATS periods is shorter than ELECTION_TIMEOUT_MIN:
\* DeposedBeforeTimeout of URaftTimed, where the timers are not constrained.
Next ==
    \/ \E m \in msgs : Receive(m.dst, m)
    \/ \E n \in Node :
         \/ ~state[n].president /\ ElectionTimeout(n)
         \/ Heartbeat(n)
         \/ LoyaltyExpires(n)
         \/ DemoteLeader(n)
         \/ MasterWrites(n)
         \/ ShadowFollows(n)

Spec == Init /\ [][Next]_vars

-----------------------------------------------------------------------------

Candidate(n) == state[n].type = "candidate"

\* Every daemon's state and every packet has the type the structs give it.
TypeOK ==
    /\ state \in [Node -> RaftState]
    /\ msgs \subseteq RpcRequest \cup RpcResponse
    /\ meta \in [Node -> 0..MaxVersion]

\* No two nodes are Leader of the same term at the same time, although
\* stepDownToFollower forgets a vote without changing the term.
OneLeaderPerTerm ==
    \A a, b \in Node :
        /\ state[a].type = "leader" /\ state[b].type = "leader"
        /\ state[a].current_term = state[b].current_term
        => a = b

\* A President "has greater or equal value of version variable than all other
\* nodes making quorum" (uraft.h): when the last vote makes a node Leader, its
\* metadata is no older than that of any metadata server that voted for it.
ElectedIsCurrent ==
    [][\A n \in Node : Candidate(n) /\ state'[n].type = "leader"
         => \A v \in state'[n].vote_granted \ Elector : meta[n] >= meta[v]
      ]_vars

-----------------------------------------------------------------------------
(* The inductive invariant behind OneLeaderPerTerm.                        *)

\* v has answered a vote request of a in this term with yes.
Granted(packets, v, a, term) ==
    \E m \in packets : /\ m.rpc = "RVResponse" /\ m.result
                       /\ m.src = v /\ m.dst = a /\ m.term = term

\* a has sent a heartbeat in this term.
Led(packets, a, term) ==
    \E m \in packets : m.rpc = "AppendEntries" /\ m.src = a /\ m.term = term

\* A President may have been made a follower and not have noticed yet.
Incumbent(n) == state[n].type = "leader" \/ state[n].president

Standing(n) == Candidate(n) \/ Incumbent(n)

SameTerm(a, b) == state[a].current_term = state[b].current_term

\* Packets come from another node, and from a term their sender has reached;
\* so has the node a vote is granted to.
PacketTerms ==
    \A m \in msgs :
        /\ m.src # m.dst
        /\ m.term <= state[m.src].current_term
        /\ m.rpc = "RVResponse" /\ m.result
             => m.term <= state[m.dst].current_term

\* A node that is no follower grants nobody else its vote in its term.
StandingGrantsNobody ==
    \A n, a \in Node : state[n].type # "follower"
        => ~Granted(msgs, n, a, state[n].current_term)

\* A vote granted to a node that is still standing is remembered.
VoteRemembered ==
    \A v, a \in Node :
        /\ Granted(msgs, v, a, state[v].current_term)
        /\ SameTerm(v, a) /\ Standing(a)
        => state[v].voted_for # None

\* What is remembered as a vote for somebody else was granted in this term.
VoteWasGranted ==
    \A v, a \in Node : state[v].voted_for = a /\ a # v
        => Granted(msgs, v, a, state[v].current_term)

\* A follower's leader has sent heartbeats in this term; a candidate has not.
FollowedHasLed ==
    \A v, a \in Node : state[v].type = "follower" /\ state[v].leader_id = a
        => Led(msgs, a, state[v].current_term)

CandidateHasNotLed ==
    \A n \in Node : Candidate(n)
        => ~Led(msgs, n, state[n].current_term) /\ ~state[n].president

\* A standing node has voted, and the votes it counts are its own and ones
\* granted to it.
VotesAreGranted ==
    \A n \in Node : Standing(n) =>
        /\ state[n].voted_for # None
        /\ n \in state[n].vote_granted
        /\ \A v \in state[n].vote_granted \ {n} :
             Granted(msgs, v, n, state[n].current_term)

IncumbentHasQuorum ==
    \A n \in Node : Incumbent(n)
        => Cardinality(state[n].vote_granted) >= Quorum

\* Nobody votes for two candidates of one term.  A voter may vote for a Leader
\* it follows after a vote for a candidate, but none of the nodes whose votes
\* made the Leader has voted for the candidate.
CandidatesShareNoVoter ==
    \A a, b, v \in Node : a # b /\ Candidate(a) /\ Candidate(b) /\ SameTerm(a, b)
        => ~(/\ Granted(msgs, v, a, state[a].current_term)
             /\ Granted(msgs, v, b, state[b].current_term))

IncumbentKeepsVoters ==
    \A a, b \in Node : Incumbent(a) /\ Candidate(b) /\ SameTerm(a, b) =>
        \A v \in state[a].vote_granted :
            ~Granted(msgs, v, b, state[b].current_term)

OneIncumbentPerTerm ==
    \A a, b \in Node : Incumbent(a) /\ Incumbent(b) /\ SameTerm(a, b) => a = b

Core ==
    /\ PacketTerms
    /\ StandingGrantsNobody
    /\ VoteRemembered
    /\ VoteWasGranted
    /\ FollowedHasLed
    /\ CandidateHasNotLed
    /\ VotesAreGranted
    /\ IncumbentHasQuorum
    /\ CandidatesShareNoVoter
    /\ IncumbentKeepsVoters
    /\ OneIncumbentPerTerm

\* The inductive invariant: types, and what votes and roles have in common.
IInv == TypeOK /\ Core
=============================================================================
