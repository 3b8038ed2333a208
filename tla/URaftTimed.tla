----------------------------- MODULE URaftTimed -----------------------------
(***************************************************************************)
(* uRaft with its clocks.  A heartbeat period is divided into slots; in    *)
(* each slot the heartbeat timer of one node of Phase fires (the heartbeat *)
(* of an elector only counts its local time, which nobody reads, so it may *)
(* be missing from Phase).  The loyalty timer fires exactly                *)
(* ELECTION_TIMEOUT_MIN after the agreement was signed, the election timer *)
(* at some moment not before that.  Handlers take no time.  A packet       *)
(* arrives once, within MaxDelay slots, or never.                          *)
(***************************************************************************)
EXTENDS URaft, Sequences

CONSTANTS
    Phase,     \* sequence of nodes: the order of their heartbeats
    MaxDelay,  \* bound: slots a packet may be under way
    Faults,    \* which may happen: "demotion", "death", "restart"
    MaxFaults  \* bound: how many of them

ASSUME PhaseAssumption ==
    /\ Phase \in Seq(Node) /\ Len(Phase) > 0
    /\ \A j, k \in 1..Len(Phase) : Phase[j] = Phase[k] => j = k
    /\ \A n \in Node \ Elector : \E k \in 1..Len(Phase) : Phase[k] = n

VARIABLES
    slot,       \* index in Phase of the latest slot
    due,        \* has the heartbeat of this slot still to run?
    loyal_left, \* slots until the loyalty timer fires
    wait_left,  \* slots before the election timer may fire
    transit,    \* the packets under way, and for how many slots they are
    faults      \* how many faults happened

timers == <<loyal_left, wait_left>>

tvars == <<vars, slot, due, timers, transit, faults>>

ElectionTimeoutMin == LoyalTicks * Len(Phase)

TInit ==
    /\ Init
    /\ slot = Len(Phase)
    /\ due = FALSE
    /\ loyal_left = [n \in Node |-> ElectionTimeoutMin]
    /\ wait_left = [n \in Node |-> ElectionTimeoutMin]
    /\ transit = << >>
    /\ faults = 0

\* Mutant: the timer of an agreement in force is not restarted.
MutSignLoyaltyAgreement(n) ==
    loyal_left' = [loyal_left EXCEPT
                     ![n] = IF state[n].loyalty_agreement /\ @ > 0
                            THEN @ ELSE ElectionTimeoutMin]

SignLoyaltyAgreement(n) ==
    loyal_left' = [loyal_left EXCEPT ![n] = ElectionTimeoutMin]

StartElectionTimer(n) ==
    wait_left' = [wait_left EXCEPT ![n] = ElectionTimeoutMin]

StartElectionTimerIf(n, b) ==
    IF b THEN StartElectionTimer(n) ELSE UNCHANGED wait_left

\* checkTerm steps down, and so restarts the election timer.
Newer(n, m) == m.term > state[n].current_term

\* What a step sends is under way from now on; what it receives no longer is.
Network(received) ==
    transit' = [m \in (DOMAIN transit \ received) \cup (msgs' \ msgs) |->
                  IF m \in DOMAIN transit THEN transit[m]
                  ELSE 0]

\* Time passes: timers run down and packets that took too long are lost.  Only
\* a node that has restarted sends a packet a second time, so where nodes
\* restart what was received or lost is forgotten.
TimeStep ==
    /\ ~due
    /\ \A n \in Node : state[n].loyalty_agreement => loyal_left[n] > 0
    /\ slot' = IF slot = Len(Phase) THEN 1 ELSE slot + 1
    /\ due' = TRUE
    /\ loyal_left' = [n \in Node |-> Larger(loyal_left[n] - 1, 0)]
    /\ wait_left' = [n \in Node |-> Larger(wait_left[n] - 1, 0)]
    /\ transit' = [m \in {p \in DOMAIN transit : transit[p] < MaxDelay} |->
                     transit[m] + 1]
    /\ msgs' = IF "restart" \in Faults THEN DOMAIN transit' ELSE msgs
    /\ UNCHANGED <<state, meta, faults>>

THeartbeat(n) ==
    /\ due /\ Phase[slot] = n
    /\ Heartbeat(n)
    /\ due' = FALSE
    /\ StartElectionTimerIf(n, state[n].president /\ ~state'[n].president)
    /\ Network({})
    /\ UNCHANGED <<slot, loyal_left, faults>>

TElectionTimeout(n) ==
    /\ wait_left[n] = 0
    /\ ElectionTimeout(n)
    /\ StartElectionTimer(n)
    /\ Network({})
    /\ UNCHANGED <<slot, due, loyal_left, faults>>

TLoyaltyExpires(n) ==
    /\ loyal_left[n] = 0
    /\ LoyaltyExpires(n)
    /\ UNCHANGED <<slot, due, timers, transit, faults>>

TReceive(n, m) ==
    /\ \/ /\ RejectAppend(n, m)
          /\ UNCHANGED timers
       \/ /\ RpcAppend(n, m)
          /\ SignLoyaltyAgreement(n)
          /\ StartElectionTimer(n)
       \/ /\ RpcAppendResponse(n, m) \/ RpcReqVoteResponse(n, m)
          /\ StartElectionTimerIf(n, Newer(n, m))
          /\ UNCHANGED loyal_left
       \/ /\ RpcReqVote(n, m)
          /\ StartElectionTimerIf(n, Newer(n, m) \/ GrantsVote(state'[n], m))
          /\ UNCHANGED loyal_left
    /\ Network({m})
    /\ UNCHANGED <<slot, due, faults>>

Fault(kind) ==
    /\ kind \in Faults
    /\ faults < MaxFaults
    /\ faults' = faults + 1

TDemoteLeader(n) ==
    /\ Fault("demotion")
    /\ DemoteLeader(n)
    /\ StartElectionTimer(n)
    /\ UNCHANGED <<slot, due, loyal_left, transit>>

TMetadataDead(n) ==
    /\ Fault("death")
    /\ MetadataDead(n)
    /\ StartElectionTimer(n)
    /\ UNCHANGED <<slot, due, loyal_left, transit>>

\* What arrives while the daemon is down is lost.
TRestart(n) ==
    /\ Fault("restart")
    /\ Restart(n)
    /\ SignLoyaltyAgreement(n)
    /\ StartElectionTimer(n)
    /\ Network({m \in DOMAIN transit : m.dst = n})
    /\ UNCHANGED <<slot, due>>

MetadataChanges(n) ==
    /\ MasterWrites(n) \/ ShadowFollows(n)
    /\ UNCHANGED <<slot, due, timers, transit, faults>>

TNext ==
    \/ TimeStep
    \/ \E m \in DOMAIN transit : TReceive(m.dst, m)
    \/ \E n \in Node :
         \/ THeartbeat(n)
         \/ TElectionTimeout(n)
         \/ TLoyaltyExpires(n)
         \/ TDemoteLeader(n)
         \/ TMetadataDead(n)
         \/ TRestart(n)
         \/ MetadataChanges(n)

TSpec == TInit /\ [][TNext]_tvars

-----------------------------------------------------------------------------

\* "There can be only one President at the time" (uraft.h).
OnePresident ==
    \A a, b \in Node : state[a].president /\ state[b].president => a = b

\* Whoever a Leader counts as loyal when its heartbeat fires is bound by an
\* agreement at that moment, so that it will not vote for anybody else.
CountedAreLoyal ==
    [][\A n \in Node :
         /\ state'[n].local_time # state[n].local_time
         /\ state'[n].type = "leader"
         => \A i \in LoyalVotes(state'[n]) \ {n} : state[i].loyalty_agreement
      ]_tvars

\* The heartbeat handler deposes a President that became a follower before
\* its election timer can fire (ElectionTimeout relies on this).
DeposedBeforeTimeout ==
    \A n \in Node : state[n].president /\ state[n].type # "leader"
        => wait_left[n] > 0

-----------------------------------------------------------------------------
(* The inductive invariants behind these properties.                       *)

Server == Node \ Elector

Slots == 1..Len(Phase)

\* The slot of a server's heartbeat, and how many slots ago it was.
Turn(a) == CHOOSE k \in Slots : Phase[k] = a

Lapse(a) ==
    IF slot = Turn(a) THEN IF due THEN Len(Phase) ELSE 0
    ELSE IF slot > Turn(a) THEN slot - Turn(a)
    ELSE slot - Turn(a) + Len(Phase)

\* The clock of a server counts its heartbeats; in slots, it shows
Moment(time) == time * Len(Phase)

Now(a) == Moment(state[a].local_time) + Lapse(a)

\* A timer with this many slots left was not started before the clock of a
\* showed this time.
Outlasts(left, a, time) == left + Now(a) >= Moment(time) + ElectionTimeoutMin

\* A whole ELECTION_TIMEOUT_MIN has passed since.
Stale(a, time) == Outlasts(0, a, time)

Clocks ==
    /\ slot \in Slots /\ due \in BOOLEAN
    /\ loyal_left \in [Node -> Nat] /\ wait_left \in [Node -> Nat]
    /\ DOMAIN transit \subseteq msgs

ElectorFollows ==
    \A n \in Elector : state[n].type = "follower" /\ ~state[n].president

\* A President that is no Leader any more lost its role after the last of its
\* heartbeats that was not forgiven.
FollowerIsNew ==
    \A a \in Server :
        /\ state[a].quorum_loss_streak < Larger(Grace, 1)
        /\ state[a].president /\ state[a].type # "leader" =>
             wait_left[a] + Lapse(a) + Moment(state[a].quorum_loss_streak)
               >= ElectionTimeoutMin

\* What DeposedBeforeTimeout needs, whichever faults happen.
DInv == TypeOK /\ Clocks /\ ElectorFollows /\ FollowerIsNew

\* Nobody has answered a heartbeat that was not sent yet.
Stamped ==
    /\ \A n, i \in Node : state[n].heartbeat[i] <= state[n].local_time
    /\ \A m \in msgs :
         /\ m.rpc = "AppendEntries" => m.time <= state[m.src].local_time
         /\ m.rpc = "AEResponse" => m.req_time <= state[m.dst].local_time

\* i has been loyal, and has not stood for election, since a sent the
\* heartbeat of this time, or that was long ago.
Loyal(i, a, time) ==
    Outlasts(loyal_left[i], a, time) /\ Outlasts(wait_left[i], a, time)

AgreementLasts ==
    /\ \A n \in Node : ~state[n].loyalty_agreement => loyal_left[n] = 0
    /\ \A a \in Server : \A i \in Node \ {a} : Loyal(i, a, state[a].heartbeat[i])
    /\ \A m \in msgs : m.rpc = "AEResponse" /\ m.result /\ m.dst \in Server
         => Loyal(m.src, m.dst, m.req_time)

\* What a server sent before it stood for election is too old to count, and
\* so is every heartbeat that was refused.
SentIsStale ==
    \A m \in msgs : m.rpc = "AppendEntries" /\ m.src \in Server =>
        /\ state[m.src].type = "follower"
             => Outlasts(wait_left[m.src], m.src, m.time)
        /\ state[m.src].type # "follower" /\ m.term < state[m.src].current_term
             => Stale(m.src, m.time)

RefusedIsStale ==
    \A m \in msgs : m.rpc = "AEResponse" /\ ~m.result /\ m.dst \in Server =>
        /\ state[m.dst].type = "follower"
             => Outlasts(wait_left[m.dst], m.dst, m.req_time)
        /\ state[m.dst].type = "candidate" => Stale(m.dst, m.req_time)
        /\ state[m.dst].type = "leader" /\ m.term <= state[m.dst].current_term
             => Stale(m.dst, m.req_time)

\* i has voted for b, and b has the vote or may still get it.
VotesFor(i, b) ==
    \/ Standing(b) /\ i \in state[b].vote_granted
    \/ Candidate(b) /\ Granted(msgs, i, b, state[b].current_term)

\* What a voter of b answered to the servers of earlier terms is too old to
\* count, and it answers them no more.
VoterIsLost ==
    \A a \in Server, b \in Node : \A i \in Node \ {a} :
        VotesFor(i, b) /\ state[a].current_term < state[b].current_term =>
            /\ Stale(a, state[a].heartbeat[i])
            /\ \A m \in msgs :
                 /\ m.rpc = "AEResponse" /\ m.result /\ m.dst = a /\ m.src = i
                 /\ m.term < state[b].current_term
                 => Stale(a, m.req_time)

\* A President had a quorum of loyal nodes at its last heartbeat.
PresidentHasQuorum ==
    \A n \in Node : state[n].president
        => Cardinality(LoyalVotes(state[n])) >= Quorum

\* What the clocks and the votes have in common.
PInv ==
    /\ IInv /\ DInv
    /\ Stamped /\ AgreementLasts /\ SentIsStale /\ RefusedIsStale
    /\ VoterIsLost /\ PresidentHasQuorum /\ OnePresident
=============================================================================
