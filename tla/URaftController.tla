-------------------------- MODULE URaftController --------------------------
(***************************************************************************)
(* The controller of one node: it switches the local metadata server       *)
(* between master and shadow as uRaft makes the node President or deposes  *)
(* it, by running helper commands that take long, fail or hang.            *)
(*                                                                         *)
(* Of uRaft the module keeps the node's role.  A Leader never receives an  *)
(* append packet of its own term (OneLeader of URaftProofs).               *)
(***************************************************************************)
EXTENDS Naturals

CONSTANTS
    MaxMishaps  \* bound: how often the server, a command or fork() fails

ASSUME MishapAssumption == MaxMishaps \in Nat

VARIABLES
    type, president,           \* the role uRaft gives the node
    block_leader_promotion,    \* no election while set
    command_type,              \* the helper command that runs, or "none"
    command_status,            \* "running", or how it exited
    is_promote_pending, is_demote_pending,
    promotion_backoff_active,
    node_alive,                \* the last answer of the isalive helper
    dead_recovery_pending,
    floating_ip,               \* does the floating IP manager run?
    server,                    \* the metadata server: "master", "shadow", "dead"
    mishaps

role == <<type, president>>

command == <<command_type, command_status>>

pending == <<is_promote_pending, is_demote_pending>>

health == <<node_alive, dead_recovery_pending>>

vars == <<role, block_leader_promotion, command, pending, promotion_backoff_active,
          health, floating_ip, server, mishaps>>

ControlTypeOK ==
    /\ type \in {"follower", "candidate", "leader"}
    /\ president \in BOOLEAN
    /\ block_leader_promotion \in BOOLEAN
    /\ command_type \in {"none", "promote", "demote", "dead"}
    /\ command_status \in {"running", "succeeded", "failed"}
    /\ is_promote_pending \in BOOLEAN
    /\ is_demote_pending \in BOOLEAN
    /\ promotion_backoff_active \in BOOLEAN
    /\ node_alive \in BOOLEAN
    /\ dead_recovery_pending \in BOOLEAN
    /\ floating_ip \in BOOLEAN
    /\ server \in {"master", "shadow", "dead"}

TypeOK == ControlTypeOK /\ mishaps \in 0..MaxMishaps

\* The constructor and init: no election before the first status check.
Init ==
    /\ type = "follower"
    /\ president = FALSE
    /\ block_leader_promotion = TRUE
    /\ command_type = "none"
    /\ command_status = "running"
    /\ is_promote_pending = FALSE
    /\ is_demote_pending = FALSE
    /\ promotion_backoff_active = FALSE
    /\ node_alive = FALSE
    /\ dead_recovery_pending = FALSE
    /\ floating_ip = FALSE
    /\ server \in {"shadow", "dead"}
    /\ mishaps = 0

Mishap ==
    /\ mishaps < MaxMishaps
    /\ mishaps' = mishaps + 1

-----------------------------------------------------------------------------
(* Commands.                                                               *)

\* setSlowCommandTimeout and runSlowCommand; fork may fail.
RunSlowCommand(kind) ==
    /\ command_status' = "running"
    /\ \/ command_type' = kind /\ UNCHANGED mishaps
       \/ command_type' = "none" /\ Mishap

\* Mutant: a promotion requested during a demotion is forgotten.
MutNodePromote ==
    IF command_type = "none" /\ ~promotion_backoff_active
    THEN RunSlowCommand("promote") /\ UNCHANGED is_promote_pending
    ELSE UNCHANGED <<command, is_promote_pending, mishaps>>

\* nodePromote, called when the node becomes President.
NodePromote ==
    IF command_type = "none" /\ ~promotion_backoff_active
    THEN RunSlowCommand("promote") /\ UNCHANGED is_promote_pending
    ELSE /\ is_promote_pending' = (is_promote_pending \/
              (command_type = "demote" /\ ~promotion_backoff_active))
         /\ UNCHANGED <<command, mishaps>>

\* nodeDemote, called when the node is President no longer.
NodeDemote ==
    /\ floating_ip' = FALSE
    /\ IF command_type = "none"
       THEN RunSlowCommand("demote") /\ UNCHANGED is_demote_pending
       ELSE /\ is_demote_pending' = (is_demote_pending \/ command_type = "promote")
            /\ UNCHANGED <<command, mishaps>>

\* A running command ends.  A promotion of a shadow with metadata in memory
\* reports success even when leil-admin fails; one from disk restarts the server.
CommandExits ==
    /\ command_type # "none" /\ command_status = "running"
    /\ \/ /\ command_status' = "succeeded"
          /\ server' = CASE command_type = "promote" -> "master"
                         [] command_type = "demote"  -> "shadow"
                         [] command_type = "dead"    -> server
          /\ UNCHANGED mishaps
       \/ /\ command_type = "promote"
          /\ command_status' = "succeeded"
          /\ Mishap
          /\ UNCHANGED server
       \/ /\ command_status' = "failed"
          /\ server' = IF command_type = "dead" THEN server ELSE "dead"
          /\ Mishap
    /\ UNCHANGED <<role, block_leader_promotion, command_type, pending,
                   promotion_backoff_active, health, floating_ip>>

\* stepDownToFollower(kRaftOnly).
StepDown == type' = "follower" /\ president' = FALSE

\* handlePromotionFailure without the pending demotion: demoteLeader, and a
\* backoff whose duration grows with the number of failures but is never 0.
PromotionFails ==
    /\ StepDown
    /\ promotion_backoff_active' = TRUE
    /\ block_leader_promotion' = TRUE

\* The timer of setSlowCommandTimeout: the command is killed at any point of its
\* work, or has ended unnoticed.  After a promotion handlePromotionFailure asks for a demotion.
CommandTimeout ==
    /\ command_type # "none"
    /\ Mishap
    /\ command_type' = "none" /\ command_status' = "running"
    /\ server' \in CASE command_status # "running" \/ command_type = "dead" -> {server}
                     [] command_type = "promote" -> {server, "master", "dead"}
                     [] command_type = "demote"  -> {server, "shadow", "dead"}
    /\ IF command_type = "promote"
       THEN PromotionFails /\ is_demote_pending' = TRUE
       ELSE UNCHANGED <<role, promotion_backoff_active, block_leader_promotion,
                        is_demote_pending>>
    /\ UNCHANGED <<is_promote_pending, health, floating_ip>>

\* checkCommandStatus when a demotion has ended.
DemoteEnds ==
    /\ command_type = "demote" /\ command_status # "running"
    /\ IF is_promote_pending /\ type = "leader" /\ ~promotion_backoff_active
       THEN RunSlowCommand("promote")
       ELSE command_type' = "none" /\ command_status' = "running" /\ UNCHANGED mishaps
    /\ is_promote_pending' = FALSE
    /\ UNCHANGED <<role, block_leader_promotion, is_demote_pending,
                   promotion_backoff_active, health, floating_ip, server>>

\* Mutant: a demotion requested while the command ran is not reconsidered.
MutPromotionReverted == is_demote_pending \/ type # "leader"

\* Mutant: only a demotion requested while the command ran is carried out.
MutPendingOnlyReverted == is_demote_pending /\ type # "leader"

\* A demotion requested while the command ran is cancelled on a Leader; any
\* other node requests it now.
PromotionReverted == type # "leader"

\* checkCommandStatus when a promotion has ended.
PromoteEnds ==
    /\ command_type = "promote" /\ command_status # "running"
    /\ \/ /\ command_status = "succeeded" /\ ~PromotionReverted
          /\ promotion_backoff_active' = FALSE
          /\ floating_ip' = TRUE
          /\ command_type' = "none" /\ command_status' = "running"
          /\ UNCHANGED <<role, block_leader_promotion, mishaps>>
       \/ /\ command_status = "succeeded" /\ PromotionReverted
          /\ promotion_backoff_active' = FALSE
          /\ floating_ip' = FALSE
          /\ RunSlowCommand("demote")
          /\ UNCHANGED <<role, block_leader_promotion>>
       \/ /\ command_status = "failed"
          /\ PromotionFails
          /\ floating_ip' = FALSE
          /\ RunSlowCommand("demote")
    /\ is_demote_pending' = FALSE
    /\ UNCHANGED <<is_promote_pending, health, server>>

\* checkCommandStatus when the dead-metadata handler has ended.
DeadHandlerEnds ==
    /\ command_type = "dead" /\ command_status # "running"
    /\ command_type' = "none" /\ command_status' = "running"
    /\ UNCHANGED <<role, block_leader_promotion, pending, promotion_backoff_active,
                   health, floating_ip, server, mishaps>>

-----------------------------------------------------------------------------
(* The metadata server's health.                                           *)

\* Mutant: the backoff is not looked at.
MutBlockPromotion(alive) == ~alive

\* "Always reconcile promotion blocking" in checkNodeStatus.
BlockPromotion(alive) == ~alive \/ promotion_backoff_active

\* Mutant: the floating IP manager keeps running.
MutStartDeadMetadataHandler == UNCHANGED floating_ip /\ RunSlowCommand("dead")

StartDeadMetadataHandler == floating_ip' = FALSE /\ RunSlowCommand("dead")

\* checkNodeStatus, only while no command runs.  An isalive helper that times
\* out leaves the last answer in force.
CheckNodeStatus ==
    /\ command_type = "none"
    /\ \E alive \in {server # "dead", node_alive} :
         /\ block_leader_promotion' = BlockPromotion(alive)
         /\ node_alive' = alive
         /\ \/ /\ alive = node_alive
               /\ UNCHANGED <<role, command, dead_recovery_pending, floating_ip, mishaps>>
            \/ /\ alive /\ ~node_alive
               /\ dead_recovery_pending' = FALSE
               /\ UNCHANGED <<role, command, floating_ip, mishaps>>
            \/ /\ ~alive /\ node_alive
               /\ StepDown
               /\ StartDeadMetadataHandler
               /\ dead_recovery_pending' = TRUE
    /\ UNCHANGED <<pending, promotion_backoff_active, server>>

\* Mutant: a recovery that meets a running command is not tried again.
MutDeadRecoveryFires ==
    /\ dead_recovery_pending
    /\ dead_recovery_pending' = FALSE
    /\ IF command_type = "none"
       THEN NodeDemote
       ELSE UNCHANGED <<command, is_demote_pending, floating_ip, mishaps>>
    /\ UNCHANGED <<role, block_leader_promotion, is_promote_pending,
                   promotion_backoff_active, node_alive, server>>

\* The timer of scheduleDeadRecovery: restart the server as a shadow, unless a
\* command runs; then wait for as long again.
DeadRecoveryFires ==
    /\ dead_recovery_pending
    /\ command_type = "none"
    /\ dead_recovery_pending' = FALSE
    /\ NodeDemote
    /\ UNCHANGED <<role, block_leader_promotion, is_promote_pending,
                   promotion_backoff_active, node_alive, server>>

\* The timer of startPromotionBackoff.
BackoffExpires ==
    /\ promotion_backoff_active
    /\ promotion_backoff_active' = FALSE
    /\ UNCHANGED <<role, block_leader_promotion, command, pending, health,
                   floating_ip, server, mishaps>>

\* The server stops by itself, or an administrator starts it (external).
ServerStops ==
    /\ server # "dead"
    /\ server' = "dead"
    /\ Mishap
    /\ UNCHANGED <<role, block_leader_promotion, command, pending,
                   promotion_backoff_active, health, floating_ip>>

ServerStarts ==
    /\ server = "dead"
    /\ server' = "shadow"
    /\ UNCHANGED <<role, block_leader_promotion, command, pending,
                   promotion_backoff_active, health, floating_ip, mishaps>>

-----------------------------------------------------------------------------
(* The node's role in uRaft.                                               *)

\* electionTimeout; a blocked node only restarts its timer.
ElectionTimeout ==
    /\ type = "follower"
    /\ ~block_leader_promotion
    /\ type' = "candidate"
    /\ UNCHANGED <<president, block_leader_promotion, command, pending,
                   promotion_backoff_active, health, floating_ip, server, mishaps>>

\* rpcReqVoteResponse with the last vote.
WinElection ==
    /\ type = "candidate"
    /\ type' = "leader"
    /\ UNCHANGED <<president, block_leader_promotion, command, pending,
                   promotion_backoff_active, health, floating_ip, server, mishaps>>

\* rpcAppend of another Leader.
LoseElection ==
    /\ type = "candidate"
    /\ type' = "follower"
    /\ UNCHANGED <<president, block_leader_promotion, command, pending,
                   promotion_backoff_active, health, floating_ip, server, mishaps>>

\* heartbeat confirms the quorum.
BecomePresident ==
    /\ type = "leader" /\ ~president
    /\ president' = TRUE
    /\ NodePromote
    /\ UNCHANGED <<type, block_leader_promotion, is_demote_pending,
                   promotion_backoff_active, health, floating_ip, server>>

\* stepDownToFollower(kDemoteIfPresident): heartbeat has lost the quorum of a
\* President, or checkTerm has seen a higher term.
Deposed ==
    /\ type # "follower"
    /\ StepDown
    /\ IF president THEN NodeDemote
       ELSE UNCHANGED <<command, is_demote_pending, floating_ip, mishaps>>
    /\ UNCHANGED <<block_leader_promotion, is_promote_pending,
                   promotion_backoff_active, health, server>>

Next ==
    \/ CommandExits \/ CommandTimeout
    \/ DemoteEnds \/ PromoteEnds \/ DeadHandlerEnds
    \/ CheckNodeStatus \/ DeadRecoveryFires \/ BackoffExpires
    \/ ServerStops \/ ServerStarts
    \/ ElectionTimeout \/ WinElection \/ LoseElection \/ BecomePresident \/ Deposed

\* A helper ends or is killed, and the timers of the controller fire.
Fairness ==
    /\ WF_vars(CommandExits \/ CommandTimeout)
    /\ WF_vars(DemoteEnds \/ PromoteEnds \/ DeadHandlerEnds)
    /\ WF_vars(CheckNodeStatus)
    /\ WF_vars(DeadRecoveryFires)
    /\ WF_vars(BackoffExpires)

Spec == Init /\ [][Next]_vars /\ Fairness

-----------------------------------------------------------------------------

\* While the metadata server was last seen dead, or a failed promotion is
\* backed off from, the node neither stands for election nor leads.
UnfitNeverLeads ==
    ~node_alive \/ promotion_backoff_active
        => block_leader_promotion /\ type = "follower"

\* A node whose metadata server was last seen dead restores no floating IP.
DeadHoldsNoIp == ~node_alive => ~floating_ip

\* A recovery is scheduled only for a server last seen dead.
RecoversTheDead == dead_recovery_pending => ~node_alive

\* The inductive invariant.
CInv == TypeOK /\ UnfitNeverLeads /\ DeadHoldsNoIp /\ RecoversTheDead

\* No demotion of the metadata server starts while its node is Leader, neither
\* one requested before the node was elected again nor a recovery scheduled
\* before the server came back.
DemotesNoLeader ==
    [][command_type # "demote" /\ command_type' = "demote" => type' # "leader"]_vars

\* A President's server becomes master, whatever commands were running when it
\* was elected, unless it is deposed or something fails.
PresidentIsPromoted ==
    president /\ mishaps = 0 ~> server = "master" \/ ~president \/ mishaps > 0

\* The recovery scheduled for a dead server is carried out, unless the server
\* is seen alive before or something else fails.
DeadIsRestarted ==
    \A m \in 0..MaxMishaps :
        dead_recovery_pending /\ mishaps = m
            ~> command_type = "demote" \/ node_alive \/ mishaps > m

\* A node that stops leading while its promotion runs, President or not, does
\* not end up with a master: the promotion is followed by a demotion, unless the
\* node is elected again or something else fails.
LostPromotionIsReverted ==
    \A m \in 0..MaxMishaps :
        command_type = "promote" /\ type # "leader" /\ mishaps = m
            ~> \/ command_type = "none" /\ server # "master"
               \/ type = "leader" \/ mishaps > m

\* "Schedule demotion after kCmdPromote is cleared" (handlePromotionFailure):
\* a demotion that was asked for takes place unless the node leads again.
PendingDemotionRuns ==
    is_demote_pending ~> command_type = "demote" \/ type = "leader"
=============================================================================
