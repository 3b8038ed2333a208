------------------------ MODULE URaftControllerProofs ------------------------
(***************************************************************************)
(* Proofs about the controller, for any number of failures.                *)
(***************************************************************************)
EXTENDS URaftController, TLAPS

\* The controller starts with the server taken for dead and elections blocked.
LEMMA ControllerInit == Init => CInv
<1> SUFFICES ASSUME Init PROVE CInv
    OBVIOUS
<1>1. ControlTypeOK
    BY ZenonT(30) DEF Init, ControlTypeOK
<1>2. mishaps \in 0..MaxMishaps
    BY MishapAssumption DEF Init
<1>3. UnfitNeverLeads /\ DeadHoldsNoIp /\ RecoversTheDead
    BY DEF Init, UnfitNeverLeads, DeadHoldsNoIp, RecoversTheDead
<1> QED BY <1>1, <1>2, <1>3 DEF CInv, TypeOK

\* Every handler keeps the types of the controller's state.
LEMMA ControllerTypes == ControlTypeOK /\ [Next]_vars => ControlTypeOK'
<1> SUFFICES ASSUME ControlTypeOK, [Next]_vars PROVE ControlTypeOK'
    OBVIOUS
<1>1. CASE CommandExits
    BY <1>1 DEF ControlTypeOK, CommandExits, Mishap, role, command, pending, health
<1>2. CASE CommandTimeout
  <2>1. CASE command_type = "promote"
      BY ZenonT(30), <1>2, <2>1 DEF ControlTypeOK, CommandTimeout, PromotionFails, StepDown, health
  <2>2. CASE command_type # "promote"
      BY <1>2, <2>2 DEF ControlTypeOK, CommandTimeout, role, health
  <2> QED BY <2>1, <2>2
<1>3. CASE DemoteEnds
    BY ZenonT(60), <1>3 DEF ControlTypeOK, DemoteEnds, RunSlowCommand, Mishap, role, command, pending, health
<1>4. CASE PromoteEnds
    BY ZenonT(30), <1>4 DEF ControlTypeOK, PromoteEnds, PromotionReverted, PromotionFails, StepDown, RunSlowCommand, Mishap, role, command, pending, health
<1>5. CASE DeadHandlerEnds
    BY <1>5 DEF ControlTypeOK, DeadHandlerEnds, role, command, pending, health
<1>6. CASE CheckNodeStatus
    BY ZenonT(60), <1>6 DEF ControlTypeOK, CheckNodeStatus, BlockPromotion, StartDeadMetadataHandler, StepDown,
             RunSlowCommand, Mishap, role, command, pending, health
<1>7. CASE DeadRecoveryFires
    BY ZenonT(30), <1>7 DEF ControlTypeOK, DeadRecoveryFires, NodeDemote, RunSlowCommand, Mishap, role, command, pending, health
<1>8. CASE BackoffExpires
  <2>1. promotion_backoff_active' = FALSE
      BY <1>8 DEF BackoffExpires
  <2>2. promotion_backoff_active' \in BOOLEAN
      BY ZenonT(30), <2>1
  <2>3. /\ UNCHANGED <<type, president, block_leader_promotion, command_type, command_status>>
        /\ UNCHANGED <<is_promote_pending, is_demote_pending, node_alive, dead_recovery_pending>>
        /\ UNCHANGED <<floating_ip, server>>
      BY <1>8 DEF BackoffExpires, role, command, pending, health
  <2>4. /\ type' \in {"follower", "candidate", "leader"}
        /\ president' \in BOOLEAN /\ block_leader_promotion' \in BOOLEAN
        /\ command_type' \in {"none", "promote", "demote", "dead"}
        /\ command_status' \in {"running", "succeeded", "failed"}
      BY ZenonT(30), <2>3 DEF ControlTypeOK
  <2>5. /\ is_promote_pending' \in BOOLEAN /\ is_demote_pending' \in BOOLEAN
        /\ node_alive' \in BOOLEAN /\ dead_recovery_pending' \in BOOLEAN
        /\ floating_ip' \in BOOLEAN /\ server' \in {"master", "shadow", "dead"}
      BY ZenonT(30), <2>3 DEF ControlTypeOK
  <2> QED BY ZenonT(30), <2>2, <2>4, <2>5 DEF ControlTypeOK
<1>9. CASE ServerStops
    BY <1>9 DEF ControlTypeOK, ServerStops, Mishap, role, command, pending, health
<1>10. CASE ServerStarts
    BY <1>10 DEF ControlTypeOK, ServerStarts, role, command, pending, health
<1>11. CASE ElectionTimeout
    BY <1>11 DEF ControlTypeOK, ElectionTimeout, role, command, pending, health
<1>12. CASE WinElection
    BY <1>12 DEF ControlTypeOK, WinElection, role, command, pending, health
<1>13. CASE LoseElection
    BY <1>13 DEF ControlTypeOK, LoseElection, role, command, pending, health
<1>14. CASE BecomePresident
  <2>1. is_promote_pending' \in BOOLEAN /\ command_type' \in {"none", "promote", "demote", "dead"}
        /\ command_status' \in {"running", "succeeded", "failed"}
      BY ZenonT(30), <1>14 DEF ControlTypeOK, BecomePresident, NodePromote, RunSlowCommand, command
  <2> QED BY <1>14, <2>1 DEF ControlTypeOK, BecomePresident, health
<1>15. CASE Deposed
  <2>1. is_demote_pending' \in BOOLEAN /\ command_type' \in {"none", "promote", "demote", "dead"}
        /\ command_status' \in {"running", "succeeded", "failed"} /\ floating_ip' \in BOOLEAN
      BY ZenonT(30), <1>15 DEF ControlTypeOK, Deposed, NodeDemote, RunSlowCommand, command
  <2> QED BY ZenonT(30), <1>15, <2>1 DEF ControlTypeOK, Deposed, StepDown, health
<1>16. CASE UNCHANGED vars
    BY <1>16 DEF ControlTypeOK, vars, role, command, pending, health
<1> QED BY <1>1, <1>2, <1>3, <1>4, <1>5, <1>6, <1>7, <1>8, <1>9, <1>10, <1>11, <1>12, <1>13, <1>14, <1>15, <1>16 DEF Next

\* A handler counts at most one mishap, and none past the bound.
LEMMA ControllerMishaps ==
    mishaps \in 0..MaxMishaps /\ [Next]_vars => mishaps' \in 0..MaxMishaps
<1> SUFFICES ASSUME mishaps \in 0..MaxMishaps, [Next]_vars
             PROVE  mishaps' \in 0..MaxMishaps
    OBVIOUS
<1>1. mishaps' = mishaps \/ (mishaps < MaxMishaps /\ mishaps' = mishaps + 1)
  <2>1. CASE CommandExits
      BY <2>1 DEF CommandExits, Mishap, role, command, pending, health
  <2>2. CASE CommandTimeout
      BY <2>2 DEF CommandTimeout, Mishap, PromotionFails, StepDown, role, command, pending, health
  <2>3. CASE DemoteEnds
      BY <2>3 DEF DemoteEnds, RunSlowCommand, Mishap, role, command, pending, health
  <2>4. CASE PromoteEnds
      BY <2>4 DEF PromoteEnds, PromotionReverted, PromotionFails, StepDown, RunSlowCommand, Mishap, role, command, pending, health
  <2>5. CASE DeadHandlerEnds
      BY <2>5 DEF DeadHandlerEnds, role, command, pending, health
  <2>6. CASE CheckNodeStatus
      BY <2>6 DEF CheckNodeStatus, BlockPromotion, StartDeadMetadataHandler, StepDown,
               RunSlowCommand, Mishap, role, command, pending, health
  <2>7. CASE DeadRecoveryFires
      BY <2>7 DEF DeadRecoveryFires, NodeDemote, RunSlowCommand, Mishap, role, command, pending, health
  <2>8. CASE BackoffExpires
      BY <2>8 DEF BackoffExpires, role, command, pending, health
  <2>9. CASE ServerStops
      BY <2>9 DEF ServerStops, Mishap, role, command, pending, health
  <2>10. CASE ServerStarts
      BY <2>10 DEF ServerStarts, role, command, pending, health
  <2>11. CASE ElectionTimeout
      BY <2>11 DEF ElectionTimeout, role, command, pending, health
  <2>12. CASE WinElection
      BY <2>12 DEF WinElection, role, command, pending, health
  <2>13. CASE LoseElection
      BY <2>13 DEF LoseElection, role, command, pending, health
  <2>14. CASE BecomePresident
      BY <2>14 DEF BecomePresident, NodePromote, RunSlowCommand, Mishap, role, command, pending, health
  <2>15. CASE Deposed
      BY <2>15 DEF Deposed, StepDown, NodeDemote, RunSlowCommand, Mishap, role, command, pending, health
  <2>16. CASE UNCHANGED vars
      BY <2>16 DEF vars, role, command, pending, health
  <2> QED BY <2>1, <2>2, <2>3, <2>4, <2>5, <2>6, <2>7, <2>8, <2>9, <2>10, <2>11, <2>12, <2>13, <2>14, <2>15, <2>16 DEF Next
<1> QED BY <1>1, MishapAssumption

\* A server taken for dead, or a backoff, keeps the node out of elections: every
\* handler that makes either so also makes the node a follower and blocks it.
LEMMA ControllerFit ==
    CInv /\ [Next]_vars => UnfitNeverLeads' /\ DeadHoldsNoIp' /\ RecoversTheDead'
<1> SUFFICES ASSUME CInv, [Next]_vars
             PROVE  UnfitNeverLeads' /\ DeadHoldsNoIp' /\ RecoversTheDead'
    OBVIOUS
<1> USE DEF CInv, TypeOK, UnfitNeverLeads, DeadHoldsNoIp, RecoversTheDead
<1>1. CASE CommandExits
    BY <1>1 DEF CommandExits, Mishap, role, command, pending, health
<1>2. CASE CommandTimeout
    BY <1>2 DEF CommandTimeout, Mishap, PromotionFails, StepDown, role, command, pending, health
<1>3. CASE DemoteEnds
    BY <1>3 DEF DemoteEnds, RunSlowCommand, Mishap, role, command, pending, health
<1>4. CASE PromoteEnds
    BY <1>4 DEF PromoteEnds, PromotionReverted, PromotionFails, StepDown, RunSlowCommand, Mishap, role, command, pending, health
<1>5. CASE DeadHandlerEnds
    BY <1>5 DEF DeadHandlerEnds, role, command, pending, health
<1>6. CASE CheckNodeStatus
  <2>1. PICK alive \in {server # "dead", node_alive} :
            /\ block_leader_promotion' = BlockPromotion(alive)
            /\ node_alive' = alive
            /\ \/ alive = node_alive
                  /\ UNCHANGED <<role, dead_recovery_pending, floating_ip>>
               \/ alive /\ ~node_alive /\ dead_recovery_pending' = FALSE
                  /\ UNCHANGED <<role, floating_ip>>
               \/ ~alive /\ node_alive /\ StepDown /\ floating_ip' = FALSE
      BY <1>6 DEF CheckNodeStatus, StartDeadMetadataHandler
  <2>2. promotion_backoff_active' = promotion_backoff_active
      BY <1>6 DEF CheckNodeStatus
  <2>3. CASE alive = node_alive /\ UNCHANGED <<role, dead_recovery_pending, floating_ip>>
    <3>1. node_alive' = node_alive /\ type' = type
          /\ dead_recovery_pending' = dead_recovery_pending /\ floating_ip' = floating_ip
        BY <2>1, <2>3 DEF role
    <3>2. ~node_alive \/ promotion_backoff_active => block_leader_promotion'
        BY ZenonT(30), <2>1, <2>3 DEF BlockPromotion
    <3> QED BY <3>1, <3>2, <2>2
  <2>4. CASE alive /\ ~node_alive /\ dead_recovery_pending' = FALSE
             /\ UNCHANGED <<role, floating_ip>>
    <3>1. node_alive' /\ ~dead_recovery_pending' /\ type' = type
        BY <2>1, <2>4 DEF role
    <3>2. promotion_backoff_active => block_leader_promotion'
        BY ZenonT(30), <2>1 DEF BlockPromotion
    <3> QED BY <3>1, <3>2, <2>2
  <2>5. CASE ~alive /\ node_alive /\ StepDown /\ floating_ip' = FALSE
    <3>1. ~node_alive' /\ ~floating_ip' /\ type' = "follower" /\ block_leader_promotion'
        BY ZenonT(30), <2>1, <2>5 DEF BlockPromotion, StepDown
    <3> QED BY <3>1
  <2> QED BY ZenonT(30), <2>1, <2>3, <2>4, <2>5
<1>7. CASE DeadRecoveryFires
    BY <1>7 DEF DeadRecoveryFires, NodeDemote, RunSlowCommand, Mishap, role, command, pending, health
<1>8. CASE BackoffExpires
    BY <1>8 DEF BackoffExpires, role, command, pending, health
<1>9. CASE ServerStops
    BY <1>9 DEF ServerStops, Mishap, role, command, pending, health
<1>10. CASE ServerStarts
    BY <1>10 DEF ServerStarts, role, command, pending, health
<1>11. CASE ElectionTimeout
    BY <1>11 DEF ElectionTimeout, role, command, pending, health
<1>12. CASE WinElection
    BY <1>12 DEF WinElection, role, command, pending, health
<1>13. CASE LoseElection
    BY <1>13 DEF LoseElection, role, command, pending, health
<1>14. CASE BecomePresident
    BY <1>14 DEF BecomePresident, NodePromote, RunSlowCommand, Mishap, role, command, pending, health
<1>15. CASE Deposed
    BY <1>15 DEF Deposed, StepDown, NodeDemote, RunSlowCommand, Mishap, role, command, pending, health
<1>16. CASE UNCHANGED vars
    BY <1>16 DEF vars, role, command, pending, health
<1> QED BY <1>1, <1>2, <1>3, <1>4, <1>5, <1>6, <1>7, <1>8, <1>9, <1>10, <1>11, <1>12, <1>13, <1>14, <1>15, <1>16 DEF Next

\* The invariant holds in every reachable state.
THEOREM ControllerInvariance == Spec => []CInv
<1>1. CInv /\ [Next]_vars => CInv'
    BY ControllerTypes, ControllerMishaps, ControllerFit DEF CInv, TypeOK
<1> QED BY <1>1, ControllerInit, PTL DEF Spec

\* While the metadata server was last seen dead, or a failed promotion is backed
\* off from, the node neither stands for election nor leads.
THEOREM UnfitNodesNeverLead == Spec => []UnfitNeverLeads
<1>1. CInv => UnfitNeverLeads
    BY DEF CInv
<1> QED BY <1>1, ControllerInvariance, PTL

\* A node whose metadata server was last seen dead restores no floating IP.
THEOREM DeadNodesHoldNoIp == Spec => []DeadHoldsNoIp
<1>1. CInv => DeadHoldsNoIp
    BY DEF CInv
<1> QED BY <1>1, ControllerInvariance, PTL

\* checkCommandStatus, nodeDemote and the dead recovery never start a demotion
\* of a Leader's metadata server.
THEOREM LeadersAreNotDemoted == Spec => DemotesNoLeader
<1> DEFINE Keeps == command_type # "demote" /\ command_type' = "demote" => type' # "leader"
<1>1. CInv /\ [Next]_vars => [Keeps]_vars
  <2> SUFFICES ASSUME CInv, Next, command_type # "demote", command_type' = "demote"
               PROVE  type' # "leader"
      OBVIOUS
  <2>1. CASE CommandExits
      BY <2>1 DEF CInv, UnfitNeverLeads, RecoversTheDead, CommandExits, Mishap, role, command, pending, health
  <2>2. CASE CommandTimeout
      BY <2>2 DEF CInv, UnfitNeverLeads, RecoversTheDead, CommandTimeout, Mishap, PromotionFails, StepDown, role, command, pending, health
  <2>3. CASE DemoteEnds
      BY <2>3 DEF CInv, UnfitNeverLeads, RecoversTheDead, DemoteEnds, RunSlowCommand, Mishap, role, command, pending, health
  <2>4. CASE PromoteEnds
      BY <2>4 DEF CInv, UnfitNeverLeads, RecoversTheDead, PromoteEnds, PromotionReverted, PromotionFails, StepDown, RunSlowCommand, Mishap, role, command, pending, health
  <2>5. CASE DeadHandlerEnds
      BY <2>5 DEF CInv, UnfitNeverLeads, RecoversTheDead, DeadHandlerEnds, role, command, pending, health
  <2>6. CASE CheckNodeStatus
      BY <2>6 DEF CInv, UnfitNeverLeads, RecoversTheDead, CheckNodeStatus, BlockPromotion, StartDeadMetadataHandler, StepDown,
             RunSlowCommand, Mishap, role, command, pending, health
  <2>7. CASE DeadRecoveryFires
      BY <2>7 DEF CInv, UnfitNeverLeads, RecoversTheDead, DeadRecoveryFires, NodeDemote, RunSlowCommand, Mishap, role, command, pending, health
  <2>8. CASE BackoffExpires
      BY <2>8 DEF CInv, UnfitNeverLeads, RecoversTheDead, BackoffExpires, role, command, pending, health
  <2>9. CASE ServerStops
      BY <2>9 DEF CInv, UnfitNeverLeads, RecoversTheDead, ServerStops, Mishap, role, command, pending, health
  <2>10. CASE ServerStarts
      BY <2>10 DEF CInv, UnfitNeverLeads, RecoversTheDead, ServerStarts, role, command, pending, health
  <2>11. CASE ElectionTimeout
      BY <2>11 DEF CInv, UnfitNeverLeads, RecoversTheDead, ElectionTimeout, role, command, pending, health
  <2>12. CASE WinElection
      BY <2>12 DEF CInv, UnfitNeverLeads, RecoversTheDead, WinElection, role, command, pending, health
  <2>13. CASE LoseElection
      BY <2>13 DEF CInv, UnfitNeverLeads, RecoversTheDead, LoseElection, role, command, pending, health
  <2>14. CASE BecomePresident
      BY <2>14 DEF CInv, UnfitNeverLeads, RecoversTheDead, BecomePresident, NodePromote, RunSlowCommand, Mishap, role, command, pending, health
  <2>15. CASE Deposed
      BY <2>15 DEF CInv, UnfitNeverLeads, RecoversTheDead, Deposed, StepDown, NodeDemote, RunSlowCommand, Mishap, role, command, pending, health
  <2> QED BY <2>1, <2>2, <2>3, <2>4, <2>5, <2>6, <2>7, <2>8, <2>9, <2>10, <2>11, <2>12, <2>13, <2>14, <2>15 DEF Next
<1> QED BY <1>1, ControllerInvariance, PTL DEF Spec, DemotesNoLeader
=============================================================================
