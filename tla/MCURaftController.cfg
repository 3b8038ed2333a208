CONSTANT MaxMishaps = 4
SPECIFICATION Spec
INVARIANTS UnfitNeverLeads DeadHoldsNoIp
PROPERTIES DemotesNoLeader PresidentIsPromoted DeadIsRestarted LostPromotionIsReverted
