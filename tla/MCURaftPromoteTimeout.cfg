CONSTANT MaxMishaps = 1
SPECIFICATION Spec
PROPERTY PendingDemotionRuns
