\* Liveness under one kill of a worker and of the owner, and under one failure of a unit.
SPECIFICATION FairSpec
CONSTANT Parts = {"ends", "settles"}
CHECK_DEADLOCK FALSE
PROPERTIES CampaignsEnd StudiesSettle
