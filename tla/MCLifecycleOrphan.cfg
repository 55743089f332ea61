\* The kind command outlives its owner.
SPECIFICATION FairSpec
CONSTANT Parts = {"orphan"}
CHECK_DEADLOCK FALSE
PROPERTIES ClusterEventuallyGone
