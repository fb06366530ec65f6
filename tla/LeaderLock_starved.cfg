SPECIFICATION FairSpec
CONSTANTS
  Workers = {w1}
  Jobs = {order_expiration, admin_report}
  None = None
  MaxDisruptions = 0
PROPERTY
  EverySchedulerRuns
