SPECIFICATION Spec
CONSTANTS
  s1 = s1
  o1 = o1
  Sessions = {s1}
  Orders = {o1}
  Nobody = Nobody
  Stranger = Stranger
  Buyer <- MCBuyer
  Price <- MCPrice
  Claims = {0, 2, 3}
  Bucket <- MCBucket
  Buckets = 2
  MaxSaves = 1
  MaxCrashes = 1
  MaxRequests = 1
PROPERTIES
  WebhookIsTheTruth
CHECK_DEADLOCK FALSE
