CONSTANTS
  Process = {p1, p2}
  Thread = {t1, t2}
  Nobody = nobody
  Pid = {n1}
  Blob = blob
  Key <- OneCall
  Images <- ImagesHere
  MaxCalls = 2
  Seed = {0}
  Reference = {clip}
  OwnVoice = own
  DefaultBackbone = "trellis"
SPECIFICATION MCSpec
INVARIANT SafeForWriters
