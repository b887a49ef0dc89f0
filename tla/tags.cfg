SPECIFICATION FairSpec
CONSTANTS
  v1 = v1
  v2 = v2
  dev = dev
  ba = ba
  bb = bb
  Tags = {v1, v2, dev}
  Matching = {v1, v2}
  Built = {v1}
  Bots = {ba, bb}
  Recent = 1
  Unwritten = Unwritten
  Idle = Idle
  MaxHappenings = 3
INVARIANT TagsInv
INVARIANT DeletedUntilNextPush
PROPERTY AcceptedWasBuilt
PROPERTY RefusedWasMissing
PROPERTY ImagesAreOffered
