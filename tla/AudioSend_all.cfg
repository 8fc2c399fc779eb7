SPECIFICATION FairSpec
CONSTANTS
  PackageMax = 2
  Threads = {t1, t2}
  Groups = {g1, g2}
  NoGroup = NoGroup
INVARIANTS TypeOK NodeConservation NothingStranded
INVARIANTS OneWorker OwnCallFrames
PROPERTIES IsFrameChannel FrameLeaves
