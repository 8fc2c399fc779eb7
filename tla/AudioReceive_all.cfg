SPECIFICATION FairAudioSpec
CONSTANTS
  Groups = {g1, g2}
  NoGroup = NoGroup
  Threads = {t1, t2}
  QueueMax = 1
INVARIANTS AudioTypeOK OwnVoice NotDeaf
PROPERTY CallsEnd
