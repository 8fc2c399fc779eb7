SPECIFICATION AudioSpec
CONSTANTS
  Groups = {g1, g2}
  NoGroup = NoGroup
  Threads = {t1, t2}
  QueueMax = 2
INVARIANT PlaysOwn
