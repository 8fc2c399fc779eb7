SPECIFICATION Spec
CONSTANTS
  PackageMax = 2
  Threads = {t1, t2}
  Groups = {g1, g2}
  NoGroup = NoGroup
PROPERTY CreateAfterQuit
