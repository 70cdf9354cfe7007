SPECIFICATION Spec
CONSTANTS
  t1 = t1
  t2 = t2
  t3 = t3
  Threads = {t1, t2, t3}
  Mbs = {6}
  PacketIds <- OnePacket
  MaxDelete = 2
SYMMETRY ThreadSymmetry
INVARIANT TypeOK
INVARIANT ListedHasPals
INVARIANT DataIsListed
INVARIANT NoCircularWait
PROPERTY ImplementsDetLog
