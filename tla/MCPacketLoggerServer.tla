------------------------ MODULE MCPacketLoggerServer -------------------------
EXTENDS PacketLoggerServer, TLC

\* The allocator's addresses differ by nothing.
AddressSymmetry == Permutations(Addresses)
===============================================================================
