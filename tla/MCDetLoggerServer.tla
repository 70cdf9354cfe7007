-------------------------- MODULE MCDetLoggerServer ---------------------------
EXTENDS DetLoggerServer, TLC

\* The server threads differ only by the client they serve.
ThreadSymmetry == Permutations(Threads)

OnePacket == { <<1, 1>>, <<1, 2>> }
===============================================================================
