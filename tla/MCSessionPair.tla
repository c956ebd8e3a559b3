--------------------------- MODULE MCSessionPair ----------------------------
EXTENDS SessionPair

Each(client, server) == [client |-> client, server |-> server]

NoStreams == Each(0, 0)
OneClientStream == Each(1, 0)
OneStreamEach == Each(1, 1)
TwoClientStreams == Each(2, 0)

NobodyWrites == {}
ClientWrites == {<<"client", 1>>}
EachWritesItsOwn == {<<"client", 1>>, <<"server", 2>>}
ClientWritesBoth == {<<"client", 1>>, <<"client", 3>>}

NoExtra == Each(0, 0)
TwoExtra == Each(2, 0)
ThreeExtra == Each(3, 0)
=============================================================================
