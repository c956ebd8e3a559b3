-------------------------- MODULE MCPacketReceiver --------------------------
EXTENDS PacketReceiver

MCNumbers == 0 .. 7
=============================================================================
