SPECIFICATION FairLifecycle
CONSTANTS
  PacketTypes <- MCPacketTypes
  HeaderSize = 2
  BufferSize = 5
  MaxPackets = 3
INVARIANTS
  TypeOK
  Framed
  PingsAnswered
  Lifetimes
PROPERTY
  AllHandled
