CONSTANTS
  STX = 28
  ETX = 29
  ESC = 27
  esc_set = {17, 19, 27, 28, 29}
  CRC <- SmallCRC
  startCRC32 <- StartCRC
  crc32 <- SumCRC
  MaxData = 4
  Packet <- Packets
  Char <- LineChars
  Faults = 2
SPECIFICATION Spec
INVARIANTS
  TypeOK
  BufferFits
  FrameDelivered
  SecondDelivered
