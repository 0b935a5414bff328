CONSTANTS
  empty = empty
  short = short
  long = long
  Message = {empty, short, long}
  Request = {empty, short}
  Serialized <- MCSerialized
  Byte = {0, 1, 2}
  MESSAGE_SIZE_LENGTH = 2
  Capacity = 8
  Callers = 2
  ByteValues = 4
  AlphabetLength = 3
  dsa_byte_length = 3
  Null = Null
  Unparsed = Unparsed
SPECIFICATION FramingSpec
INVARIANTS RequestTakenWhole SameKeyRead
PROPERTIES ChannelSpec Received
CHECK_DEADLOCK FALSE
