SPECIFICATION CodecSpec
CONSTANTS
  Absent = Absent
  Malformed = Malformed
  Failed = Failed
  Panicked = Panicked
  Nil = Nil
  a1 = a1
  a2 = a2
  a3 = a3
  Addresses = {a1, a2, a3}
  Power <- VotingPower
  MaxHeight = 2
  MaxRound = 1
  Payloads = {d1}
  Contents = {d1, d2}
  Streams = {stream1, stream2}
  Peers = {peer1, peer2}
INVARIANTS
  ServedVerify
  SyncedAsDecided
  ReceivedAsSent
  DamagedRefused
CHECK_DEADLOCK FALSE
