CONSTANTS
  HeaderSize = 3
  Base = 4
  Text = 1
  MaxFrame = 15
  Sizes = {1, 2, 4, 8}
  MaxFrames = 4
  Threads = {t1, t2, t3}
  Socks = {1, 2}
  Default = 10
  Waits = {1, 10}
  None = None
  Savers = {s1, s2, s3}
  Mac = Mac
  Pc = Pc
  Absent = Absent
  Devices <- MCDevices
  TextLength <- MCTextLength
  Foreign = {}
  Overrides <- MCOverrides
SPECIFICATION IOSpec
INVARIANTS
  FrameSurvivesTimeout
