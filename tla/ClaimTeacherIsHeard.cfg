CONSTANTS
  r1 = r1 r2 = r2 p1 = p1
  Recorders <- TwoPages
  Watched <- r1
  Stage <- OneParticipant
  PartMin = 2
  MaxSlices = 3
  Slices <- ThreeAndOne
  MaxUploads = 2
  MaxFaults = 1
SPECIFICATION Spec
INVARIANT TeacherIsHeard
CHECK_DEADLOCK FALSE
