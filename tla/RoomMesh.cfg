CONSTANTS
  t = t s = s
  Pages <- TeacherAndStudent
  Teachers <- TheTeacher
  Sockets <- ThreeSockets
  MaxPresses = 4
  MaxFaults = 1
SPECIFICATION Spec
CHECK_DEADLOCK FALSE
INVARIANTS TypeOK MediaReaches NegotiationSettles ViewsAgree ShownMicsAreAllowed NoPictureOfTheGone
