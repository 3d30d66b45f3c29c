CONSTANTS
  Teacher = teacher
  Student = student
  Guest = guest
  Slides = slides
  Playback = playback
  People <- ThreePeople
  Guests <- OneGuest
  Owner <- Teacher
  Files <- OneFile
  Video <- Playback
  MaxMoves = 2
  MaxFaults = 1
SPECIFICATION Spec
INVARIANTS TypeOK StoreInStep EntitledSinceSent InvitationsStand
CHECK_DEADLOCK FALSE
