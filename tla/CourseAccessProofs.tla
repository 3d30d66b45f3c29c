-------------------------- MODULE CourseAccessProofs --------------------------
(***************************************************************************)
(* The properties of a course with its files, for any people, guests,      *)
(* files and bounds: types, roles that stand, access only while entitled,  *)
(* and a bucket in step with the tables.                                   *)
(*                                                                         *)
(* TypeOK says little of what a job carries.  TypeInv says it by kind, so  *)
(* that what a handler has read is known where it acts on it.              *)
(***************************************************************************)
EXTENDS CourseAccess, TLAPS

JoinJob == [kind : {"join"}, step : {"sent", "granted", "done"}, code : Nat]
InviteJob == [kind : {"invite"}, step : {"sent", "granted", "done"},
              who : Accounts, role : {"STUDENT", "TEACHER"}]
RemoveJob == [kind : {"remove"}, step : {"sent", "granted", "done"}, who : Accounts]
RotateJob == [kind : {"rotate"}, step : {"sent", "granted", "done"}]
PublishJob == [kind : {"publish"}, step : {"sent", "granted", "done"}, to : BOOLEAN]
LoadJob == [kind : {"load"}, step : {"sent", "done"}, left : SUBSET {"course", "list"},
            admitted : {"no", "visitor", "yes"}, seen : View]
DeletionJob == [kind : {"delete session", "delete course"},
                step : {"sent", "granted", "keys", "half", "purged", "done"},
                keys : SUBSET Objects]

PersonJob == {Idle} \cup JoinJob \cup InviteJob \cup RemoveJob \cup RotateJob \cup PublishJob
             \cup LoadJob \cup DeletionJob

FileJob ==
  {Idle, Over} \cup [kind : {"attach"}, step : {"signed", "held", "granted", "done"}, by : People]

VideoJob == {Over} \cup [kind : {"transcode"}, step : {"running", "put", "done"}]

\* What a slot of the job table may hold.
JobOf(s) == IF s \in People THEN PersonJob ELSE IF s \in Files THEN FileJob ELSE VideoJob

JobsOK ==
  /\ DOMAIN job = Slots
  /\ \A s \in Slots : job[s] \in JobOf(s)

CourseOK ==
  /\ course \in [here : BOOLEAN, public : BOOLEAN, code : Nat \ {0}]
  /\ members \in [People -> Roles]
  /\ \A p \in People : members[p] # "none" => course.here /\ p \in Accounts
  /\ given \in [People -> Roles]

FilesOK ==
  /\ session \in BOOLEAN /\ (session => course.here)
  /\ rows \subseteq (IF session THEN Objects ELSE {})
  /\ store \subseteq Objects
  /\ kept \subseteq Objects

PagesOK ==
  /\ page \in [People -> View]
  /\ good \in [People -> BOOLEAN]
  /\ cut \in BOOLEAN
  /\ moves \in 0 .. MaxMoves
  /\ faults \in 0 .. MaxFaults

TypeInv == JobsOK /\ CourseOK /\ FilesOK /\ PagesOK

-----------------------------------------------------------------------------
(* Slots.                                                                   *)

LEMMA SlotSorts ==
  /\ \A p \in People : p \in Slots /\ JobOf(p) = PersonJob
  /\ \A f \in Files : f \in Slots /\ f \notin People /\ f # Video /\ JobOf(f) = FileJob
  /\ Video \in Slots /\ Video \notin People /\ Video \notin Files /\ JobOf(Video) = VideoJob
  /\ \A s \in Slots : s \in People \/ s \in Files \/ s = Video
BY AccessAssumption DEF Slots, Objects, JobOf

LEMMA Jobs ==
  ASSUME JobsOK
  PROVE  /\ \A p \in People : job[p] \in PersonJob
         /\ \A f \in Files : job[f] \in FileJob
         /\ job[Video] \in VideoJob
BY SlotSorts DEF JobsOK

\* What is known of a request by its kind.
LEMMA Kinds ==
  ASSUME NEW j \in PersonJob
  PROVE  /\ j.step \in {"idle", "sent", "granted", "keys", "half", "purged", "done"}
         /\ j.kind = "idle" <=> j = Idle
         /\ j.step = "idle" <=> j = Idle
         /\ j.kind = "join" <=> j \in JoinJob
         /\ j.kind = "invite" <=> j \in InviteJob
         /\ j.kind = "remove" <=> j \in RemoveJob
         /\ j.kind = "rotate" <=> j \in RotateJob
         /\ j.kind = "publish" <=> j \in PublishJob
         /\ j.kind = "load" <=> j \in LoadJob
         /\ IsDeletion(j) <=> j \in DeletionJob
<1>1. Idle.kind = "idle" /\ Idle.step = "idle"
  BY DEF Idle
<1>2. j \in JoinJob => j.kind = "join" /\ j.step \in {"sent", "granted", "done"}
  BY DEF JoinJob
<1>3. j \in InviteJob => j.kind = "invite" /\ j.step \in {"sent", "granted", "done"}
  BY DEF InviteJob
<1>4. j \in RemoveJob => j.kind = "remove" /\ j.step \in {"sent", "granted", "done"}
  BY DEF RemoveJob
<1>5. j \in RotateJob => j.kind = "rotate" /\ j.step \in {"sent", "granted", "done"}
  BY DEF RotateJob
<1>6. j \in PublishJob => j.kind = "publish" /\ j.step \in {"sent", "granted", "done"}
  BY DEF PublishJob
<1>7. j \in LoadJob => j.kind = "load" /\ j.step \in {"sent", "done"}
  BY DEF LoadJob
<1>8. j \in DeletionJob => /\ j.kind \in {"delete session", "delete course"}
                          /\ j.step \in {"sent", "granted", "keys", "half", "purged", "done"}
  BY DEF DeletionJob
<1> QED
  BY <1>1, <1>2, <1>3, <1>4, <1>5, <1>6, <1>7, <1>8 DEF PersonJob, IsDeletion

\* A request that is granted or answered stays of its kind, and keeps what it carries.
LEMMA Granted ==
  ASSUME NEW j \in JoinJob \cup InviteJob \cup RemoveJob \cup RotateJob \cup PublishJob,
         NEW step \in {"sent", "granted", "done"}
  PROVE  LET new == [j EXCEPT !.step = step] IN
         /\ new \in JoinJob \cup InviteJob \cup RemoveJob \cup RotateJob \cup PublishJob
         /\ new.kind = j.kind /\ new.step = step
         /\ j \in JoinJob => new.code = j.code
<1>1. CASE j \in JoinJob
  BY <1>1 DEF JoinJob
<1>2. CASE j \in InviteJob
  BY <1>2 DEF InviteJob, JoinJob
<1>3. CASE j \in RemoveJob
  BY <1>3 DEF RemoveJob, JoinJob
<1>4. CASE j \in RotateJob
  BY <1>4 DEF RotateJob, JoinJob
<1>5. CASE j \in PublishJob
  BY <1>5 DEF PublishJob, JoinJob
<1> QED
  BY <1>1, <1>2, <1>3, <1>4, <1>5

LEMMA Deleted ==
  ASSUME NEW j \in DeletionJob,
         NEW step \in {"sent", "granted", "keys", "half", "purged", "done"}
  PROVE  LET new == [j EXCEPT !.step = step] IN
         new \in DeletionJob /\ new.kind = j.kind /\ new.step = step /\ new.keys = j.keys
BY DEF DeletionJob

LEMMA Gathered ==
  ASSUME NEW j \in DeletionJob, NEW keys \in SUBSET Objects
  PROVE  LET new == [j EXCEPT !.keys = keys, !.step = "keys"] IN
         new \in DeletionJob /\ new.kind = j.kind /\ new.step = "keys" /\ new.keys = keys
BY DEF DeletionJob

LEMMA FileMoves ==
  ASSUME NEW j \in FileJob, j \notin {Idle, Over}, NEW step \in {"signed", "held", "granted", "done"}
  PROVE  [j EXCEPT !.step = step] \in FileJob /\ [j EXCEPT !.step = step].step = step
BY DEF FileJob

LEMMA VideoMoves ==
  ASSUME NEW j \in VideoJob, j # Over, NEW step \in {"running", "put", "done"}
  PROVE  [j EXCEPT !.step = step] \in VideoJob /\ [j EXCEPT !.step = step].step = step
BY DEF VideoJob

LEMMA TypeInvType == TypeInv => TypeOK
<1> SUFFICES ASSUME TypeInv PROVE TypeOK
  OBVIOUS
<1>1. \A p \in People : job[p].step \in {"idle", "sent", "granted", "keys", "half", "purged", "done"}
  BY Jobs, Kinds DEF TypeInv
<1>2. \A f \in Files : job[f].step \in {"idle", "signed", "held", "granted", "done", "over"}
  BY Jobs DEF TypeInv, FileJob, Idle, Over
<1>3. job[Video].step \in {"running", "put", "done", "over"}
  BY Jobs DEF TypeInv, VideoJob, Over
<1> QED BY <1>1, <1>2, <1>3 DEF TypeInv, JobsOK, CourseOK, FilesOK, PagesOK, TypeOK

\* One slot changes.
LEMMA JobMoves ==
  ASSUME JobsOK, NEW s \in Slots, NEW new \in JobOf(s), job' = [job EXCEPT ![s] = new]
  PROVE  /\ JobsOK'
         /\ job'[s] = new
         /\ \A o \in Slots \ {s} : job'[o] = job[o]
BY DEF JobsOK, JobOf

\* A reload as it is sent, and as its answers come in.
LEMMA Loads ==
  ASSUME NEW site \in Sites \cup {"none"}
  PROVE  /\ Blank \in View
         /\ Loading(site) \in LoadJob /\ Loading(site).step = "sent"
<1>1. Blank \in View
  BY DEF Blank, View, Roles
<1>2. [Blank EXCEPT !.site = site] \in View
  BY <1>1 DEF View
<1> QED
  BY <1>1, <1>2 DEF Loading, LoadJob

LEMMA Parts ==
  ASSUME NEW j \in LoadJob, NEW left \in SUBSET {"course", "list"}, NEW seen \in View,
         NEW step \in {"sent", "done"}
  PROVE  LET new == [j EXCEPT !.left = left, !.seen = seen, !.step = step] IN
         /\ new \in LoadJob /\ new.kind = j.kind /\ new.step = step /\ new.left = left
         /\ new.admitted = j.admitted /\ new.seen = seen
BY DEF LoadJob

LEMMA Admitted ==
  ASSUME NEW j \in LoadJob, NEW how \in {"visitor", "yes"}
  PROVE  LET new == [j EXCEPT !.admitted = how] IN
         /\ new \in LoadJob /\ new.kind = j.kind /\ new.step = j.step /\ new.left = j.left
         /\ new.admitted = how /\ new.seen = j.seen
BY DEF LoadJob

LEMMA Seen ==
  ASSUME NEW seen \in View, NEW role \in Roles, NEW public \in BOOLEAN, NEW here \in BOOLEAN,
         NEW people \in SUBSET Accounts
  PROVE  /\ [seen EXCEPT !.role = role, !.public = public] \in View
         /\ [seen EXCEPT !.session = here] \in View
         /\ [seen EXCEPT !.people = people] \in View
         /\ [seen EXCEPT !.role = role, !.public = public].site = seen.site
BY DEF View

-----------------------------------------------------------------------------
(* The job table, as the actions move it.                                   *)

LEMMA Sends ==
  ASSUME JobsOK, NEW p \in People, NEW request \in PersonJob, Send(p, request), moves \in 0 .. MaxMoves
  PROVE  /\ JobsOK' /\ moves' \in 0 .. MaxMoves
         /\ job'[p] = request
         /\ \A o \in Slots \ {p} : job'[o] = job[o]
<1>1. job' = [job EXCEPT ![p] = request] /\ moves < MaxMoves /\ moves' = moves + 1
  BY DEF Send
<1>2. moves' \in 0 .. MaxMoves
  BY <1>1, AccessAssumption
<1> QED
  BY <1>1, <1>2, JobMoves, SlotSorts

LEMMA Refusals ==
  ASSUME JobsOK, NEW p \in People, Refuse(p)
  PROVE  /\ JobsOK'
         /\ job'[p] = Idle
         /\ \A o \in Slots \ {p} : job'[o] = job[o]
<1>1. Idle \in PersonJob
  BY DEF PersonJob
<1> QED
  BY <1>1, JobMoves, SlotSorts DEF Refuse

LEMMA Goes ==
  ASSUME JobsOK, NEW s \in Slots, NEW step, Go(s, step), [job[s] EXCEPT !.step = step] \in JobOf(s)
  PROVE  /\ JobsOK'
         /\ job'[s] = [job[s] EXCEPT !.step = step]
         /\ \A o \in Slots \ {s} : job'[o] = job[o]
<1>1. job' = [job EXCEPT ![s] = [job[s] EXCEPT !.step = step]]
  BY DEF Go
<1> QED
  BY <1>1, JobMoves

LEMMA Restarts ==
  ASSUME JobsOK, Restart
  PROVE  /\ JobsOK'
         /\ \A p \in People : job'[p] = Idle
         /\ \A f \in Files : job'[f] = IF job[f].step = "granted" THEN Over ELSE job[f]
         /\ job'[Video] = job[Video]
<1>1. \A s \in Slots : job'[s] = Dropped(s)
  BY DEF Restart
<1>2. \A p \in People : job'[p] = Idle
  BY <1>1, SlotSorts DEF Dropped
<1>3. \A f \in Files : job'[f] = IF job[f].step = "granted" THEN Over ELSE job[f]
  BY <1>1, SlotSorts DEF Dropped
<1>4. job'[Video] = job[Video]
  BY <1>1, SlotSorts DEF Dropped
<1>5. DOMAIN job' = Slots
  BY DEF Restart
<1>6. Idle \in PersonJob /\ Over \in FileJob
  BY DEF PersonJob, FileJob
<1>7. \A s \in Slots : job'[s] \in JobOf(s)
  BY <1>2, <1>3, <1>4, <1>6, SlotSorts, Jobs
<1> QED
  BY <1>2, <1>3, <1>4, <1>5, <1>7 DEF JobsOK, JobOf

\* A request that goes on, as the table shows it.
LEMMA RequestGoes ==
  ASSUME JobsOK, NEW p \in People, NEW step \in {"granted", "done"}, Go(p, step),
         job[p] \in JoinJob \cup InviteJob \cup RemoveJob \cup RotateJob \cup PublishJob
  PROVE  /\ job'[p].kind = job[p].kind /\ job'[p].step = step
         /\ job[p] \in JoinJob => job'[p].code = job[p].code
<1> DEFINE new == [job[p] EXCEPT !.step = step]
<1>1. job'[p] = new
  BY SlotSorts DEF Go, JobsOK
<1>2. new.kind = job[p].kind /\ new.step = step
  BY Granted
<1>3. job[p] \in JoinJob => new.code = job[p].code
  BY Granted
<1> HIDE DEF new
<1> QED
  BY <1>1, <1>2, <1>3

LEMMA DeletionGoes ==
  ASSUME JobsOK, NEW p \in People, NEW step \in {"granted", "half", "purged", "done"},
         Go(p, step), job[p] \in DeletionJob
  PROVE  /\ job'[p] \in DeletionJob
         /\ job'[p].kind = job[p].kind /\ job'[p].step = step /\ job'[p].keys = job[p].keys
<1> DEFINE new == [job[p] EXCEPT !.step = step]
<1>1. job'[p] = new
  BY SlotSorts DEF Go, JobsOK
<1>2. new \in DeletionJob /\ new.kind = job[p].kind /\ new.step = step /\ new.keys = job[p].keys
  BY DEF DeletionJob
<1> HIDE DEF new
<1> QED
  BY <1>1, <1>2

LEMMA DeletionGathers ==
  ASSUME JobsOK, NEW p \in People, NEW keys \in SUBSET Objects, job[p] \in DeletionJob,
         job' = [job EXCEPT ![p].keys = keys, ![p].step = "keys"]
  PROVE  /\ job'[p] \in DeletionJob
         /\ job'[p].kind = job[p].kind /\ job'[p].step = "keys" /\ job'[p].keys = keys
<1> DEFINE new == [job[p] EXCEPT !.keys = keys, !.step = "keys"]
<1>1. job'[p] = new
  BY SlotSorts DEF JobsOK
<1>2. new \in DeletionJob /\ new.kind = job[p].kind /\ new.step = "keys" /\ new.keys = keys
  BY Gathered
<1> HIDE DEF new
<1> QED
  BY <1>1, <1>2

\* An answer to a reload.
LEMMA ReloadGoes ==
  ASSUME JobsOK, NEW p \in People, job[p] \in LoadJob, NEW part \in {"course", "list"},
         NEW seen \in View, Part(p, part, seen)
  PROVE  /\ job'[p].kind = "load" /\ job'[p].left = job[p].left \ {part}
         /\ job'[p].admitted = job[p].admitted /\ job'[p].step \in {"sent", "done"}
         /\ job'[p].left # {} => job'[p].step = "sent"
<1> DEFINE j == job[p]
           left == j.left \ {part}
           step == IF left = {} THEN "done" ELSE "sent"
           new == [j EXCEPT !.left = left, !.seen = seen, !.step = step]
<1>1. job' = [job EXCEPT ![p] = new]
  BY DEF Part
<1>2. job'[p] = new
  BY <1>1, SlotSorts DEF JobsOK
<1>3. left \in SUBSET {"course", "list"} /\ step \in {"sent", "done"} /\ (left # {} => step = "sent")
  BY DEF LoadJob
<1>4. new.kind = "load" /\ new.step = step /\ new.left = left /\ new.admitted = j.admitted
  <2> HIDE DEF left, step
  <2> QED
    BY <1>3 DEF LoadJob
<1> HIDE DEF new, step
<1> QED
  BY <1>2, <1>3, <1>4

-----------------------------------------------------------------------------
(* Types.                                                                   *)

LEMMA TypeInit == Init => TypeInv
<1> SUFFICES ASSUME Init PROVE TypeInv
  OBVIOUS
<1>1. JobsOK
  <2>1. Transcoding \in VideoJob /\ Idle \in PersonJob /\ Idle \in FileJob
    BY DEF Transcoding, VideoJob, PersonJob, FileJob
  <2>2. job = [s \in Slots |-> IF s = Video THEN Transcoding ELSE Idle]
    BY DEF Init
  <2> QED
    BY <2>1, <2>2, SlotSorts DEF JobsOK
<1>2. CourseOK
  <2>1. course \in [here : BOOLEAN, public : BOOLEAN, code : Nat \ {0}] /\ course.here
    <3>1. course \in [here : {TRUE}, public : BOOLEAN, code : {1}]
      BY DEF Init
    <3>2. 1 \in Nat \ {0}
      OBVIOUS
    <3> QED
      BY <3>1, <3>2
  <2>2. members \in [People -> Roles] /\ \A p \in Guests : members[p] = "none"
    BY DEF Init
  <2>3. given \in [People -> Roles]
    BY DEF Init, Roles
  <2> QED
    BY <2>1, <2>2, <2>3 DEF CourseOK, Accounts
<1>3. FilesOK
  BY DEF Init, FilesOK
<1>4. PagesOK
  <2>1. \A p \in People, site \in Sites : Loaded(p, site) \in View
    BY <1>2, <1>3 DEF CourseOK, FilesOK, Loaded, View
  <2>2. Blank \in View
    BY Loads
  <2>3. page \in [People -> View]
    BY <2>1, <2>2 DEF Init, Sites
  <2>4. good \in [People -> BOOLEAN] /\ cut \in BOOLEAN
    BY DEF Init
  <2>5. moves \in 0 .. MaxMoves /\ faults \in 0 .. MaxFaults
    <3>1. MaxMoves \in Nat /\ MaxFaults \in Nat
      BY AccessAssumption
    <3> QED
      BY <3>1 DEF Init
  <2> QED
    BY <2>3, <2>4, <2>5 DEF PagesOK
<1> QED
  BY <1>1, <1>2, <1>3, <1>4 DEF TypeInv

LEMMA ClicksType ==
  ASSUME TypeInv, NEW p \in People, Clicks(p), good' \in [People -> BOOLEAN]
  PROVE  TypeInv'
<1>1. CourseOK' /\ FilesOK' /\ cut' \in BOOLEAN
  <2>1. UNCHANGED <<data, history>>
    BY DEF Clicks, Open, Join, Invite, Remove, Rotate, Toggle,
           DeleteSession, DeleteCourse, Answered, Send
  <2> QED
    BY <2>1 DEF TypeInv, CourseOK, FilesOK, PagesOK, data, history
<1>2. JobsOK /\ moves \in 0 .. MaxMoves /\ page \in [People -> View] /\ page[p] \in View
  BY DEF TypeInv, PagesOK
<1>3. \A request \in PersonJob :
        Send(p, request) => JobsOK' /\ moves' \in 0 .. MaxMoves /\ faults' = faults
  BY <1>2, Sends DEF Send
<1>4. /\ Blank \in View /\ LoadJob \subseteq PersonJob
      /\ \A site \in Sites \cup {"none"} : Loading(site) \in LoadJob
  BY Loads DEF PersonJob
<1>5. CASE Open(p)
  BY <1>1, <1>2, <1>3, <1>4, <1>5 DEF Open, TypeInv, PagesOK
<1>6. CASE Join(p)
  <2>1. \A c \in 1 .. course.code : Joining(c) \in PersonJob
    BY DEF Joining, JoinJob, PersonJob
  <2> QED
    BY <1>1, <1>3, <1>6, <2>1 DEF Join, TypeInv, PagesOK
<1>7. CASE Invite(p)
  <2>1. \A who \in Accounts, role \in {"STUDENT", "TEACHER"} : Inviting(who, role) \in PersonJob
    BY DEF Inviting, InviteJob, PersonJob
  <2> QED
    BY <1>1, <1>3, <1>7, <2>1 DEF Invite, TypeInv, PagesOK
<1>8. CASE Remove(p)
  <2>1. \A who \in Accounts : Removing(who) \in PersonJob
    BY DEF Removing, RemoveJob, PersonJob
  <2>2. page[p].people \subseteq Accounts
    BY <1>2 DEF View
  <2> QED
    BY <1>1, <1>3, <1>8, <2>1, <2>2 DEF Remove, TypeInv, PagesOK
<1>9. CASE Rotate(p)
  <2>1. Rotating \in PersonJob
    BY DEF Rotating, RotateJob, PersonJob
  <2> QED
    BY <1>1, <1>3, <1>9, <2>1 DEF Rotate, TypeInv, PagesOK
<1>10. CASE Toggle(p)
  <2>1. Publishing(~page[p].public) \in PersonJob
    BY DEF Publishing, PublishJob, PersonJob
  <2> QED
    BY <1>1, <1>3, <1>10, <2>1 DEF Toggle, TypeInv, PagesOK
<1>11. CASE DeleteSession(p) \/ DeleteCourse(p)
  <2>1. Deleting("delete session") \in PersonJob /\ Deleting("delete course") \in PersonJob
    BY DEF Deleting, DeletionJob, PersonJob
  <2> QED
    BY <1>1, <1>3, <1>11, <2>1 DEF DeleteSession, DeleteCourse, TypeInv, PagesOK
<1>12. CASE Answered(p)
  <2>1. Idle \in PersonJob /\ page[p].site \in Sites \cup {"none"}
    BY <1>2 DEF PersonJob, View
  <2>2. \E new \in PersonJob : job' = [job EXCEPT ![p] = new]
    BY <1>4, <1>12, <2>1 DEF Answered, Sites
  <2>3. JobsOK'
    <3>1. PICK new \in PersonJob : job' = [job EXCEPT ![p] = new]
      BY <2>2
    <3>2. p \in Slots /\ new \in JobOf(p)
      BY SlotSorts
    <3> QED
      BY <1>2, <3>1, <3>2, JobMoves
  <2>4. job[p].kind = "load" => job[p].seen \in View
    BY <1>2, Jobs, Kinds DEF LoadJob
  <2>5. page' \in [People -> View]
    BY <1>2, <1>4, <1>12, <2>4 DEF Answered
  <2>6. UNCHANGED <<moves, faults>>
    BY <1>12 DEF Answered, bounds
  <2> QED
    BY <1>1, <2>3, <2>5, <2>6 DEF TypeInv, PagesOK
<1> QED
  BY <1>5, <1>6, <1>7, <1>8, <1>9, <1>10, <1>11, <1>12 DEF Clicks

LEMMA HandlersType ==
  ASSUME TypeInv, NEW p \in People, Handlers(p), good' \in [People -> BOOLEAN]
  PROVE  TypeInv'
<1> DEFINE Updates == JoinJob \cup InviteJob \cup RemoveJob \cup RotateJob \cup PublishJob
           j == job[p]
<1>1. JobsOK /\ j \in PersonJob /\ p \in Slots /\ JobOf(p) = PersonJob
  BY Jobs, SlotSorts DEF TypeInv
<1>2. Updates \subseteq PersonJob /\ DeletionJob \subseteq PersonJob /\ LoadJob \subseteq PersonJob
  BY DEF PersonJob
<1>3. Refuse(p) => JobsOK' /\ UNCHANGED <<course, members, session, rows, store, given, kept, cut>>
  BY <1>1, Refusals DEF Refuse, data, history
<1>4. \A step \in {"sent", "granted", "done"} : Go(p, step) /\ j \in Updates => JobsOK'
  BY <1>1, <1>2, Granted, Goes
<1>5. \A step \in {"granted", "keys", "half", "purged", "done"} : Go(p, step) /\ IsDeletion(j) => JobsOK'
  BY <1>1, <1>2, Deleted, Goes, Kinds
<1> USE good' \in [People -> BOOLEAN]
<1>6. CASE Authorise(p)
  <2>1. j \in Updates \/ IsDeletion(j)
    BY <1>1, <1>6, Kinds DEF Authorise, IsUpdate
  <2>2. JobsOK'
    BY <1>3, <1>4, <1>5, <1>6, <2>1 DEF Authorise
  <2> QED
    BY <1>3, <1>6, <2>2 DEF Authorise, TypeInv, CourseOK, FilesOK, PagesOK, data, history, bounds
<1>7. CASE LookUp(p)
  <2>1. JobsOK'
    BY <1>1, <1>3, <1>4, <1>7, Kinds DEF LookUp
  <2> QED
    BY <1>3, <1>7, <2>1 DEF LookUp, TypeInv, CourseOK, FilesOK, PagesOK, data, history, bounds
<1>8. CASE Enrol(p)
  <2>1. JobsOK'
    BY <1>1, <1>3, <1>4, <1>8, Kinds DEF Enrol
  <2>2. CourseOK'
    BY <1>3, <1>8 DEF Enrol, Takes, Enrolled, TypeInv, CourseOK, Roles, history
  <2> QED
    BY <1>3, <1>8, <2>1, <2>2 DEF Enrol, TypeInv, FilesOK, PagesOK, history, bounds
<1>9. CASE Enlist(p)
  <2>1. j \in InviteJob
    BY <1>1, <1>9, Kinds DEF Enlist
  <2>2. JobsOK'
    BY <1>3, <1>4, <1>9, <2>1 DEF Enlist
  <2>3. j.who \in Accounts /\ j.role \in Roles
    BY <2>1 DEF InviteJob, Roles
  <2>4. CourseOK'
    BY <1>3, <1>9, <2>3 DEF Enlist, Give, TypeInv, CourseOK, Accounts
  <2> QED
    BY <1>3, <1>9, <2>2, <2>4 DEF Enlist, Give, TypeInv, FilesOK, PagesOK, bounds
<1>10. CASE Expel(p)
  <2>1. j \in RemoveJob
    BY <1>1, <1>10, Kinds DEF Expel
  <2>2. JobsOK'
    BY <1>3, <1>4, <1>10, <2>1 DEF Expel
  <2>3. CourseOK'
    BY <1>3, <1>10 DEF Expel, Give, TypeInv, CourseOK, Roles
  <2> QED
    BY <1>3, <1>10, <2>2, <2>3 DEF Expel, Give, TypeInv, FilesOK, PagesOK, bounds
<1>11. CASE NewCode(p)
  <2>1. JobsOK'
    BY <1>1, <1>3, <1>4, <1>11, Kinds DEF NewCode, SetCourse
  <2>2. CourseOK' /\ (course.here => course'.here)
    BY <1>3, <1>11 DEF NewCode, SetCourse, TypeInv, CourseOK, history
  <2> QED
    BY <1>3, <1>11, <2>1, <2>2 DEF NewCode, SetCourse, TypeInv, FilesOK, PagesOK, history, bounds
<1>12. CASE Publish(p)
  <2>1. j \in PublishJob
    BY <1>1, <1>12, Kinds DEF Publish
  <2>2. JobsOK'
    BY <1>3, <1>4, <1>12, <2>1 DEF Publish, SetCourse
  <2>3. j.to \in BOOLEAN
    BY <2>1 DEF PublishJob
  <2>4. CourseOK' /\ (course.here => course'.here)
    BY <1>3, <1>12, <2>3 DEF Publish, SetCourse, TypeInv, CourseOK, history
  <2> QED
    BY <1>3, <1>12, <2>2, <2>4 DEF Publish, SetCourse, TypeInv, FilesOK, PagesOK, history, bounds
<1>13. CASE ReadCourse(p) \/ AdmitList(p) \/ ReadList(p)
  <2>1. j \in LoadJob
    BY <1>1, <1>13, Kinds DEF ReadCourse, AdmitList, ReadList
  <2>2. j.seen \in View /\ j.left \subseteq {"course", "list"}
    BY <2>1 DEF LoadJob
  <2>3. \A part \in {"course", "list"}, seen \in View : Part(p, part, seen) => JobsOK'
    <3> SUFFICES ASSUME NEW part \in {"course", "list"}, NEW seen \in View, Part(p, part, seen)
                 PROVE  JobsOK'
      OBVIOUS
    <3> DEFINE left == j.left \ {part}
               step == IF left = {} THEN "done" ELSE "sent"
               new == [j EXCEPT !.left = left, !.seen = seen, !.step = step]
    <3>1. left \in SUBSET {"course", "list"} /\ step \in {"sent", "done"}
      BY <2>2
    <3>2. new \in PersonJob
      <4> HIDE DEF left, step
      <4> QED
        BY <1>2, <2>1, <3>1, Parts
    <3>3. job' = [job EXCEPT ![p] = new]
      BY DEF Part
    <3> HIDE DEF new
    <3> QED
      BY <1>1, <3>2, <3>3, JobMoves
  <2>4. CASE ReadCourse(p)
    <3>1. members[p] \in Roles /\ course.public \in BOOLEAN
      BY DEF TypeInv, CourseOK
    <3>2. [j.seen EXCEPT !.role = members[p], !.public = course.public] \in View
      BY <2>2, <3>1, Seen
    <3>3. JobsOK'
      BY <1>3, <2>3, <2>4, <3>2 DEF ReadCourse
    <3> QED
      BY <1>3, <2>4, <3>3 DEF ReadCourse, TypeInv, CourseOK, FilesOK, PagesOK, data, history, bounds
  <2>5. CASE AdmitList(p)
    <3>1. ASSUME NEW how \in {"visitor", "yes"}, Admit(p, how) PROVE JobsOK'
      <4>1. [j EXCEPT !.admitted = how] \in PersonJob
        BY <1>2, <2>1, <2>2, Admitted
      <4> QED
        BY <1>1, <3>1, <4>1, JobMoves DEF Admit
    <3>2. Refuse(p) \/ \E how \in {"visitor", "yes"} : Admit(p, how)
      BY <2>5 DEF AdmitList
    <3>3. JobsOK'
      BY <1>3, <3>1, <3>2
    <3> QED
      BY <1>3, <2>5, <3>3 DEF AdmitList, Admit, TypeInv, CourseOK, FilesOK, PagesOK, data, history, bounds
  <2>6. CASE ReadList(p)
    <3>1. session \in BOOLEAN /\ {q \in Accounts : IsMember(q)} \in SUBSET Accounts /\ "none" \in Roles
      BY DEF TypeInv, FilesOK, Roles
    <3>2. /\ [j.seen EXCEPT !.people = {q \in Accounts : IsMember(q)}] \in View
          /\ [j.seen EXCEPT !.session = session] \in View
      BY <2>2, <3>1, Seen
    <3>3. JobsOK'
      BY <2>3, <2>6, <3>2 DEF ReadList
    <3> QED
      BY <2>6, <3>3 DEF ReadList, TypeInv, CourseOK, FilesOK, PagesOK, data, history, bounds
  <2> QED
    BY <1>13, <2>4, <2>5, <2>6
<1>14. CASE Gather(p)
  <2>1. j \in DeletionJob /\ Found \in SUBSET Objects
    BY <1>1, <1>14, Kinds DEF Gather, Found, TypeInv, FilesOK
  <2>2. [j EXCEPT !.keys = Found, !.step = "keys"] \in PersonJob
    BY <1>2, <2>1, Gathered
  <2>3. job' = [job EXCEPT ![p] = [j EXCEPT !.keys = Found, !.step = "keys"]] => JobsOK'
    BY <1>1, <2>2, JobMoves
  <2>4. JobsOK'
    BY <1>3, <1>14, <2>3 DEF Gather
  <2>5. UNCHANGED <<course, members, session, rows, store, given, kept, cut, page, moves, faults>>
    BY <1>3, <1>14 DEF Gather, data, history, bounds
  <2> QED
    BY <2>4, <2>5 DEF TypeInv, CourseOK, FilesOK, PagesOK
<1>15. CASE PurgeRecording(p) \/ PurgeChat(p)
  <2>1. j \in DeletionJob
    BY <1>1, <1>15, Kinds DEF PurgeRecording, PurgeChat
  <2>2. j.keys \subseteq Objects
    BY <2>1 DEF DeletionJob
  <2>3. JobsOK'
    BY <1>5, <1>15 DEF PurgeRecording, PurgeChat, Purge
  <2>4. store' \subseteq Objects /\ kept' \subseteq Objects /\ faults' \in 0 .. MaxFaults
    BY <1>15, <2>2, AccessAssumption DEF PurgeRecording, PurgeChat, Purge, Fault,
                                         TypeInv, FilesOK, PagesOK
  <2> QED
    BY <1>15, <2>3, <2>4 DEF PurgeRecording, PurgeChat, Purge, TypeInv, CourseOK, FilesOK, PagesOK
<1>16. CASE Cascade(p)
  <2>1. JobsOK'
    BY <1>3, <1>5, <1>16 DEF Cascade
  <2>2. CourseOK'
    BY <1>3, <1>16 DEF Cascade, TypeInv, CourseOK, Roles
  <2>3. \/ session' = FALSE /\ rows' = {}
        \/ UNCHANGED <<course, session, rows>>
    BY <1>3, <1>16 DEF Cascade
  <2>4. /\ session' \in BOOLEAN /\ (session' => course'.here)
        /\ rows' \subseteq (IF session' THEN Objects ELSE {})
    <3>1. CASE session' = FALSE /\ rows' = {}
      BY <3>1
    <3>2. CASE UNCHANGED <<course, session, rows>>
      BY <3>2 DEF TypeInv, FilesOK
    <3> QED
      BY <2>3, <3>1, <3>2
  <2>5. UNCHANGED <<store, kept, cut, page, moves, faults>>
    BY <1>3, <1>16 DEF Cascade, bounds
  <2> QED
    BY <2>1, <2>2, <2>4, <2>5 DEF TypeInv, FilesOK, PagesOK
<1> QED
  BY <1>6, <1>7, <1>8, <1>9, <1>10, <1>11, <1>12, <1>13, <1>14, <1>15, <1>16 DEF Handlers

LEMMA UploadsType ==
  ASSUME TypeInv, good' \in [People -> BOOLEAN],
         (\E f \in Files : Uploads(f)) \/ PutVideo \/ SaveVideo \/ Crash
  PROVE  TypeInv'
<1> USE good' \in [People -> BOOLEAN]
<1>1. /\ JobsOK /\ Video \in Slots /\ Video \in Objects
      /\ JobOf(Video) = VideoJob /\ job[Video] \in VideoJob
  BY Jobs, SlotSorts DEF TypeInv, Objects
<1>2. \A o \in Objects : Name(o) => /\ rows' \subseteq Objects /\ session /\ kept' \subseteq Objects
                                    /\ UNCHANGED <<course, members, session, store, given, cut>>
  BY DEF Name, TypeInv, FilesOK
<1>3. Restart => /\ JobsOK' /\ cut' \in BOOLEAN
                 /\ UNCHANGED <<course, members, session, rows, store, given, kept>>
  BY <1>1, Restarts DEF Restart, TypeInv, PagesOK, data
<1>4. Over \in VideoJob /\ Over \in FileJob /\ Over # Idle
  BY DEF VideoJob, FileJob, Over, Idle
<1>5. ASSUME NEW f \in Files, Uploads(f) PROVE TypeInv'
  <2>1. /\ f \in Slots /\ JobOf(f) = FileJob /\ job[f] \in FileJob /\ f \in Objects
        /\ job[f].step \notin {"idle", "over"} => job[f] \notin {Idle, Over}
    BY <1>1, Jobs, SlotSorts DEF Objects, Idle, Over
  <2>2. ASSUME NEW step \in {"held", "granted", "done"}, Go(f, step), job[f].step \notin {"idle", "over"}
        PROVE  JobsOK'
    BY <1>1, <2>1, <2>2, FileMoves, Goes
  <2>3. CASE Sign(f)
    <3>1. PICK p \in People : job' = [job EXCEPT ![f] = Attaching(p)]
      BY <2>3 DEF Sign
    <3>2. Attaching(p) \in FileJob
      BY DEF Attaching, FileJob
    <3>3. JobsOK'
      BY <1>1, <2>1, <3>1, <3>2, JobMoves
    <3> QED
      BY <2>3, <3>3 DEF Sign, TypeInv, CourseOK, FilesOK, PagesOK, data, history, bounds
  <2>4. CASE Put(f)
    BY <2>1, <2>2, <2>4 DEF Put, TypeInv, CourseOK, FilesOK, PagesOK, history, bounds
  <2>5. CASE Submit(f)
    <3>1. JobsOK'
      BY <1>1, <1>4, <2>1, <2>2, <2>5, JobMoves DEF Submit
    <3> QED
      BY <2>5, <3>1 DEF Submit, TypeInv, CourseOK, FilesOK, PagesOK, data, history, bounds
  <2>6. CASE SaveMessage(f)
    <3>1. JobsOK'
      BY <1>3, <2>2, <2>6 DEF SaveMessage, Name
    <3> QED
      BY <1>2, <1>3, <2>1, <2>6, <3>1 DEF SaveMessage, TypeInv, CourseOK, FilesOK, PagesOK, bounds
  <2> QED
    BY <1>5, <2>3, <2>4, <2>5, <2>6 DEF Uploads
<1>6. ASSUME NEW step \in {"put", "done"}, Go(Video, step), job[Video].step \in {"running", "put"}
      PROVE  JobsOK'
  <2>1. job[Video] # Over
    BY <1>6 DEF Over
  <2> QED
    BY <1>1, <1>6, <2>1, VideoMoves, Goes
<1>7. CASE PutVideo
  BY <1>1, <1>6, <1>7 DEF PutVideo, TypeInv, CourseOK, FilesOK, PagesOK, history, bounds
<1>8. CASE SaveVideo
  <2>1. JobsOK'
    BY <1>1, <1>4, <1>6, <1>8, JobMoves DEF SaveVideo, Name
  <2> QED
    BY <1>1, <1>2, <1>8, <2>1 DEF SaveVideo, TypeInv, CourseOK, FilesOK, PagesOK, data, history, bounds
<1>9. CASE Crash
  <2>1. faults' \in 0 .. MaxFaults
    BY <1>9, AccessAssumption DEF Crash, Fault, TypeInv, PagesOK
  <2> QED
    BY <1>3, <1>9, <2>1 DEF Crash, TypeInv, CourseOK, FilesOK, PagesOK
<1> QED
  BY <1>5, <1>7, <1>8, <1>9

LEMMA TypeStep == TypeInv /\ [Next]_vars => TypeInv'
<1> SUFFICES ASSUME TypeInv, [Next]_vars PROVE TypeInv'
  OBVIOUS
<1>1. CASE Next
  <2>1. good' \in [People -> BOOLEAN]
    BY <1>1 DEF Next, Remember
  <2> QED
    BY <1>1, <2>1, ClicksType, HandlersType, UploadsType DEF Next, Step
<1>2. CASE UNCHANGED vars
  BY <1>2 DEF vars, data, history, bounds, TypeInv, JobsOK, CourseOK, FilesOK, PagesOK
<1> QED
  BY <1>1, <1>2

\* The variables have their types, in every reachable state: a role is held by
\* an account and while there is the course, a session is one of the course
\* that is there, and rows are of a session that is.
THEOREM TypeCorrect == Spec => []TypeOK
<1>1. Spec => []TypeInv
  BY TypeInit, TypeStep, PTL DEF Spec
<1> QED
  BY <1>1, TypeInvType, PTL

-----------------------------------------------------------------------------
(* Roles.                                                                   *)

\* A role a teacher has given stands, and only a join makes one beside it: in
\* every reachable state somebody whose role is not the one last given has been
\* given none, and is the student the join has made them (the upsert of
\* memberships.routes.ts writes nothing of a member).
THEOREM InvitationsStandAlways == Spec => []InvitationsStand
<1>1. Init => InvitationsStand
  BY DEF Init, InvitationsStand, Roles
<1>2. TypeInv /\ InvitationsStand /\ [Next]_vars => InvitationsStand'
  <2> SUFFICES ASSUME TypeInv, InvitationsStand, [Next]_vars PROVE InvitationsStand'
    OBVIOUS
  <2>1. CASE UNCHANGED <<members, given>>
    BY <2>1 DEF InvitationsStand
  <2>2. ASSUME NEW p \in People, Enrol(p) PROVE InvitationsStand'
    <3>1. CASE members' = Enrolled(p) /\ UNCHANGED given
      BY <3>1 DEF TypeInv, CourseOK, InvitationsStand, Enrolled
    <3> QED
      BY <2>1, <2>2, <3>1 DEF Enrol, Refuse, data, history
  <2>3. ASSUME NEW who, NEW role, Give(who, role) PROVE InvitationsStand'
    BY <2>3 DEF Give, TypeInv, CourseOK, InvitationsStand
  <2>4. ASSUME NEW p \in People, Cascade(p) PROVE InvitationsStand'
    <3>1. CASE members' = [q \in People |-> "none"] /\ given' = [q \in People |-> "none"]
      BY <3>1 DEF InvitationsStand
    <3> QED
      BY <2>1, <2>4, <3>1 DEF Cascade, Refuse, data, history
  <2>5. ASSUME NEW p \in People, Enlist(p) \/ Expel(p) PROVE InvitationsStand'
    BY <2>1, <2>3, <2>5 DEF Enlist, Expel, Refuse, data, history
  <2>6. ASSUME NEW p \in People, Clicks(p) PROVE UNCHANGED <<members, given>>
    BY <2>6 DEF Clicks, Open, Join, Invite, Remove, Rotate, Toggle, DeleteSession, DeleteCourse,
                Answered, Send, data, history
  <2>7. ASSUME NEW p \in People, Handlers(p), ~Enrol(p), ~Enlist(p), ~Expel(p), ~Cascade(p)
        PROVE  UNCHANGED <<members, given>>
    <3>1. Refuse(p) => UNCHANGED <<members, given>>
      BY DEF Refuse, data, history
    <3>2. CASE Authorise(p) \/ LookUp(p)
      BY <3>1, <3>2 DEF Authorise, LookUp, data, history
    <3>3. CASE NewCode(p) \/ Publish(p)
      BY <3>1, <3>3 DEF NewCode, Publish, SetCourse, history
    <3>4. CASE ReadCourse(p) \/ AdmitList(p) \/ ReadList(p)
      BY <3>1, <3>4 DEF ReadCourse, AdmitList, Admit, ReadList, data, history
    <3>5. CASE Gather(p) \/ PurgeRecording(p) \/ PurgeChat(p)
      BY <3>1, <3>5 DEF Gather, PurgeRecording, PurgeChat, Purge, data, history
    <3> QED
      BY <2>7, <3>2, <3>3, <3>4, <3>5 DEF Handlers
  <2>8. ASSUME (\E f \in Files : Uploads(f)) \/ PutVideo \/ SaveVideo \/ Crash
        PROVE  UNCHANGED <<members, given>>
    BY <2>8 DEF Uploads, Sign, Put, Submit, SaveMessage, PutVideo, SaveVideo, Crash, Name, Restart,
                data, history
  <2>9. CASE UNCHANGED vars
    BY <2>1, <2>9 DEF vars, data, history
  <2> QED
    BY <2>1, <2>2, <2>4, <2>5, <2>6, <2>7, <2>8, <2>9 DEF Next, Step
<1> QED
  BY <1>1, <1>2, TypeInit, TypeStep, PTL DEF Spec

-----------------------------------------------------------------------------
(* Access.                                                                  *)

\* What is known of a job on its way: past its check it was entitled, and of
\* the two GETs of a reload the second is answered only once it is admitted.
EntitledAt(p) ==
  /\ job[p].step \notin {"idle", "sent"} => good[p]
  /\ job[p].kind = "load" =>
       /\ job[p].admitted = "yes" => good[p]
       /\ "list" \in job[p].left \/ job[p].admitted = "yes"
       /\ job[p].left # {} => job[p].step = "sent"

EntitledInv == \A p \in People : EntitledAt(p)

LEMMA Alone ==
  ASSUME JobsOK, NEW p \in People, Clicks(p) \/ Handlers(p)
  PROVE  \A o \in Slots \ {p} : job'[o] = job[o]
<1>1. CASE Clicks(p)
  BY <1>1 DEF Clicks, Open, Join, Invite, Remove, Rotate, Toggle, DeleteSession, DeleteCourse,
              Answered, Send, JobsOK
<1>2. CASE Handlers(p)
  <2> SUFFICES ASSUME NEW o \in Slots \ {p} PROVE job'[o] = job[o]
    OBVIOUS
  <2>1. Refuse(p) => job'[o] = job[o]
    BY DEF Refuse, JobsOK
  <2>2. \A step : Go(p, step) => job'[o] = job[o]
    BY DEF Go, JobsOK
  <2>3. CASE Authorise(p) \/ LookUp(p) \/ Enrol(p) \/ Enlist(p) \/ Expel(p) \/ NewCode(p) \/ Publish(p)
    BY <2>1, <2>2, <2>3 DEF Authorise, LookUp, Enrol, Enlist, Expel, NewCode, Publish, SetCourse
  <2>4. CASE ReadCourse(p) \/ AdmitList(p) \/ ReadList(p)
    <3>1. \A part, seen : Part(p, part, seen) => job'[o] = job[o]
      BY DEF Part, JobsOK
    <3> QED
      BY <2>1, <2>4, <3>1 DEF ReadCourse, AdmitList, Admit, ReadList, JobsOK
  <2>5. CASE Gather(p)
    BY <2>1, <2>5 DEF Gather, JobsOK
  <2>6. CASE PurgeRecording(p) \/ PurgeChat(p) \/ Cascade(p)
    BY <2>1, <2>2, <2>6 DEF PurgeRecording, PurgeChat, Purge, Cascade
  <2> QED
    BY <1>2, <2>3, <2>4, <2>5, <2>6 DEF Handlers
<1> QED
  BY <1>1, <1>2

\* Files and the video leave the people's requests alone; a restart ends them.
LEMMA PeopleWait ==
  ASSUME JobsOK, (\E f \in Files : Uploads(f)) \/ PutVideo \/ SaveVideo \/ Crash, NEW p \in People
  PROVE  job'[p] = job[p] \/ Restart
<1>1. \A s \in Slots : \A step : s # p /\ Go(s, step) => job'[p] = job[p]
  BY SlotSorts DEF Go, JobsOK
<1>2. \A s \in Slots : \A new : s # p /\ job' = [job EXCEPT ![s] = new] => job'[p] = job[p]
  BY SlotSorts DEF JobsOK
<1>3. Video \in Slots /\ Video # p
  BY SlotSorts
<1>4. ASSUME NEW f \in Files, Uploads(f) PROVE job'[p] = job[p] \/ Restart
  <2>1. f \in Slots /\ f # p
    BY SlotSorts
  <2> QED
    BY <1>1, <1>2, <1>4, <2>1 DEF Uploads, Sign, Put, Submit, SaveMessage, Name
<1>5. CASE PutVideo \/ SaveVideo
  BY <1>1, <1>2, <1>3, <1>5 DEF PutVideo, SaveVideo, Name, data
<1> QED
  BY <1>4, <1>5 DEF Crash

\* The history of what entitled a job: kept until its next request is sent.
LEMMA Remembered ==
  ASSUME Remember, NEW p \in People
  PROVE  /\ Entitled(p)' => good'[p]
         /\ good[p] /\ (job'[p].step = "sent" => job[p].step = "sent") => good'[p]
BY DEF Remember

LEMMA RemainsEntitled ==
  ASSUME Remember, NEW p \in People, EntitledAt(p), job'[p] = job[p]
  PROVE  EntitledAt(p)'
BY Remembered DEF EntitledAt

LEMMA EntitledAnew ==
  ASSUME NEW p \in People, job'[p] = Idle \/ \E site : job'[p] = Loading(site)
  PROVE  EntitledAt(p)'
<1>1. CASE job'[p] = Idle
  BY <1>1 DEF EntitledAt, Idle
<1>2. ASSUME NEW site, job'[p] = Loading(site) PROVE EntitledAt(p)'
  <2>1. /\ job'[p].kind = "load" /\ job'[p].step = "sent"
        /\ job'[p].left = {"course", "list"} /\ job'[p].admitted = "no"
    BY <1>2 DEF Loading
  <2> QED
    BY <2>1 DEF EntitledAt
<1> QED
  BY <1>1, <1>2

LEMMA EntitledClicks ==
  ASSUME TypeInv, NEW p \in People, Clicks(p)
  PROVE  EntitledAt(p)'
<1>1. \A request : Send(p, request) => job'[p] = request
  BY SlotSorts DEF Send, TypeInv, JobsOK
<1>2. CASE Open(p) \/ Answered(p)
  BY <1>1, <1>2, EntitledAnew, SlotSorts DEF Open, Answered, TypeInv, JobsOK
<1>3. CASE \/ Join(p) \/ Invite(p) \/ Remove(p) \/ Rotate(p) \/ Toggle(p)
           \/ DeleteSession(p) \/ DeleteCourse(p)
  <2>1. job'[p].step = "sent" /\ job'[p].kind # "load"
    <3>1. CASE Join(p)
      BY <1>1, <3>1 DEF Join, Joining
    <3>2. CASE Invite(p)
      BY <1>1, <3>2 DEF Invite, Inviting
    <3>3. CASE Remove(p)
      BY <1>1, <3>3 DEF Remove, Removing
    <3>4. CASE Rotate(p) \/ Toggle(p)
      BY <1>1, <3>4 DEF Rotate, Rotating, Toggle, Publishing
    <3>5. CASE DeleteSession(p) \/ DeleteCourse(p)
      <4>1. job'[p] = Deleting("delete session") \/ job'[p] = Deleting("delete course")
        BY <1>1, <3>5 DEF DeleteSession, DeleteCourse
      <4>2. \A kind \in {"delete session", "delete course"} :
              Deleting(kind).step = "sent" /\ Deleting(kind).kind # "load"
        BY DEF Deleting
      <4> QED
        BY <4>1, <4>2
    <3> QED
      BY <1>3, <3>1, <3>2, <3>3, <3>4, <3>5
  <2> QED
    BY <2>1 DEF EntitledAt
<1> QED
  BY <1>2, <1>3 DEF Clicks

LEMMA EntitledHandlers ==
  ASSUME TypeInv, Remember, NEW p \in People, EntitledAt(p), Handlers(p)
  PROVE  EntitledAt(p)'
<1> DEFINE j == job[p]
           Updates == JoinJob \cup InviteJob \cup RemoveJob \cup RotateJob \cup PublishJob
<1>1. JobsOK /\ j \in PersonJob /\ p \in DOMAIN job
  BY Jobs, SlotSorts DEF TypeInv, JobsOK
<1>2. Refuse(p) => EntitledAt(p)'
  BY <1>1, EntitledAnew DEF Refuse
<1>3. \A new : job' = [job EXCEPT ![p] = new] => job'[p] = new
  BY <1>1
<1>5. \* Granted: what entitles it has just been checked.
      ASSUME j \in Updates \/ j \in DeletionJob, Go(p, "granted"), Entitled(p)'
      PROVE  EntitledAt(p)'
  <2>1. job'[p].kind = j.kind /\ j.kind # "load"
    BY <1>1, <1>5, RequestGoes, DeletionGoes, Kinds DEF IsDeletion
  <2> QED
    BY <1>5, <2>1, Remembered DEF EntitledAt
<1>6. \* On its way: it has been granted before.
      ASSUME j.step \notin {"idle", "sent"}, j.kind # "load",
             job'[p].kind = j.kind, job'[p].step # "sent"
      PROVE  EntitledAt(p)'
  BY <1>6, Remembered DEF EntitledAt
<1>7. CASE Authorise(p)
  <2>1. j \in Updates \/ j \in DeletionJob
    BY <1>1, <1>7, Kinds DEF Authorise, IsUpdate
  <2>2. CASE MayEdit(p) /\ Go(p, "granted") /\ UNCHANGED members
    <3>1. job'[p].kind = j.kind
      BY <1>1, <2>1, <2>2, RequestGoes, DeletionGoes
    <3>2. Entitled(p)'
      BY <1>7, <2>2, <3>1 DEF Authorise, Entitled, IsUpdate, IsDeletion, MayEdit
    <3> QED
      BY <1>5, <2>1, <2>2, <3>2
  <2> QED
    BY <1>2, <1>7, <2>2 DEF Authorise, data
<1>8. CASE LookUp(p)
  <2>1. j \in JoinJob
    BY <1>1, <1>8, Kinds DEF LookUp
  <2>2. CASE Opens(j.code) /\ Go(p, "granted") /\ UNCHANGED course
    <3>1. job'[p].kind = "join" /\ job'[p].code = j.code
      BY <1>1, <1>8, <2>1, <2>2, RequestGoes DEF LookUp
    <3>2. Entitled(p)'
      BY <2>2, <3>1 DEF Entitled, IsUpdate, IsDeletion, Opens
    <3> QED
      BY <1>5, <2>1, <2>2, <3>2
  <2> QED
    BY <1>2, <1>8, <2>2 DEF LookUp, data
<1>9. CASE Enrol(p) \/ Enlist(p) \/ Expel(p) \/ NewCode(p) \/ Publish(p)
  <2>1. j \in Updates /\ j.step = "granted"
    BY <1>1, <1>9, Kinds DEF Enrol, Enlist, Expel, NewCode, Publish
  <2>2. Refuse(p) \/ Go(p, "done")
    BY <1>9 DEF Enrol, Enlist, Expel, NewCode, Publish, SetCourse
  <2>3. j.kind # "load"
    BY <1>9 DEF Enrol, Enlist, Expel, NewCode, Publish
  <2> QED
    BY <1>1, <1>2, <1>6, <2>1, <2>2, <2>3, RequestGoes
<1>10. CASE Gather(p) \/ PurgeRecording(p) \/ PurgeChat(p) \/ Cascade(p)
  <2>1. j \in DeletionJob /\ j.kind # "load" /\ j.step \in {"granted", "keys", "half", "purged"}
    BY <1>1, <1>10, Kinds DEF Gather, PurgeRecording, PurgeChat, Cascade, IsDeletion
  <2>2. CASE Gather(p)
    <3>1. Refuse(p) \/ job' = [job EXCEPT ![p].keys = Found, ![p].step = "keys"]
      BY <2>2 DEF Gather
    <3>2. Found \in SUBSET Objects
      BY DEF Found, TypeInv, FilesOK
    <3> QED
      BY <1>1, <1>2, <1>6, <2>1, <3>1, <3>2, DeletionGathers
  <2>3. CASE PurgeRecording(p) \/ PurgeChat(p) \/ Cascade(p)
    <3>1. Refuse(p) \/ \E step \in {"half", "purged", "done"} : Go(p, step)
      BY <2>3 DEF PurgeRecording, PurgeChat, Purge, Cascade
    <3> QED
      BY <1>1, <1>2, <1>6, <2>1, <3>1, DeletionGoes
  <2> QED
    BY <1>10, <2>2, <2>3
<1>11. CASE ReadCourse(p) \/ AdmitList(p) \/ ReadList(p)
  <2>1. /\ j \in LoadJob /\ j.kind = "load" /\ j.seen \in View
        /\ j.left \subseteq {"course", "list"} /\ j.left # {}
    BY <1>1, <1>11, Kinds DEF ReadCourse, AdmitList, ReadList, LoadJob
  <2>2. j.step = "sent"
    BY <2>1 DEF EntitledAt
  <2>3. \* An answer: the job may be done with it, if the list has been admitted.
        ASSUME NEW part \in {"course", "list"}, NEW seen \in View, Part(p, part, seen),
               part = "list" => j.admitted = "yes"
        PROVE  EntitledAt(p)'
    <3>1. /\ job'[p].kind = "load" /\ job'[p].left = j.left \ {part} /\ job'[p].admitted = j.admitted
          /\ job'[p].left # {} => job'[p].step = "sent"
      BY <1>1, <2>1, <2>3, ReloadGoes
    <3>2. j.admitted = "yes" => good'[p]
      BY <2>1, <2>2, Remembered DEF EntitledAt
    <3>3. "list" \in j.left \ {part} \/ j.admitted = "yes"
      BY <2>1, <2>3 DEF EntitledAt
    <3> QED
      BY <3>1, <3>2, <3>3 DEF EntitledAt
  <2>4. CASE ReadCourse(p)
    <3>1. members[p] \in Roles /\ course.public \in BOOLEAN
      BY DEF TypeInv, CourseOK
    <3>2. [j.seen EXCEPT !.role = members[p], !.public = course.public] \in View
      BY <2>1, <3>1, Seen
    <3> QED
      BY <1>2, <2>3, <2>4, <3>2 DEF ReadCourse
  <2>5. CASE AdmitList(p)
    <3>1. ASSUME Admit(p, "yes"), MayList(p, j.seen.site)
          PROVE  EntitledAt(p)'
      <4>0. job' = [job EXCEPT ![p].admitted = "yes"] /\ UNCHANGED <<course, members>>
        BY <3>1 DEF Admit, data
      <4>1. job'[p] = [j EXCEPT !.admitted = "yes"]
        BY <1>1, <4>0
      <4>2. /\ job'[p].kind = "load" /\ job'[p].left = j.left /\ job'[p].step = "sent"
            /\ job'[p].seen = j.seen
        BY <2>1, <2>2, <4>1, Admitted
      <4>3. Entitled(p)'
        BY <3>1, <4>0, <4>2 DEF Entitled, IsUpdate, IsDeletion, MayRead, MayVisit, MayList, IsMember
      <4>4. good'[p]
        BY <4>3, Remembered
      <4>5. job'[p].admitted = "yes"
        BY <2>1, <4>1, Admitted
      <4> QED
        BY <4>2, <4>4, <4>5 DEF EntitledAt
    <3>2. ASSUME Admit(p, "visitor"), j.admitted # "yes" PROVE EntitledAt(p)'
      <4>1. job'[p] = [j EXCEPT !.admitted = "visitor"]
        BY <1>1, <3>2 DEF Admit
      <4>2. /\ job'[p].kind = "load" /\ job'[p].left = j.left /\ job'[p].step = "sent"
            /\ job'[p].admitted = "visitor"
        BY <2>1, <2>2, <4>1, Admitted
      <4>3. "list" \in j.left
        BY <2>1, <3>2 DEF EntitledAt
      <4> QED
        BY <4>2, <4>3 DEF EntitledAt
    <3> QED
      BY <1>2, <2>5, <3>1, <3>2 DEF AdmitList, MayList
  <2>6. CASE ReadList(p)
    <3>1. session \in BOOLEAN /\ {q \in Accounts : IsMember(q)} \in SUBSET Accounts /\ "none" \in Roles
      BY DEF TypeInv, FilesOK, Roles
    <3>2. /\ [j.seen EXCEPT !.people = {q \in Accounts : IsMember(q)}] \in View
          /\ [j.seen EXCEPT !.session = session] \in View
      BY <2>1, <3>1, Seen
    <3> QED
      BY <2>3, <2>6, <3>2 DEF ReadList
  <2> QED
    BY <1>11, <2>4, <2>5, <2>6
<1> QED
  BY <1>7, <1>8, <1>9, <1>10, <1>11 DEF Handlers

\* Whoever gets something done at a course was entitled to it at some time since
\* they asked: in every reachable state a job that is done has been, whatever was
\* revoked, rotated, hidden or deleted between the steps of its handler.
THEOREM EntitledSinceSentAlways == Spec => []EntitledSinceSent
<1>1. Init => EntitledInv
  <2> SUFFICES ASSUME Init, NEW p \in People PROVE EntitledAt(p)
    BY DEF EntitledInv
  <2>1. job[p] = Idle
    BY SlotSorts DEF Init
  <2> QED
    BY <2>1 DEF EntitledAt, Idle
<1>2. TypeInv /\ EntitledInv /\ [Next]_vars => EntitledInv'
  <2> SUFFICES ASSUME TypeInv, EntitledInv, [Next]_vars, NEW p \in People PROVE EntitledAt(p)'
    BY DEF EntitledInv
  <2>1. EntitledAt(p) /\ JobsOK
    BY DEF EntitledInv, TypeInv
  <2>2. CASE UNCHANGED vars
    BY <2>1, <2>2 DEF vars, EntitledAt
  <2>3. CASE Next
    <3>1. Remember
      BY <2>3 DEF Next
    <3>2. CASE Clicks(p)
      BY <3>2, EntitledClicks
    <3>3. CASE Handlers(p)
      BY <2>1, <3>1, <3>3, EntitledHandlers
    <3>4. ASSUME NEW q \in People, q # p, Clicks(q) \/ Handlers(q) PROVE EntitledAt(p)'
      BY <2>1, <3>1, <3>4, Alone, RemainsEntitled, SlotSorts
    <3>5. CASE (\E f \in Files : Uploads(f)) \/ PutVideo \/ SaveVideo \/ Crash
      BY <2>1, <3>1, <3>5, PeopleWait, RemainsEntitled, Restarts, EntitledAnew
    <3> QED
      BY <2>3, <3>2, <3>3, <3>4, <3>5 DEF Next, Step
  <2> QED
    BY <2>2, <2>3
<1>3. EntitledInv => EntitledSinceSent
  BY DEF EntitledInv, EntitledAt, EntitledSinceSent
<1> QED
  BY <1>1, <1>2, <1>3, TypeInit, TypeStep, PTL DEF Spec

-----------------------------------------------------------------------------
(* The bucket and the tables.                                               *)

Named == {o \in Objects : job[o].step = "done"}
Held == {o \in Objects : job[o].step \in {"held", "granted", "put"}}

\* What a deletion on its way has still to delete.
StageOK(p) ==
  IsDeletion(job[p]) =>
    /\ job[p].keys \subseteq Named
    /\ job[p].step = "keys" => Named \cap store \subseteq job[p].keys \cup kept
    /\ job[p].step = "half" => Named \cap store \subseteq (job[p].keys \cap Files) \cup kept
    /\ job[p].step = "purged" => Named \cap store \subseteq kept

\* The rows are those of the uploads that came to one; an object waits for its
\* row; and a deletion knows of every object it has not deleted yet.
StoreInv ==
  /\ rows \subseteq Named
  /\ session => Named \subseteq rows
  /\ Held \subseteq store
  /\ \A p \in People : StageOK(p)
  /\ DeletedIsGone
  /\ RowsNameObjects

LEMMA ObjectsAreSlots ==
  /\ Objects \subseteq Slots /\ Objects \cap People = {} /\ People \subseteq Slots
BY AccessAssumption DEF Objects, Slots

\* A step of one person that touches neither files nor rows.
LEMMA Quiet ==
  ASSUME StoreInv, NEW p \in People, \A o \in Slots \ {p} : job'[o] = job[o],
         UNCHANGED <<session, rows, store, kept, cut>>,
         job[p].step \notin {"half", "purged"}, StageOK(p)'
  PROVE  StoreInv'
<1>1. \A o \in Objects : job'[o] = job[o]
  BY ObjectsAreSlots
<1>2. Named' = Named /\ Held' = Held
  BY <1>1 DEF Named, Held
<1>3. \A q \in People \ {p} : job'[q] = job[q]
  BY ObjectsAreSlots
<1>4. \A q \in People \ {p} : StageOK(q)'
  BY <1>2, <1>3 DEF StoreInv, StageOK, IsDeletion
<1>5. DeletedIsGone'
  BY <1>2 DEF StoreInv, DeletedIsGone, Named
<1>6. RowsNameObjects'
  BY <1>3 DEF StoreInv, RowsNameObjects, IsDeletion
<1> QED
  BY <1>2, <1>4, <1>5, <1>6 DEF StoreInv

\* A step of a file or the video that names no row.
LEMMA Arrives ==
  ASSUME StoreInv, NEW o \in Objects, \A s \in Slots \ {o} : job'[s] = job[s],
         UNCHANGED <<session, rows, kept, cut>>, store \subseteq store', store' \subseteq store \cup {o},
         job[o].step # "done", job'[o].step # "done",
         job'[o].step \in {"held", "granted", "put"} => o \in store'
  PROVE  StoreInv'
<1>1. \A q \in People : job'[q] = job[q]
  BY ObjectsAreSlots
<1>2. Named' = Named
  BY ObjectsAreSlots DEF Named
<1>3. Held' \subseteq Held \cup {o} /\ Held' \subseteq store'
  BY ObjectsAreSlots DEF Held, StoreInv
<1>4. Named \cap store' = Named \cap store
  BY DEF Named
<1>5. \A q \in People : StageOK(q)'
  BY <1>1, <1>2, <1>4 DEF StoreInv, StageOK, IsDeletion
<1>6. DeletedIsGone'
  BY <1>2, <1>4 DEF StoreInv, DeletedIsGone, Named
<1>7. RowsNameObjects'
  BY <1>1 DEF StoreInv, RowsNameObjects, IsDeletion
<1> QED
  BY <1>2, <1>3, <1>5, <1>6, <1>7 DEF StoreInv

\* An object gets its row: one that a deletion under way does not know of may be kept.
LEMMA Names ==
  ASSUME TypeInv, StoreInv, NEW o \in Objects, Name(o), job[o].step \in {"granted", "put"},
         job'[o].step = "done", \A s \in Slots \ {o} : job'[s] = job[s]
  PROVE  StoreInv'
<1>1. /\ session /\ session' /\ rows' = rows \cup {o} /\ UNCHANGED <<store, cut>>
      /\ kept \subseteq kept' /\ (BeingDeleted => o \in kept')
  BY DEF Name
<1>2. \A q \in People : job'[q] = job[q]
  BY ObjectsAreSlots
<1>3. Named' = Named \cup {o}
  BY ObjectsAreSlots DEF Named
<1>4. Held' \subseteq Held /\ o \in store
  BY ObjectsAreSlots DEF Held, StoreInv
<1>5. ASSUME NEW q \in People PROVE StageOK(q)'
  <2>1. CASE ~IsDeletion(job[q])
    BY <1>2, <2>1 DEF StageOK, IsDeletion
  <2>2. CASE IsDeletion(job[q]) /\ job[q].step \in {"keys", "half", "purged"}
    <3>1. o \in kept'
      BY <1>1, <2>2 DEF BeingDeleted
    <3> QED
      BY <1>1, <1>2, <1>3, <2>2, <3>1 DEF StoreInv, StageOK, IsDeletion
  <2>3. CASE IsDeletion(job[q]) /\ job[q].step \notin {"keys", "half", "purged"}
    BY <1>2, <1>3, <2>3 DEF StoreInv, StageOK, IsDeletion
  <2> QED
    BY <2>1, <2>2, <2>3
<1>6. DeletedIsGone'
  BY <1>1 DEF DeletedIsGone
<1>7. RowsNameObjects'
  BY <1>1, <1>2, <1>4 DEF StoreInv, RowsNameObjects, IsDeletion
<1> QED
  BY <1>1, <1>3, <1>4, <1>5, <1>6, <1>7 DEF StoreInv

\* The server restarts: the deletions are gone, wherever they were.
LEMMA RestartsStore ==
  ASSUME TypeInv, StoreInv, Restart
  PROVE  StoreInv'
<1>1. /\ \A p \in People : job'[p] = Idle
      /\ \A f \in Files : job'[f] = IF job[f].step = "granted" THEN Over ELSE job[f]
      /\ job'[Video] = job[Video]
      /\ UNCHANGED <<session, rows, store, kept>>
      /\ cut' = (cut \/ \E p \in People : job[p].step \in {"half", "purged"})
  BY Restarts DEF TypeInv, Restart, data
<1>2. Over.step = "over"
  BY DEF Over
<1>3. Named' = Named /\ Held' \subseteq Held
  BY <1>1, <1>2 DEF Named, Held, Objects
<1>4. \A p \in People : StageOK(p)'
  <2>1. ~IsDeletion(Idle)
    BY DEF IsDeletion, Idle
  <2> QED
    BY <1>1, <2>1 DEF StageOK
<1>5. DeletedIsGone'
  BY <1>1, <1>3 DEF StoreInv, DeletedIsGone, Named
<1>6. RowsNameObjects'
  BY <1>1 DEF StoreInv, RowsNameObjects
<1> QED
  BY <1>1, <1>3, <1>4, <1>5, <1>6 DEF StoreInv

LEMMA ClicksStore ==
  ASSUME TypeInv, StoreInv, NEW p \in People, Clicks(p)
  PROVE  StoreInv'
<1>1. JobsOK /\ \A o \in Slots \ {p} : job'[o] = job[o]
  BY Alone DEF TypeInv
<1>2. UNCHANGED <<session, rows, store, kept, cut>>
  BY DEF Clicks, Open, Join, Invite, Remove, Rotate, Toggle, DeleteSession, DeleteCourse,
         Answered, Send, data, history
<1>3. job[p].step \notin {"half", "purged"}
  <2>1. \A request : Send(p, request) => job[p].step = "idle"
    BY DEF Send, Idle
  <2> QED
    BY <2>1 DEF Clicks, Open, Join, Invite, Remove, Rotate, Toggle, DeleteSession, DeleteCourse, Answered
<1>4. StageOK(p)'
  <2>1. \A request : Send(p, request) => job'[p] = request
    BY SlotSorts DEF Send, TypeInv, JobsOK
  <2>2. CASE DeleteSession(p) \/ DeleteCourse(p)
    <3>1. job'[p] = Deleting("delete session") \/ job'[p] = Deleting("delete course")
      BY <2>1, <2>2 DEF DeleteSession, DeleteCourse
    <3>2. \A kind : Deleting(kind).step = "sent" /\ Deleting(kind).keys = {}
      BY DEF Deleting
    <3> QED
      BY <3>1, <3>2 DEF StageOK
  <2>3. CASE Open(p) \/ Answered(p)
    <3>1. job'[p] = Idle \/ \E site : job'[p] = Loading(site)
      BY <2>1, <2>3, SlotSorts DEF Open, Answered, TypeInv, JobsOK
    <3>2. ~IsDeletion(Idle) /\ \A site : ~IsDeletion(Loading(site))
      BY DEF IsDeletion, Idle, Loading
    <3> QED
      BY <3>1, <3>2 DEF StageOK
  <2>4. CASE Join(p) \/ Invite(p) \/ Remove(p) \/ Rotate(p) \/ Toggle(p)
    <3>1. \/ \E c : job'[p] = Joining(c)
          \/ \E who, role : job'[p] = Inviting(who, role)
          \/ \E who : job'[p] = Removing(who)
          \/ job'[p] = Rotating
          \/ \E b : job'[p] = Publishing(b)
      BY <2>1, <2>4 DEF Join, Invite, Remove, Rotate, Toggle
    <3>2. /\ \A c : ~IsDeletion(Joining(c))
          /\ \A who, role : ~IsDeletion(Inviting(who, role))
          /\ \A who : ~IsDeletion(Removing(who))
          /\ ~IsDeletion(Rotating)
          /\ \A b : ~IsDeletion(Publishing(b))
      BY DEF IsDeletion, Joining, Inviting, Removing, Rotating, Publishing
    <3> QED
      BY <3>1, <3>2 DEF StageOK
  <2> QED
    BY <2>2, <2>3, <2>4 DEF Clicks
<1> QED
  BY <1>1, <1>2, <1>3, <1>4, Quiet

\* The handlers that delete nothing, and a deletion up to its keys.
LEMMA HandlersStore ==
  ASSUME TypeInv, StoreInv, NEW p \in People, Handlers(p),
         ~PurgeRecording(p), ~PurgeChat(p), ~Cascade(p)
  PROVE  StoreInv'
<1> DEFINE j == job[p]
           Updates == JoinJob \cup InviteJob \cup RemoveJob \cup RotateJob \cup PublishJob
<1>1. JobsOK /\ j \in PersonJob /\ \A o \in Slots \ {p} : job'[o] = job[o]
  BY Jobs, Alone DEF TypeInv
<1>2. \A o \in Objects : job'[o] = job[o]
  BY <1>1, ObjectsAreSlots
<1>3. Named' = Named
  BY <1>2 DEF Named
<1>4. Refuse(p) => StageOK(p)' /\ UNCHANGED <<session, rows, store, kept, cut>>
  <2>1. Refuse(p) => job'[p] = Idle
    BY <1>1, Refusals
  <2>2. ~IsDeletion(Idle)
    BY DEF IsDeletion, Idle
  <2> QED
    BY <2>1, <2>2 DEF Refuse, StageOK, data, history
<1>5. ASSUME NEW step \in {"granted", "done"}, Go(p, step), j \in Updates
      PROVE  StageOK(p)'
  <2>1. job'[p].kind = j.kind /\ ~IsDeletion(j)
    BY <1>1, <1>5, RequestGoes, Kinds DEF IsDeletion
  <2> QED
    BY <2>1 DEF StageOK, IsDeletion
<1>6. CASE Authorise(p)
  <2>1. j \in Updates \/ j \in DeletionJob
    BY <1>1, <1>6, Kinds DEF Authorise, IsUpdate
  <2>2. ASSUME Go(p, "granted"), j \in DeletionJob PROVE StageOK(p)'
    <3>1. job'[p].step = "granted" /\ job'[p].keys = j.keys /\ IsDeletion(j)
      BY <1>1, <2>2, DeletionGoes, Kinds
    <3>2. j.keys \subseteq Named
      BY <3>1 DEF StageOK, StoreInv
    <3> QED
      BY <1>3, <3>1, <3>2 DEF StageOK
  <2>3. j.step \notin {"half", "purged"} /\ UNCHANGED <<session, rows, store, kept, cut>>
    BY <1>4, <1>6 DEF Authorise, data, history
  <2> QED
    BY <1>1, <1>4, <1>5, <1>6, <2>1, <2>2, <2>3, Quiet DEF Authorise
<1>7. CASE LookUp(p) \/ Enrol(p) \/ Enlist(p) \/ Expel(p) \/ NewCode(p) \/ Publish(p)
  <2>1. j \in Updates /\ j.step \in {"sent", "granted"}
    BY <1>1, <1>7, Kinds DEF LookUp, Enrol, Enlist, Expel, NewCode, Publish
  <2>2. Refuse(p) \/ Go(p, "granted") \/ Go(p, "done")
    BY <1>7 DEF LookUp, Enrol, Enlist, Expel, NewCode, Publish, SetCourse
  <2>3. UNCHANGED <<session, rows, store, kept, cut>>
    BY <1>4, <1>7 DEF LookUp, Enrol, Enlist, Give, Expel, NewCode, Publish, SetCourse, data, history
  <2> QED
    BY <1>1, <1>4, <1>5, <2>1, <2>2, <2>3, Quiet
<1>8. CASE ReadCourse(p) \/ AdmitList(p) \/ ReadList(p)
  <2>1. j \in LoadJob /\ j.step \in {"sent", "done"} /\ j.seen \in View
    BY <1>1, <1>8, Kinds DEF ReadCourse, AdmitList, ReadList, LoadJob
  <2>2. UNCHANGED <<session, rows, store, kept, cut>>
    BY <1>4, <1>8 DEF ReadCourse, AdmitList, Admit, ReadList, data, history
  <2>3. job'[p].kind = "load" \/ Refuse(p)
    <3>1. CASE ReadCourse(p)
      <4>1. members[p] \in Roles /\ course.public \in BOOLEAN
        BY DEF TypeInv, CourseOK
      <4>2. [j.seen EXCEPT !.role = members[p], !.public = course.public] \in View
        BY <2>1, <4>1, Seen
      <4> QED
        BY <1>1, <2>1, <3>1, <4>2, ReloadGoes DEF ReadCourse
    <3>2. CASE AdmitList(p)
      <4>1. Refuse(p) \/ \E how : job' = [job EXCEPT ![p] = [j EXCEPT !.admitted = how]]
        BY <3>2 DEF AdmitList, Admit
      <4>2. \A how : [j EXCEPT !.admitted = how].kind = "load"
        BY <2>1 DEF LoadJob
      <4> QED
        BY <1>1, <4>1, <4>2, SlotSorts DEF JobsOK
    <3>3. CASE ReadList(p)
      <4>1. session \in BOOLEAN /\ {q \in Accounts : IsMember(q)} \in SUBSET Accounts /\ "none" \in Roles
        BY DEF TypeInv, FilesOK, Roles
      <4>2. /\ [j.seen EXCEPT !.people = {q \in Accounts : IsMember(q)}] \in View
            /\ [j.seen EXCEPT !.session = session] \in View
        BY <2>1, <4>1, Seen
      <4> QED
        BY <1>1, <2>1, <3>3, <4>2, ReloadGoes DEF ReadList
    <3> QED
      BY <1>8, <3>1, <3>2, <3>3
  <2>4. job'[p].kind = "load" => StageOK(p)'
    BY DEF StageOK, IsDeletion
  <2> QED
    BY <1>1, <1>4, <2>1, <2>2, <2>3, <2>4, Quiet
<1>9. CASE Gather(p)
  <2>1. j \in DeletionJob /\ j.step = "granted"
    BY <1>1, <1>9, Kinds DEF Gather
  <2>2. UNCHANGED <<session, rows, store, kept, cut>>
    BY <1>4, <1>9 DEF Gather, data, history
  <2>3. ASSUME job' = [job EXCEPT ![p].keys = Found, ![p].step = "keys"] PROVE StageOK(p)'
    <3>1. Found \in SUBSET Objects
      BY DEF Found, TypeInv, FilesOK
    <3>2. job'[p].step = "keys" /\ job'[p].keys = rows
      BY <1>1, <2>1, <2>3, <3>1, DeletionGathers DEF Found
    <3>3. Named \cap store \subseteq rows \cup kept
      BY DEF StoreInv, DeletedIsGone, Named
    <3>4. rows \subseteq Named
      BY DEF StoreInv
    <3>5. job'[p].keys \subseteq Named' /\ Named' \cap store' \subseteq job'[p].keys \cup kept'
      BY <1>3, <2>2, <3>2, <3>3, <3>4
    <3> QED
      BY <3>2, <3>5 DEF StageOK
  <2> QED
    BY <1>1, <1>4, <1>9, <2>1, <2>2, <2>3, Quiet DEF Gather
<1> QED
  BY <1>6, <1>7, <1>8, <1>9 DEF Handlers

\* The steps of a deletion that delete.
LEMMA DeletionsStore ==
  ASSUME TypeInv, StoreInv, NEW p \in People, PurgeRecording(p) \/ PurgeChat(p) \/ Cascade(p)
  PROVE  StoreInv'
<1> DEFINE j == job[p]
<1>1. JobsOK /\ j \in PersonJob /\ \A o \in Slots \ {p} : job'[o] = job[o]
  BY Jobs, Alone DEF TypeInv, Handlers
<1>2. /\ \A o \in Objects : job'[o] = job[o]
      /\ \A q \in People \ {p} : job'[q] = job[q]
  BY <1>1, ObjectsAreSlots
<1>3. Named' = Named /\ Held' = Held /\ Held \cap Named = {}
  BY <1>2 DEF Named, Held
<1>4. /\ j \in DeletionJob /\ IsDeletion(j) /\ j.keys \subseteq Objects
      /\ j.step \in {"keys", "half", "purged"}
  BY <1>1, Kinds DEF PurgeRecording, PurgeChat, Cascade, DeletionJob
<1>5. j.keys \subseteq Named
  BY <1>4 DEF StoreInv, StageOK
<1>6. \* Others lose no more than their objects.
      ASSUME kept \subseteq kept', store' \subseteq store PROVE \A q \in People \ {p} : StageOK(q)'
  BY <1>2, <1>3, <1>6 DEF StoreInv, StageOK, IsDeletion
<1>7. ASSUME NEW keys \in SUBSET j.keys, NEW next \in {"half", "purged"}, Purge(p, keys, next),
             Named \cap store \subseteq
               keys \cup (IF next = "half" THEN j.keys \cap Files ELSE {}) \cup kept
      PROVE  StoreInv'
  <2>1. /\ UNCHANGED <<session, rows, cut>> /\ Go(p, next)
        /\ \/ store' = store \ keys /\ kept' = kept
           \/ store' = store /\ kept' = kept \cup keys
    BY <1>7 DEF Purge
  <2>2. IsDeletion(job'[p]) /\ job'[p].step = next /\ job'[p].keys = j.keys
    BY <1>1, <1>4, <2>1, DeletionGoes DEF IsDeletion
  <2>3. Named \cap store' \subseteq (IF next = "half" THEN j.keys \cap Files ELSE {}) \cup kept'
    BY <1>7, <2>1
  <2>4. StageOK(p)'
    BY <1>3, <1>5, <2>2, <2>3 DEF StageOK
  <2>5. Held' \subseteq store'
    BY <1>3, <1>5, <2>1 DEF StoreInv
  <2>6. DeletedIsGone'
    BY <1>3, <2>1 DEF StoreInv, DeletedIsGone, Named
  <2>7. RowsNameObjects'
    BY <2>2 DEF RowsNameObjects
  <2> QED
    BY <1>3, <1>6, <2>1, <2>4, <2>5, <2>6, <2>7 DEF StoreInv
<1>8. CASE PurgeRecording(p)
  <2>1. j.keys = (j.keys \cap {Video}) \cup (j.keys \cap Files)
    BY <1>4 DEF Objects
  <2>2. Named \cap store \subseteq (j.keys \cap {Video}) \cup (j.keys \cap Files) \cup kept
    BY <1>4, <1>8, <2>1 DEF PurgeRecording, StoreInv, StageOK
  <2> QED
    BY <1>7, <1>8, <2>2 DEF PurgeRecording
<1>9. CASE PurgeChat(p)
  <2>1. Named \cap store \subseteq (j.keys \cap Files) \cup kept
    BY <1>4, <1>9 DEF PurgeChat, StoreInv, StageOK
  <2> QED
    BY <1>7, <1>9, <2>1 DEF PurgeChat
<1>10. CASE Cascade(p)
  <2>1. Named \cap store \subseteq kept
    BY <1>4, <1>10 DEF Cascade, StoreInv, StageOK
  <2>2. /\ UNCHANGED <<store, kept, cut>>
        /\ \/ session' = FALSE /\ rows' = {}
           \/ UNCHANGED <<session, rows>> /\ ~session
    <3>1. CASE Refuse(p) /\ ~(IF j.kind = "delete session" THEN session ELSE course.here)
      BY <3>1 DEF Refuse, TypeInv, FilesOK, data, history
    <3> QED
      BY <1>10, <3>1 DEF Cascade
  <2>3. session' = FALSE /\ rows' = {}
    BY <2>2 DEF TypeInv, FilesOK
  <2>4. StageOK(p)'
    <3>1. CASE Refuse(p)
      <4>1. job'[p] = Idle
        BY <1>1, <3>1, Refusals
      <4> QED
        BY <4>1 DEF StageOK, IsDeletion, Idle
    <3>2. CASE Go(p, "done")
      <4>1. job'[p].step = "done" /\ job'[p].keys = j.keys
        BY <1>1, <1>4, <3>2, DeletionGoes
      <4> QED
        BY <1>3, <1>5, <4>1 DEF StageOK
    <3> QED
      BY <1>10, <3>1, <3>2 DEF Cascade
  <2>5. DeletedIsGone'
    BY <1>3, <2>1, <2>2 DEF DeletedIsGone, Named
  <2>6. RowsNameObjects'
    BY <2>3 DEF RowsNameObjects
  <2> QED
    BY <1>3, <1>6, <2>2, <2>3, <2>4, <2>5, <2>6 DEF StoreInv
<1> QED
  BY <1>8, <1>9, <1>10

LEMMA UploadsStore ==
  ASSUME TypeInv, StoreInv, (\E f \in Files : Uploads(f)) \/ PutVideo \/ SaveVideo \/ Crash
  PROVE  StoreInv'
<1>1. JobsOK /\ Over.step = "over" /\ Idle.step = "idle"
  BY DEF TypeInv, Over, Idle
<1>2. ASSUME NEW o \in Objects, NEW new, job' = [job EXCEPT ![o] = new]
      PROVE  job'[o] = new /\ \A s \in Slots \ {o} : job'[s] = job[s]
  BY <1>1, <1>2, ObjectsAreSlots DEF JobsOK
<1>3. ASSUME NEW f \in Files, Uploads(f) PROVE StoreInv'
  <2>1. f \in Objects /\ f \in Slots /\ job[f] \in FileJob /\ JobOf(f) = FileJob
    BY <1>1, Jobs, SlotSorts DEF Objects
  <2>2. ASSUME NEW step \in {"held", "granted", "done"}, Go(f, step), job[f].step \notin {"idle", "over"}
        PROVE  job'[f].step = step /\ \A s \in Slots \ {f} : job'[s] = job[s]
    <3>1. job[f] \notin {Idle, Over}
      BY <1>1, <2>2
    <3>2. [job[f] EXCEPT !.step = step].step = step
      BY <2>1, <3>1, FileMoves
    <3>3. job' = [job EXCEPT ![f] = [job[f] EXCEPT !.step = step]]
      BY <2>2 DEF Go
    <3> QED
      BY <1>2, <2>1, <3>2, <3>3
  <2>3. CASE Sign(f)
    <3>1. PICK p \in People : job' = [job EXCEPT ![f] = Attaching(p)]
      BY <2>3 DEF Sign
    <3>2. Attaching(p).step = "signed"
      BY DEF Attaching
    <3>3. UNCHANGED <<session, rows, store, kept, cut>> /\ job[f].step # "done"
      BY <1>1, <2>3 DEF Sign, data, history
    <3>4. job'[f].step = "signed" /\ \A s \in Slots \ {f} : job'[s] = job[s]
      BY <1>2, <2>1, <3>1, <3>2
    <3> QED
      BY <2>1, <3>3, <3>4, Arrives
  <2>4. CASE Put(f)
    <3>1. job'[f].step = "held" /\ \A s \in Slots \ {f} : job'[s] = job[s]
      BY <2>2, <2>4 DEF Put
    <3>2. UNCHANGED <<session, rows, kept, cut>> /\ store' = store \cup {f} /\ job[f].step # "done"
      BY <2>4 DEF Put, history
    <3> QED
      BY <2>1, <3>1, <3>2, Arrives
  <2>5. CASE Submit(f)
    <3>1. job'[f].step \in {"granted", "over"} /\ \A s \in Slots \ {f} : job'[s] = job[s]
      BY <1>1, <1>2, <2>1, <2>2, <2>5 DEF Submit
    <3>2. UNCHANGED <<session, rows, store, kept, cut>> /\ job[f].step = "held"
      BY <2>5 DEF Submit, data, history
    <3>3. f \in store
      BY <2>1, <3>2 DEF StoreInv, Held
    <3> QED
      BY <2>1, <3>1, <3>2, <3>3, Arrives
  <2>6. CASE SaveMessage(f)
    <3>1. CASE Name(f)
      BY <2>1, <2>2, <2>6, <3>1, Names DEF SaveMessage, Name
    <3> QED
      BY <2>6, <3>1, RestartsStore DEF SaveMessage
  <2> QED
    BY <1>3, <2>3, <2>4, <2>5, <2>6 DEF Uploads
<1>4. CASE PutVideo \/ SaveVideo
  <2>1. Video \in Objects /\ Video \in Slots /\ job[Video] \in VideoJob
    BY <1>1, Jobs, SlotSorts DEF Objects
  <2>2. ASSUME NEW step \in {"put", "done"}, Go(Video, step), job[Video].step \in {"running", "put"}
        PROVE  job'[Video].step = step /\ \A s \in Slots \ {Video} : job'[s] = job[s]
    <3>1. job[Video] # Over
      BY <1>1, <2>2
    <3>2. [job[Video] EXCEPT !.step = step].step = step
      BY <2>1, <3>1, VideoMoves
    <3>3. job' = [job EXCEPT ![Video] = [job[Video] EXCEPT !.step = step]]
      BY <2>2 DEF Go
    <3> QED
      BY <1>2, <2>1, <3>2, <3>3
  <2>3. CASE PutVideo
    <3>1. job'[Video].step = "put" /\ \A s \in Slots \ {Video} : job'[s] = job[s]
      BY <2>2, <2>3 DEF PutVideo
    <3>2. /\ UNCHANGED <<session, rows, kept, cut>> /\ store' = store \cup {Video}
          /\ job[Video].step # "done"
      BY <2>3 DEF PutVideo, history
    <3> QED
      BY <2>1, <3>1, <3>2, Arrives
  <2>4. CASE SaveVideo
    <3>1. CASE Name(Video)
      BY <2>1, <2>2, <2>4, <3>1, Names DEF SaveVideo, Name
    <3>2. CASE job' = [job EXCEPT ![Video] = Over] /\ UNCHANGED <<data, history>>
      <4>1. job'[Video].step = "over" /\ \A s \in Slots \ {Video} : job'[s] = job[s]
        BY <1>1, <1>2, <2>1, <3>2
      <4>2. UNCHANGED <<session, rows, store, kept, cut>> /\ job[Video].step # "done"
        BY <2>4, <3>2 DEF SaveVideo, data, history
      <4> QED
        BY <2>1, <4>1, <4>2, Arrives
    <3> QED
      BY <2>4, <3>1, <3>2 DEF SaveVideo
  <2> QED
    BY <1>4, <2>3, <2>4
<1> QED
  BY <1>3, <1>4, RestartsStore DEF Crash

\* The bucket and the tables keep step, for any files, people and deletions: what
\* a deleted session's rows named is gone from the store or among what may be
\* kept, and a row names an object unless a deletion is, or was cut short,
\* between the two.
THEOREM StoreInStepAlways == Spec => []StoreInStep
<1>1. TypeInv /\ Init => StoreInv
  <2> SUFFICES ASSUME Init PROVE StoreInv
    OBVIOUS
  <2>1. /\ \A p \in People : job[p] = Idle
        /\ \A o \in Objects : job[o].step \in {"idle", "running"}
    BY ObjectsAreSlots, AccessAssumption DEF Init, Idle, Transcoding, Objects
  <2>2. Named = {} /\ Held = {}
    BY <2>1 DEF Named, Held
  <2>3. ~IsDeletion(Idle)
    BY DEF IsDeletion, Idle
  <2>4. \A p \in People : StageOK(p)
    BY <2>1, <2>3 DEF StageOK
  <2> QED
    BY <2>2, <2>4 DEF Init, StoreInv, DeletedIsGone, RowsNameObjects
<1>2. TypeInv /\ StoreInv /\ [Next]_vars => StoreInv'
  <2> SUFFICES ASSUME TypeInv, StoreInv, [Next]_vars PROVE StoreInv'
    OBVIOUS
  <2>1. CASE Next
    BY <2>1, ClicksStore, HandlersStore, DeletionsStore, UploadsStore DEF Next, Step
  <2>2. CASE UNCHANGED vars
    BY <2>2 DEF vars, data, history, StoreInv, Named, Held, StageOK, IsDeletion, DeletedIsGone,
                RowsNameObjects
  <2> QED
    BY <2>1, <2>2
<1>3. StoreInv => StoreInStep
  BY DEF StoreInv, StoreInStep
<1> QED
  BY <1>1, <1>2, <1>3, TypeInit, TypeStep, PTL DEF Spec

=============================================================================
