---------------------------- MODULE CourseAccess ----------------------------
(***************************************************************************)
(* A course as its teachers, students and guests use it: joining, inviting *)
(* and removing, the join code, the visibility, reading, and the deletion  *)
(* of its session or of all of it, with the files that belong to them in   *)
(* the object store.  The routes of courses, memberships, sessions and     *)
(* uploads, requireCourseRole, chat:send, and the pages that call them.    *)
(*                                                                         *)
(* A request is a job: an await of its handler ends a step, so that what   *)
(* it has read can be stale when it acts on it.  There is one course with  *)
(* one session.  A person has one request of a page under way at a time;   *)
(* chat files are uploaded and sent beside it.                             *)
(***************************************************************************)
EXTENDS Naturals

CONSTANTS
  People,    \* who uses the course, each with one browser
  Guests,    \* those of them with a guest token, who have no account
  Owner,     \* who created the course
  Files,     \* files attached to chat messages, one to a message
  Video,     \* the playback file the pipeline makes of the session's recording
  MaxMoves,  \* bound on the requests the pages send on somebody's click
  MaxFaults  \* bound on crashes and on deletions the object store refuses

ASSUME AccessAssumption ==
  /\ Guests \subseteq People
  /\ Owner \in People \ Guests
  /\ Video \notin Files
  /\ (Files \cup {Video}) \cap People = {}
  /\ {MaxMoves, MaxFaults} \subseteq Nat

VARIABLES
  course,  \* the row of the course
  members, \* table "CourseMember": the role of each person
  session, \* is there the row of the session?
  rows,    \* files a row names: attachmentKey of a message, playbackKey of the recording
  store,   \* objects in the bucket
  job,     \* what is under way for a person, for a file, and for the video
  page,    \* the course as a person's browser shows it
  good,    \* history: was the job entitled to succeed at some time since it was sent?
  given,   \* history: the role a teacher last gave somebody
  kept,    \* history: objects that may outlive their row
  cut,     \* history: a deletion stopped between the store and the database
  moves,
  faults

data == <<course, members, session, rows, store>>
history == <<given, kept, cut>>
bounds == <<moves, faults>>
vars == <<data, job, page, good, history, bounds>>

Accounts == People \ Guests
Objects == Files \cup {Video}
Slots == People \cup Objects
Roles == {"none", "STUDENT", "TEACHER"}
Sites == {"course", "members"}

IsUpdate(j) == j.kind \in {"invite", "remove", "rotate", "publish"}
IsDeletion(j) == j.kind \in {"delete session", "delete course"}

View == [site : Sites \cup {"none"}, role : Roles, public : BOOLEAN,
         session : BOOLEAN, people : SUBSET Accounts]
Blank == [site |-> "none", role |-> "none", public |-> FALSE, session |-> FALSE, people |-> {}]

\* A job ends as Idle; that of a file or the video that came to nothing as Over.
Idle == [kind |-> "idle", step |-> "idle"]
Over == [kind |-> "over", step |-> "over"]

\* The requests of the pages.  "keys" are the files a deletion has found.
Joining(c) == [kind |-> "join", step |-> "sent", code |-> c]
Inviting(p, r) == [kind |-> "invite", step |-> "sent", who |-> p, role |-> r]
Removing(p) == [kind |-> "remove", step |-> "sent", who |-> p]
Rotating == [kind |-> "rotate", step |-> "sent"]
Publishing(b) == [kind |-> "publish", step |-> "sent", to |-> b]
Deleting(kind) == [kind |-> kind, step |-> "sent", keys |-> {}]

\* A reload sends two GETs at once: of the course, and of its sessions or members.
\* "left" are those not yet answered; the second is first "admitted", and a
\* "visitor" is who was not found among the members.
Loading(site) ==
  [kind |-> "load", step |-> "sent", left |-> {"course", "list"}, admitted |-> "no",
   seen |-> [Blank EXCEPT !.site = site]]

Attaching(p) == [kind |-> "attach", step |-> "signed", by |-> p]
Transcoding == [kind |-> "transcode", step |-> "running"]

TypeOK ==
  /\ course \in [here : BOOLEAN, public : BOOLEAN, code : Nat \ {0}]
  /\ members \in [People -> Roles]
  /\ \A p \in People : members[p] # "none" => course.here /\ p \in Accounts
  /\ session \in BOOLEAN /\ (session => course.here)
  /\ rows \subseteq (IF session THEN Objects ELSE {})
  /\ store \subseteq Objects
  /\ DOMAIN job = Slots
  /\ \A p \in People : job[p].step \in {"idle", "sent", "granted", "keys", "half", "purged", "done"}
  /\ \A f \in Files : job[f].step \in {"idle", "signed", "held", "granted", "done", "over"}
  /\ job[Video].step \in {"running", "put", "done", "over"}
  /\ page \in [People -> View]
  /\ good \in [People -> BOOLEAN]
  /\ given \in [People -> Roles]
  /\ kept \subseteq Objects
  /\ cut \in BOOLEAN
  /\ moves \in 0 .. MaxMoves
  /\ faults \in 0 .. MaxFaults

-----------------------------------------------------------------------------
(* Who may what.                                                            *)

\* requireCourseRole: for teachers, for members, and with allowPublicRead.
MayEdit(p) == members[p] = "TEACHER"
IsMember(p) == members[p] # "none"
MayVisit == course.here /\ course.public
MayRead(p) == IsMember(p) \/ MayVisit

MayList(p, site) == IsMember(p) \/ (site # "members" /\ MayVisit)

\* getMembership of live/server.ts: a person with an account who is no member may
\* read a public course, and only members and guests may write in its classroom.
MayChat(p) == session /\ IF p \in Guests THEN course.public ELSE IsMember(p)

\* Mutant: a code is looked up among all the course ever had.
OpensEver(c) == course.here /\ c <= course.code

\* The course is looked up by its code.
Opens(c) == course.here /\ c = course.code

\* What entitles a job to succeed.
Entitled(p) ==
  CASE IsUpdate(job[p]) \/ IsDeletion(job[p]) -> MayEdit(p)
    [] job[p].kind = "join" -> course.here /\ job[p].code = course.code
    [] job[p].kind = "load" -> MayRead(p) /\ MayList(p, job[p].seen.site)
    [] OTHER -> TRUE

\* The history of it, kept at every step.
Remember ==
  good' = [p \in People |->
             \/ Entitled(p)'
             \/ good[p] /\ ~(job'[p].step = "sent" /\ job[p].step # "sent")]

-----------------------------------------------------------------------------
(* The pages.                                                               *)

Fault == faults < MaxFaults /\ faults' = faults + 1

Send(p, request) ==
  /\ job[p] = Idle
  /\ moves < MaxMoves
  /\ moves' = moves + 1
  /\ job' = [job EXCEPT ![p] = request]
  /\ UNCHANGED <<data, history, faults>>

\* A page is opened, or turned to: it shows nothing until it has loaded.
Open(p) ==
  /\ \E site \in Sites : site # page[p].site /\ Send(p, Loading(site))
  /\ page' = [page EXCEPT ![p] = Blank]

\* The dashboard's form: a code that was the course's once.
Join(p) == (\E c \in 1 .. course.code : Send(p, Joining(c))) /\ UNCHANGED page

ShowsTeacher(p) == page[p].role = "TEACHER"
OnCourse(p) == ShowsTeacher(p) /\ page[p].site = "course"
OnMembers(p) == ShowsTeacher(p) /\ page[p].site = "members"

\* The form of the members page, and of the course page's tab.
Invite(p) ==
  /\ ShowsTeacher(p)
  /\ \E who \in Accounts, role \in {"STUDENT", "TEACHER"} : Send(p, Inviting(who, role))
  /\ UNCHANGED page

Remove(p) ==
  /\ OnMembers(p)
  /\ \E who \in page[p].people : Send(p, Removing(who))
  /\ UNCHANGED page

Rotate(p) == OnCourse(p) /\ Send(p, Rotating) /\ UNCHANGED page

\* To the other visibility than the one shown.
Toggle(p) == OnCourse(p) /\ Send(p, Publishing(~page[p].public)) /\ UNCHANGED page

DeleteSession(p) ==
  OnCourse(p) /\ page[p].session /\ Send(p, Deleting("delete session")) /\ UNCHANGED page

DeleteCourse(p) == OnCourse(p) /\ Send(p, Deleting("delete course")) /\ UNCHANGED page

\* The page has its answer.  A change is followed by a reload, but for an
\* invitation: its form is reset through an event that React has let go, the
\* handler throws there, and the page reports a failure.
Answered(p) ==
  /\ job[p].step = "done"
  /\ \/ /\ job[p].kind = "load"
        /\ page' = [page EXCEPT ![p] = job[p].seen]
        /\ job' = [job EXCEPT ![p] = Idle]
     \/ /\ job[p].kind \in {"remove", "rotate", "publish", "delete session"}
        /\ job' = [job EXCEPT ![p] = Loading(page[p].site)]
        /\ UNCHANGED page
     \/ /\ job[p].kind = "join"
        /\ page' = [page EXCEPT ![p] = Blank]
        /\ job' = [job EXCEPT ![p] = Loading("course")]
     \/ /\ job[p].kind = "invite"
        /\ job' = [job EXCEPT ![p] = Idle]
        /\ UNCHANGED page
     \/ /\ job[p].kind = "delete course"
        /\ page' = [page EXCEPT ![p] = Blank]
        /\ job' = [job EXCEPT ![p] = Idle]
  /\ UNCHANGED <<data, history, bounds>>

-----------------------------------------------------------------------------
(* The handlers that change the course.  A refused request leaves the page  *)
(* as it is, with a message.                                                *)

Refuse(p) ==
  /\ job' = [job EXCEPT ![p] = Idle]
  /\ UNCHANGED <<data, history>>

Go(p, step) == job' = [job EXCEPT ![p].step = step]

\* requireCourseRole
Authorise(p) ==
  /\ job[p].step = "sent"
  /\ IsUpdate(job[p]) \/ IsDeletion(job[p])
  /\ \/ MayEdit(p) /\ Go(p, "granted") /\ UNCHANGED <<data, history>>
     \/ ~MayEdit(p) /\ Refuse(p)
  /\ UNCHANGED <<page, bounds>>

LookUp(p) ==
  /\ job[p].kind = "join" /\ job[p].step = "sent"
  /\ \/ Opens(job[p].code) /\ Go(p, "granted") /\ UNCHANGED <<data, history>>
     \/ ~Opens(job[p].code) /\ Refuse(p)
  /\ UNCHANGED <<page, bounds>>

\* Mutant: a guest gets a row like anybody.
TakesAnyone(p) == course.here

\* The row needs a course and a user.
Takes(p) == course.here /\ p \in Accounts

\* Mutant: the upsert writes the role of a member too.
EnrolledAfresh(p) == [members EXCEPT ![p] = "STUDENT"]

\* The upsert keeps the role of a member.
Enrolled(p) == [members EXCEPT ![p] = IF @ = "none" THEN "STUDENT" ELSE @]

Enrol(p) ==
  /\ job[p].kind = "join" /\ job[p].step = "granted"
  /\ \/ /\ Takes(p)
        /\ members' = Enrolled(p)
        /\ Go(p, "done")
        /\ UNCHANGED <<course, session, rows, store, history>>
     \/ ~Takes(p) /\ Refuse(p)
  /\ UNCHANGED <<page, bounds>>

Give(who, role) ==
  /\ members' = [members EXCEPT ![who] = role]
  /\ given' = [given EXCEPT ![who] = role]
  /\ UNCHANGED <<course, session, rows, store, kept, cut>>

Enlist(p) ==
  /\ job[p].kind = "invite" /\ job[p].step = "granted"
  /\ \/ course.here /\ Give(job[p].who, job[p].role) /\ Go(p, "done")
     \/ ~course.here /\ Refuse(p)
  /\ UNCHANGED <<page, bounds>>

Expel(p) ==
  /\ job[p].kind = "remove" /\ job[p].step = "granted"
  /\ \/ IsMember(job[p].who) /\ Give(job[p].who, "none") /\ Go(p, "done")
     \/ ~IsMember(job[p].who) /\ Refuse(p)
  /\ UNCHANGED <<page, bounds>>

\* course.update, of the code or of the visibility.
SetCourse(p, new) ==
  /\ \/ /\ course.here
        /\ course' = new
        /\ Go(p, "done")
        /\ UNCHANGED <<members, session, rows, store, history>>
     \/ ~course.here /\ Refuse(p)
  /\ UNCHANGED <<page, bounds>>

NewCode(p) ==
  /\ job[p].kind = "rotate" /\ job[p].step = "granted"
  /\ SetCourse(p, [course EXCEPT !.code = @ + 1])

Publish(p) ==
  /\ job[p].kind = "publish" /\ job[p].step = "granted"
  /\ SetCourse(p, [course EXCEPT !.public = job[p].to])

-----------------------------------------------------------------------------
(* Reading.                                                                 *)

\* A GET is answered; the reload is done when both are.
Part(p, part, seen) ==
  LET left == job[p].left \ {part} IN
  job' = [job EXCEPT ![p].left = left, ![p].seen = seen,
                     ![p].step = IF left = {} THEN "done" ELSE "sent"]

\* GET of the course: who may see it is decided on the row that is sent.
ReadCourse(p) ==
  /\ job[p].kind = "load" /\ "course" \in job[p].left
  /\ \/ /\ MayRead(p)
        /\ Part(p, "course", [job[p].seen EXCEPT !.role = members[p], !.public = course.public])
        /\ UNCHANGED <<data, history>>
     \/ ~MayRead(p) /\ Refuse(p)
  /\ UNCHANGED <<page, bounds>>

Admit(p, how) == job' = [job EXCEPT ![p].admitted = how] /\ UNCHANGED <<data, history>>

\* GET of the sessions or the members: requireCourseRole first, then the query.
\* It looks for the member, then whether visitors may read it, which the list of
\* the members is not for.
AdmitList(p) ==
  /\ job[p].kind = "load" /\ "list" \in job[p].left
  /\ LET visit == job[p].seen.site # "members" /\ MayVisit IN
     \/ job[p].admitted = "no" /\ Admit(p, IF IsMember(p) THEN "yes" ELSE "visitor")
     \/ job[p].admitted = "visitor" /\ visit /\ Admit(p, "yes")
     \/ job[p].admitted = "visitor" /\ ~visit /\ Refuse(p)
  /\ UNCHANGED <<page, bounds>>

ReadList(p) ==
  /\ job[p].kind = "load" /\ "list" \in job[p].left /\ job[p].admitted = "yes"
  /\ Part(p, "list",
          IF job[p].seen.site = "members"
          THEN [job[p].seen EXCEPT !.people = {q \in Accounts : IsMember(q)}]
          ELSE [job[p].seen EXCEPT !.session = session])
  /\ UNCHANGED <<data, history, page, bounds>>

-----------------------------------------------------------------------------
(* The files: an object is put in the bucket first and named by a row then. *)

\* POST uploads/init; the person has the classroom open.
Sign(f) ==
  /\ job[f] = Idle
  /\ \E p \in People : MayRead(p) /\ job' = [job EXCEPT ![f] = Attaching(p)]
  /\ UNCHANGED <<data, page, history, bounds>>

\* The browser's PUT, with the signed URL.
Put(f) ==
  /\ job[f].step = "signed"
  /\ store' = store \cup {f}
  /\ Go(f, "held")
  /\ UNCHANGED <<course, members, session, rows, page, history, bounds>>

\* chat:send, as far as its first await; a later arrival is a later click.
Submit(f) ==
  /\ job[f].step = "held"
  /\ IF MayChat(job[f].by) THEN Go(f, "granted") ELSE job' = [job EXCEPT ![f] = Over]
  /\ UNCHANGED <<data, page, history, bounds>>

BeingDeleted ==
  \E p \in People : IsDeletion(job[p]) /\ job[p].step # "done"

\* A row that names an object, for as long as there is the session.
Name(o) ==
  /\ session
  /\ rows' = rows \cup {o}
  /\ kept' = IF BeingDeleted THEN kept \cup {o} ELSE kept
  /\ Go(o, "done")
  /\ UNCHANGED <<course, members, session, store, given, cut>>

\* What a restart of the server leaves of a job: what it held in memory is gone.
Dropped(s) ==
  CASE s \in People -> Idle
    [] s \in Files /\ job[s].step = "granted" -> Over
    [] OTHER -> job[s]

Restart ==
  /\ job' = [s \in Slots |-> Dropped(s)]
  /\ cut' = (cut \/ \E p \in People : job[p].step \in {"half", "purged"})
  /\ UNCHANGED <<data, given, kept>>

\* The insert of a message.  Without its session it fails, and nothing catches
\* what a socket's handler throws: the process ends.
SaveMessage(f) ==
  /\ f \in Files /\ job[f].step = "granted"
  /\ Name(f) \/ (~session /\ Restart)
  /\ UNCHANGED <<page, bounds>>

\* The pipeline, in a process of its own.
PutVideo ==
  /\ job[Video].step = "running"
  /\ store' = store \cup {Video}
  /\ Go(Video, "put")
  /\ UNCHANGED <<course, members, session, rows, page, history, bounds>>

SaveVideo ==
  /\ job[Video].step = "put"
  /\ \/ Name(Video)
     \/ ~session /\ job' = [job EXCEPT ![Video] = Over] /\ UNCHANGED <<data, history>>
  /\ UNCHANGED <<page, bounds>>

-----------------------------------------------------------------------------
(* Deletion: the keys are gathered, the objects deleted, then the rows.     *)

\* Mutant: the files of the chat are forgotten.
FoundRecording == rows \cap {Video}

Found == rows

\* A session that is gone is answered with 404.
Gather(p) ==
  /\ IsDeletion(job[p]) /\ job[p].step = "granted"
  /\ \/ /\ job[p].kind = "delete course" \/ session
        /\ job' = [job EXCEPT ![p].keys = Found, ![p].step = "keys"]
        /\ UNCHANGED <<data, history>>
     \/ job[p].kind = "delete session" /\ ~session /\ Refuse(p)
  /\ UNCHANGED <<page, bounds>>

\* deleteObjects: what the store refuses is logged and left.
Purge(p, keys, next) ==
  /\ Go(p, next)
  /\ \/ store' = store \ keys /\ UNCHANGED <<kept, faults>>
     \/ keys # {} /\ Fault /\ kept' = kept \cup keys /\ UNCHANGED store
  /\ UNCHANGED <<course, members, session, rows, page, given, cut, moves>>

\* cleanupRecordingS3
PurgeRecording(p) ==
  /\ IsDeletion(job[p]) /\ job[p].step = "keys"
  /\ Purge(p, job[p].keys \cap {Video}, "half")

PurgeChat(p) ==
  /\ IsDeletion(job[p]) /\ job[p].step = "half"
  /\ Purge(p, job[p].keys \cap Files, "purged")

\* The row goes, and what refers to it with it; the second of two deletions
\* finds no row and fails.
Cascade(p) ==
  /\ IsDeletion(job[p]) /\ job[p].step = "purged"
  /\ \/ /\ job[p].kind = "delete session" /\ session
        /\ UNCHANGED <<course, members, given>>
        /\ session' = FALSE /\ rows' = {}
        /\ Go(p, "done")
        /\ UNCHANGED <<store, kept, cut>>
     \/ /\ job[p].kind = "delete course" /\ course.here
        /\ course' = [course EXCEPT !.here = FALSE]
        /\ members' = [q \in People |-> "none"]
        /\ given' = [q \in People |-> "none"]
        /\ session' = FALSE /\ rows' = {}
        /\ Go(p, "done")
        /\ UNCHANGED <<store, kept, cut>>
     \/ ~(IF job[p].kind = "delete session" THEN session ELSE course.here) /\ Refuse(p)
  /\ UNCHANGED <<page, bounds>>

Crash ==
  /\ Fault
  /\ Restart
  /\ UNCHANGED <<page, moves>>

-----------------------------------------------------------------------------
\* What a reload gives.
Loaded(p, site) ==
  [site |-> site, role |-> members[p], public |-> course.public,
   session |-> session /\ site = "course",
   people |-> IF site = "members" THEN {q \in Accounts : IsMember(q)} ELSE {}]

\* POST /courses, and what invitations, joins and a recording have made of it since.
Init ==
  /\ course \in [here : {TRUE}, public : BOOLEAN, code : {1}]
  /\ members \in {m \in [People -> Roles] :
                    m[Owner] = "TEACHER" /\ \A p \in Guests : m[p] = "none"}
  /\ given = [p \in People |-> IF members[p] = "TEACHER" THEN "TEACHER" ELSE "none"]
  /\ session = TRUE
  /\ rows = {} /\ store = {}
  /\ job = [s \in Slots |-> IF s = Video THEN Transcoding ELSE Idle]
  /\ \E site \in Sites :
       page = [p \in People |-> IF p = Owner THEN Loaded(p, site)
                                ELSE IF MayRead(p) THEN Loaded(p, "course") ELSE Blank]
  /\ good = [p \in People |-> TRUE]
  /\ kept = {} /\ cut = FALSE
  /\ moves = 0 /\ faults = 0

Clicks(p) ==
  \/ Open(p) \/ Join(p) \/ Invite(p) \/ Remove(p) \/ Rotate(p) \/ Toggle(p)
  \/ DeleteSession(p) \/ DeleteCourse(p) \/ Answered(p)

Handlers(p) ==
  \/ Authorise(p) \/ LookUp(p) \/ Enrol(p) \/ Enlist(p) \/ Expel(p) \/ NewCode(p) \/ Publish(p)
  \/ ReadCourse(p) \/ AdmitList(p) \/ ReadList(p)
  \/ Gather(p) \/ PurgeRecording(p) \/ PurgeChat(p) \/ Cascade(p)

Uploads(f) == Sign(f) \/ Put(f) \/ Submit(f) \/ SaveMessage(f)

Step ==
  \/ \E p \in People : Clicks(p) \/ Handlers(p)
  \/ \E f \in Files : Uploads(f)
  \/ PutVideo \/ SaveVideo
  \/ Crash

Next == Step /\ Remember

Spec == Init /\ [][Next]_vars

-----------------------------------------------------------------------------
\* When the session is gone, so are the objects its rows named: no file of a
\* message or of the recording is left behind, unless the store refused to
\* delete it or its row was written while the deletion was under way
\* (sessions.routes.ts:169-170: "Recording + chat attachments both leak otherwise").
DeletedIsGone ==
  ~session => {o \in Objects : job[o].step = "done"} \cap store \subseteq kept

\* While nobody deletes, every row names an object that is there: uploads come
\* before their rows, and no deletion takes an object and leaves its row, unless
\* the server went down in the middle of one.
RowsNameObjects ==
  (~cut /\ \A p \in People : ~(IsDeletion(job[p]) /\ job[p].step \in {"half", "purged"}))
    => rows \subseteq store

\* The bucket and the tables keep step, through uploads, a pipeline, deletions
\* side by side, and crashes.
StoreInStep == DeletedIsGone /\ RowsNameObjects

\* What succeeds was entitled to at some time since it was asked for: once a
\* removal, a new join code or a return to PRIVATE has been answered, nothing sent
\* afterwards gets through ("They will lose access to this course immediately",
\* "The current join code will stop working immediately").
EntitledSinceSent == \A p \in People : job[p].step = "done" => good[p]

\* A role is what a teacher last made it: the join of somebody who is being
\* invited, or has been, never takes it back, whichever statement comes last.
InvitationsStand ==
  \A p \in People : members[p] # given[p] => given[p] = "none" /\ members[p] = "STUDENT"
=============================================================================
