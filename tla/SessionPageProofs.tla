-------------------------- MODULE SessionPageProofs -------------------------
(***************************************************************************)
(* The properties of the session page, for a recording of any length, any  *)
(* number of takes, summaries and codes, and any number of moves.          *)
(***************************************************************************)
EXTENDS SessionPage, TLAPS

Act == [kind : {"retry", "reset", "save"}, step : {"posted", "served", "reload"},
        take : 1..MaxTakes, text : Text]
Put == [pos : 0..Len, completed : BOOLEAN, anew : BOOLEAN, refocused : BOOLEAN]

-----------------------------------------------------------------------------
(* Nulls and answers.                                                       *)

LEMMA Bounds ==
  Len \in Nat /\ MaxTakes \in Nat /\ MaxRuns \in Nat /\ MaxCodes \in Nat /\ MaxMoves \in Nat
BY SessionPageAssumption

LEMMA NilIsNone ==
  /\ Nil \notin Snapshot /\ Nil \notin Playback /\ Nil \notin Act /\ Nil \notin Put
  /\ Nil \notin [pos : 0..Len, completed : BOOLEAN]
<1>1. DOMAIN Nil = {"nil"}
  BY DEF Nil
<1>2. \A r \in Snapshot : "gated" \in DOMAIN r
  BY DEF Snapshot
<1>3. \A r \in Playback : "ready" \in DOMAIN r
  BY DEF Playback
<1>4. \A r \in Act : "kind" \in DOMAIN r
  BY DEF Act
<1>5. \A r \in Put \cup [pos : 0..Len, completed : BOOLEAN] : "pos" \in DOMAIN r
  BY DEF Put
<1> QED BY <1>1, <1>2, <1>3, <1>4, <1>5

LEMMA AnswersDiffer == Snapshot \cap Playback = {}
<1>1. \A r \in Snapshot : DOMAIN r = {"status", "gated", "take", "rec"}
  BY DEF Snapshot
<1>2. \A r \in Playback : "ready" \in DOMAIN r
  BY DEF Playback
<1> QED BY <1>1, <1>2

\* What the server answers is of the recording there is.
LEMMA Answer ==
  ASSUME TypeOK
  PROVE  /\ TheSession \in Snapshot /\ TheSession.rec = rec.status /\ TheSession.take = rec.take
         /\ \A by \in {"boot", "poll", "meta"} :
              ThePlayback(by) # Nil =>
                /\ ThePlayback(by) \in Playback /\ rec.take # 0
                /\ ThePlayback(by).take = rec.take /\ ThePlayback(by).manual = rec.manual
<1>1. rec \in Recording /\ sess.status \in SessionStatus
  BY DEF TypeOK
<1>2. TheSession \in Snapshot /\ TheSession.rec = rec.status /\ TheSession.take = rec.take
  BY <1>1 DEF TheSession, Snapshot, Recording
<1>3. ASSUME NEW by \in {"boot", "poll", "meta"}, ThePlayback(by) # Nil
      PROVE  /\ ThePlayback(by) \in Playback /\ rec.take # 0
             /\ ThePlayback(by).take = rec.take /\ ThePlayback(by).manual = rec.manual
  <2>1. /\ rec.take # 0
        /\ ThePlayback(by) = [ready |-> rec.status = "READY" /\ rec.video, by |-> by,
                              take |-> rec.take, tr |-> rec.tr, auto |-> rec.auto,
                              manual |-> rec.manual]
    BY <1>3 DEF ThePlayback
  <2>2. rec.take \in 1..MaxTakes
    BY <1>1, <2>1, Bounds DEF Recording
  <2> QED BY <1>1, <2>1, <2>2 DEF Playback, Recording
<1> QED BY <1>2, <1>3

-----------------------------------------------------------------------------
(* Types.                                                                   *)

\* The editor is open on its card only: who saves sees a recording.
TypeInv == TypeOK /\ (page.editing => Card(page))

LEMMA DraftKeeps ==
  ASSUME NEW new \in Page
  PROVE  /\ Draft(new) \in Page
         /\ Draft(new).editing => new.editing /\ Card(new)
         /\ \A f \in {"at", "role", "sess", "pb", "started", "focus", "last", "anew",
                    "refocused", "missed", "behind"} :
              Draft(new)[f] = new[f]
<1>1. CASE new.editing /\ Card(new)
  BY <1>1 DEF Draft
<1>2. CASE ~ (new.editing /\ Card(new))
  <2>1. PICK t : t = IF new.pb = Nil THEN 0 ELSE Resolved(new.pb)
    OBVIOUS
  <2>2. t \in Text
    <3>1. CASE new.pb = Nil
      BY <2>1, <3>1, Bounds DEF Text, Typed
    <3>2. CASE new.pb # Nil
      <4>1. new.pb \in Playback
        BY <3>2 DEF Page
      <4>2. new.pb.manual \in Text /\ new.pb.auto \in Text
        BY <4>1, Bounds DEF Playback, Text, Typed
      <4> QED BY <2>1, <3>2, <4>2 DEF Resolved
    <3> QED BY <3>1, <3>2
  <2>3. Draft(new) = [new EXCEPT !.editing = FALSE, !.draft = t]
    BY <1>2, <2>1 DEF Draft
  <2> QED BY <2>2, <2>3 DEF Page
<1> QED BY <1>1, <1>2

LEMMA SamePlayer ==
  ASSUME NEW p, NEW q, p.at = q.at, p.sess = q.sess, p.pb = q.pb, p.role = q.role, p.focus = q.focus
  PROVE  /\ Loaded(p) = Loaded(q) /\ Gated(p) = Gated(q) /\ Shown(p) = Shown(q)
         /\ VideoOn(p) = VideoOn(q) /\ Card(p) = Card(q) /\ Source(p) = Source(q)
BY DEF Loaded, Gated, LiveTakeover, Shown, VideoOn, Card, Source

LEMMA PlayerHasType ==
  ASSUME video \in Player, NEW old, NEW new, NEW ps \in BOOLEAN, NEW ss \in BOOLEAN
  PROVE  Rendered(old, new, ps, ss) \in Player
<1>1. CASE ~ VideoOn(new)
  <2>1. Rendered(old, new, ps, ss) = NoVideo
    BY <1>1 DEF Rendered
  <2> QED BY <2>1, Bounds DEF NoVideo, Player
<1>2. CASE VideoOn(new)
  <2>f. PICK fresh \in BOOLEAN : fresh = (~ VideoOn(old) \/ old.focus # new.focus)
    OBVIOUS
  <2>r. PICK reloads \in BOOLEAN : reloads = (fresh \/ Source(old) # Source(new))
    OBVIOUS
  <2>1. Rendered(old, new, ps, ss) =
          [hears  |-> ps \/ (video.hears /\ ~ fresh),
           seeks  |-> IF ps \/ ss THEN new.started # 0 ELSE video.seeks /\ ~ fresh,
           loaded |-> video.loaded /\ ~ reloads,
           pos    |-> IF reloads THEN 0 ELSE video.pos]
    BY <1>2, <2>f, <2>r DEF Rendered
  <2>2. PICK h \in BOOLEAN : h = (ps \/ (video.hears /\ ~ fresh))
    OBVIOUS
  <2>3. PICK k \in BOOLEAN : k = IF ps \/ ss THEN new.started # 0 ELSE video.seeks /\ ~ fresh
    OBVIOUS
  <2>4. PICK l \in BOOLEAN : l = (video.loaded /\ ~ reloads)
    OBVIOUS
  <2>5. PICK q \in 0..Len : q = IF reloads THEN 0 ELSE video.pos
    BY Bounds DEF Player
  <2>6. Rendered(old, new, ps, ss) = [hears |-> h, seeks |-> k, loaded |-> l, pos |-> q]
    BY <2>1, <2>2, <2>3, <2>4, <2>5
  <2> QED BY <2>6 DEF Player
<1> QED BY <1>1, <1>2

\* What setting states does to page and player.
LEMMA Commits ==
  ASSUME TypeOK, NEW new \in Page, NEW ps \in BOOLEAN, NEW ss \in BOOLEAN, Commit(new, ps, ss)
  PROVE  /\ page' \in Page /\ video' \in Player
         /\ page'.editing => new.editing /\ Card(page')
         /\ page'.at = new.at /\ page'.role = new.role /\ page'.sess = new.sess /\ page'.pb = new.pb
         /\ page'.started = new.started /\ page'.focus = new.focus /\ page'.last = new.last
         /\ page'.anew = new.anew /\ page'.refocused = new.refocused
         /\ page'.missed = new.missed /\ page'.behind = new.behind
         /\ video' = Rendered(page, page', ps, ss)
<1>1. page' = Draft(new) /\ video' = Rendered(page, page', ps, ss)
  BY DEF Commit
<1>2. /\ page' \in Page
      /\ page'.editing => new.editing /\ Card(new)
      /\ page'.at = new.at /\ page'.role = new.role /\ page'.sess = new.sess /\ page'.pb = new.pb
      /\ page'.started = new.started /\ page'.focus = new.focus /\ page'.last = new.last
      /\ page'.anew = new.anew /\ page'.refocused = new.refocused
      /\ page'.missed = new.missed /\ page'.behind = new.behind
  BY <1>1, DraftKeeps
<1>3. Card(page') = Card(new)
  BY <1>2, SamePlayer
<1>4. video \in Player
  BY DEF TypeOK
<1>5. video' \in Player
  BY <1>1, <1>4, PlayerHasType
<1> QED BY <1>1, <1>2, <1>3, <1>5

LEMMA PlaybackCommits ==
  ASSUME TypeOK, NEW new \in Page, SetsPlayback(new)
  PROVE  page' \in Page /\ video' \in Player /\ (page'.editing => Card(page'))
<1>1. PICK m : m = [new EXCEPT !.gaveUp = FALSE]
  OBVIOUS
<1>2. m \in Page /\ Commit(m, TRUE, FALSE)
  BY <1>1 DEF Page, SetsPlayback
<1> QED BY <1>2, Commits

\* What the page shows of the next state, the code in sessionStorage being kept.
LEMMA SameStored ==
  ASSUME stored' = stored
  PROVE  Card(page)' = Card(page') /\ VideoOn(page)' = VideoOn(page')
BY DEF Loaded, Gated, LiveTakeover, Shown, VideoOn, Card

LEMMA MovesType ==
  ASSUME TypeOK, Move \/ NoFault
  PROVE  used' \in [takes : 0..MaxTakes, runs : 0..MaxRuns, codes : 0..MaxCodes, moves : 0..MaxMoves]
BY Bounds DEF TypeOK, Move, NoFault

\* Only what a step changes is left to show.
LEMMA PageTypes ==
  ASSUME TypeInv, UNCHANGED <<serverVars, viewer, stored, put>>,
         page' \in Page, video' \in Player, page'.editing => Card(page'),
         asked' \in [poll : Snapshot \cup Playback \cup {Nil}, meta : Playback \cup {Nil}],
         act' \in {Nil} \cup Act, Move \/ NoFault
  PROVE  TypeInv'
<1>1. TypeOK'
  BY MovesType DEF TypeInv, TypeOK, serverVars, Act
<1> QED BY <1>1, SameStored DEF TypeInv

LEMMA AskedTypes ==
  ASSUME TypeOK
  PROVE  /\ asked.poll \in Snapshot \cup Playback \cup {Nil} /\ asked.meta \in Playback \cup {Nil}
         /\ \A a \in Snapshot \cup Playback \cup {Nil} :
              [asked EXCEPT !.poll = a] \in
                [poll : Snapshot \cup Playback \cup {Nil}, meta : Playback \cup {Nil}]
         /\ \A a \in Playback \cup {Nil} :
              [asked EXCEPT !.meta = a] \in
                [poll : Snapshot \cup Playback \cup {Nil}, meta : Playback \cup {Nil}]
         /\ [poll |-> Nil, meta |-> Nil] \in
                [poll : Snapshot \cup Playback \cup {Nil}, meta : Playback \cup {Nil}]
BY DEF TypeOK

LEMMA FirstPages ==
  ASSUME TypeOK
  PROVE  /\ ClosedPage \in Page /\ NewPage \in Page /\ NoVideo \in Player
         /\ ~ ClosedPage.editing /\ ~ NewPage.editing
         /\ ClosedPage.at = "closed" /\ ClosedPage.pb = Nil /\ ClosedPage.sess = Nil
         /\ NewPage.at = "boot" /\ NewPage.pb = Nil /\ NewPage.sess = Nil
<1>1. ClosedPage \in Page
  BY Bounds DEF ClosedPage, Page, Text, Typed
<1>2. NewPage = [ClosedPage EXCEPT !.at = "boot"]
  BY DEF NewPage
<1>3. NewPage \in Page
  BY <1>1, <1>2 DEF Page
<1>4. NoVideo \in Player
  BY Bounds DEF NoVideo, Player
<1> QED BY <1>1, <1>2, <1>3, <1>4 DEF ClosedPage

LEMMA BootTypes ==
  ASSUME TypeInv, Open \/ Leave \/ Boots
  PROVE  TypeInv'
<1> TypeOK
  BY DEF TypeInv
<1>a. asked \in [poll : Snapshot \cup Playback \cup {Nil}, meta : Playback \cup {Nil}]
      /\ act \in {Nil} \cup Act /\ page \in Page
  BY DEF TypeOK, Act
<1>1. CASE Open
  <2>1. page' \in Page /\ video' \in Player /\ (page'.editing => Card(page'))
    BY <1>1, FirstPages, Commits DEF Open, Renders
  <2> QED BY <1>1, <1>a, <2>1, PageTypes DEF Open, Move, NoFault
<1>2. CASE Leave
  <2>1. page' \in Page /\ video' \in Player /\ (page'.editing => Card(page'))
    BY <1>2, FirstPages, Commits DEF Leave, Renders
  <2> QED BY <1>2, <1>a, <2>1, PageTypes, AskedTypes DEF Leave, NoFault
<1>3. CASE Boot
  <2>1. PICK new \in Page : Renders(new)
    <3>1. [page EXCEPT !.at = "playback", !.sess = TheSession, !.role = viewer] \in Page
      BY <1>a, Answer DEF Page, TypeOK
    <3>2. [page EXCEPT !.at = "failed", !.anew = TRUE] \in Page
      BY <1>a DEF Page
    <3> QED BY <1>3, <3>1, <3>2 DEF Boot
  <2>2. page' \in Page /\ video' \in Player /\ (page'.editing => Card(page'))
    BY <2>1, Commits DEF Renders
  <2> QED BY <1>3, <1>a, <2>2, PageTypes DEF Boot, Fault
<1>4. CASE BootPlayback
  <2>1. PICK new \in Page : SetsPlayback(new) \/ Renders(new)
    <3>1. [page EXCEPT !.at = "continue"] \in Page
      BY <1>a DEF Page
    <3>2. [[page EXCEPT !.at = "continue"] EXCEPT !.missed = Missed(page)] \in Page
      BY <1>a DEF Page, Missed
    <3>3. ThePlayback("boot") # Nil =>
            [[page EXCEPT !.at = "continue"] EXCEPT !.pb = ThePlayback("boot")] \in Page
      BY <1>a, Answer DEF Page
    <3> QED BY <1>4, <3>2, <3>3 DEF BootPlayback
  <2>2. page' \in Page /\ video' \in Player /\ (page'.editing => Card(page'))
    BY <2>1, Commits, PlaybackCommits DEF Renders
  <2> QED BY <1>4, <1>a, <2>2, PageTypes DEF BootPlayback, Fault
<1>5. CASE BootContinue
  <2>1. PICK new \in Page : Commit(new, FALSE, TRUE)
    <3>1. \A pos \in 0..Len, anew \in BOOLEAN :
            [page EXCEPT !.at = "open", !.started = pos, !.anew = anew] \in Page
      BY <1>a DEF Page
    <3>2. Continued => progress.pos \in 0..Len
      BY DEF Continued, TypeOK
    <3>3. PICK b \in BOOLEAN : b = (put # Nil \/ progress.pos = Len)
      OBVIOUS
    <3>4. PICK c \in BOOLEAN : c = (put # Nil \/ progress # Nil)
      OBVIOUS
    <3>5. \/ Continued /\ Commit([page EXCEPT !.at = "open", !.started = progress.pos, !.anew = b], FALSE, TRUE)
          \/ Commit([page EXCEPT !.at = "open", !.started = 0, !.anew = c], FALSE, TRUE)
          \/ Commit([page EXCEPT !.at = "open", !.started = 0, !.anew = TRUE], FALSE, TRUE)
      BY <1>5, <3>3, <3>4 DEF BootContinue
    <3>6. CASE Continued /\ Commit([page EXCEPT !.at = "open", !.started = progress.pos, !.anew = b], FALSE, TRUE)
      <4>1. [page EXCEPT !.at = "open", !.started = progress.pos, !.anew = b] \in Page
        BY <3>1, <3>2, <3>6
      <4> QED BY <3>6, <4>1
    <3>7. CASE \E d \in BOOLEAN : Commit([page EXCEPT !.at = "open", !.started = 0, !.anew = d], FALSE, TRUE)
      <4>1. PICK d \in BOOLEAN : Commit([page EXCEPT !.at = "open", !.started = 0, !.anew = d], FALSE, TRUE)
        BY <3>7
      <4>2. [page EXCEPT !.at = "open", !.started = 0, !.anew = d] \in Page
        <5>1. PICK z \in 0..Len : z = 0
          BY Bounds
        <5>2. [page EXCEPT !.at = "open", !.started = z, !.anew = d] \in Page
          BY <3>1, Zenon
        <5> QED BY <5>1, <5>2
      <4> QED BY <4>1, <4>2
    <3>8. \/ Commit([page EXCEPT !.at = "open", !.started = 0, !.anew = c], FALSE, TRUE)
          \/ Commit([page EXCEPT !.at = "open", !.started = 0, !.anew = TRUE], FALSE, TRUE)
          => \E d \in BOOLEAN : Commit([page EXCEPT !.at = "open", !.started = 0, !.anew = d], FALSE, TRUE)
      OBVIOUS
    <3> QED BY <3>5, <3>6, <3>7, <3>8
  <2>2. page' \in Page /\ video' \in Player /\ (page'.editing => Card(page'))
    BY <2>1, Commits
  <2> QED BY <1>5, <1>a, <2>2, PageTypes DEF BootContinue, Fault
<1> QED BY <1>1, <1>2, <1>3, <1>4, <1>5 DEF Boots

LEMMA PollerTypes ==
  ASSUME TypeInv, Pollers
  PROVE  TypeInv'
<1> TypeOK
  BY DEF TypeInv
<1>a. asked \in [poll : Snapshot \cup Playback \cup {Nil}, meta : Playback \cup {Nil}]
      /\ act \in {Nil} \cup Act /\ page \in Page /\ video \in Player
      /\ (page.editing => Card(page))
  BY DEF TypeOK, TypeInv, Act
<1>1. CASE PollAsks
  <2>1. asked' \in [poll : Snapshot \cup Playback \cup {Nil}, meta : Playback \cup {Nil}]
    BY <1>1, Answer, AskedTypes DEF PollAsks
  <2> QED BY <1>1, <1>a, <2>1, PageTypes DEF PollAsks, NoFault
<1>2. CASE PollSession
  <2>1. [page EXCEPT !.sess = asked.poll] \in Page
    BY <1>2, <1>a DEF PollSession, Page
  <2>2. [[page EXCEPT !.sess = asked.poll] EXCEPT !.missed = Missed([page EXCEPT !.sess = asked.poll])] \in Page
    BY <2>1 DEF Page, Missed
  <2>3. page' \in Page /\ video' \in Player /\ (page'.editing => Card(page'))
    BY <1>2, <2>1, <2>2, Commits DEF PollSession, Renders
  <2>4. asked' \in [poll : Snapshot \cup Playback \cup {Nil}, meta : Playback \cup {Nil}]
    BY <1>2, Answer, AskedTypes DEF PollSession
  <2> QED BY <1>2, <1>a, <2>3, <2>4, PageTypes DEF PollSession, NoFault
<1>3. CASE PollPlayback
  <2>1. PICK b \in BOOLEAN : b = Behind(asked.poll)
    BY DEF Behind
  <2>2. [page EXCEPT !.pb = asked.poll, !.behind = b] \in Page
    BY <1>3, <1>a DEF PollPlayback, Page
  <2>3. page' \in Page /\ video' \in Player /\ (page'.editing => Card(page'))
    BY <1>3, <2>1, <2>2, PlaybackCommits DEF PollPlayback
  <2> QED BY <1>3, <1>a, <2>3, AskedTypes, PageTypes DEF PollPlayback, NoFault
<1>4. CASE PollFails
  <2>1. PICK b \in BOOLEAN : b = (page.missed \/ asked.poll \in Playback)
    OBVIOUS
  <2>2. [page EXCEPT !.missed = b] \in Page
    BY <1>a DEF Page
  <2>3. page' \in Page /\ video' \in Player /\ (page'.editing => Card(page'))
    BY <1>4, <2>1, <2>2, Commits DEF PollFails, Renders
  <2> QED BY <1>4, <1>a, <2>3, AskedTypes, PageTypes DEF PollFails, Fault
<1>5. CASE MetaAsks
  <2>1. asked' \in [poll : Snapshot \cup Playback \cup {Nil}, meta : Playback \cup {Nil}]
    BY <1>5, Answer, AskedTypes DEF MetaAsks
  <2> QED BY <1>5, <1>a, <2>1, PageTypes DEF MetaAsks, NoFault
<1>6. CASE MetaAnswered
  <2>0. asked.meta \in Playback
    BY <1>6, AskedTypes DEF MetaAnswered
  <2>1. PICK b \in BOOLEAN : b = Behind(asked.meta)
    BY DEF Behind
  <2>2. [page EXCEPT !.pb = asked.meta, !.behind = b, !.missed = TRUE] \in Page
    BY <2>0, <1>a DEF Page
  <2>3. page.pb # Nil => Merged(page.pb, asked.meta) \in Playback
    BY <2>0, <1>a DEF Merged, Playback, Page
  <2>4. page.pb # Nil => [page EXCEPT !.pb = Merged(@, asked.meta), !.behind = b] \in Page
    BY <2>3, <1>a DEF Page
  <2>5. page' \in Page /\ video' \in Player /\ (page'.editing => Card(page'))
    BY <1>6, <2>1, <2>2, <2>4, PlaybackCommits DEF MetaAnswered
  <2> QED BY <1>6, <1>a, <2>5, AskedTypes, PageTypes DEF MetaAnswered, NoFault
<1>7. CASE MetaFails
  BY <1>7, <1>a, AskedTypes, PageTypes DEF MetaFails, Fault
<1>8. CASE MetaGivesUp
  <2>1. page' = [page EXCEPT !.gaveUp = TRUE] /\ page' \in Page
    BY <1>8, <1>a DEF MetaGivesUp, Page
  <2>2. page'.editing => Card(page')
    BY <1>a, <2>1, SamePlayer DEF Page
  <2> QED BY <1>8, <1>a, <2>1, <2>2, PageTypes DEF MetaGivesUp, Fault
<1> QED BY <1>1, <1>2, <1>3, <1>4, <1>5, <1>6, <1>7, <1>8 DEF Pollers

\* The viewer moves within the player, or it plays on.
LEMMA AtTypes ==
  ASSUME TypeInv, NEW pos \in 0..Len, NEW p \in Page, At(pos, p), Move \/ NoFault,
         p.editing => Card(p)
  PROVE  TypeInv'
<1> USE Bounds
<1> TypeOK
  BY DEF TypeInv
<1>1. UNCHANGED <<serverVars, viewer, stored, asked, act>>
      /\ video' = [video EXCEPT !.pos = pos, !.loaded = TRUE]
      /\ (page' = [p EXCEPT !.last = pos] \/ page' = p)
      /\ (put' = Save(pos, FALSE, p) \/ put' = put)
  BY DEF At
<1>2. page' \in Page /\ video' \in Player
  <2>1. page' \in Page
    BY <1>1 DEF Page
  <2>2. video \in Player
    BY DEF TypeOK
  <2>3. video' \in Player
    BY <1>1, <2>2 DEF Player
  <2> QED BY <2>1, <2>3
<1>3. put' \in Put \cup {Nil}
  <2>1. p.anew \in BOOLEAN /\ p.refocused \in BOOLEAN
    BY DEF Page
  <2>2. Save(pos, FALSE, p) \in Put
    BY <2>1 DEF Put, Save
  <2>3. put \in Put \cup {Nil}
    BY DEF TypeOK, Put
  <2> QED BY <1>1, <2>2, <2>3
<1>4. page'.editing => Card(page')
  <2>1. /\ p.at = page'.at /\ p.sess = page'.sess /\ p.pb = page'.pb /\ p.role = page'.role
        /\ p.focus = page'.focus /\ p.editing = page'.editing
    BY <1>1 DEF Page
  <2>2. Card(p) = Card(page')
    BY <2>1, SamePlayer
  <2> QED BY <2>1, <2>2
<1>5. TypeOK'
  BY <1>1, <1>2, <1>3, MovesType DEF TypeOK, serverVars, Put
<1> QED BY <1>1, <1>4, <1>5, SameStored DEF TypeInv

LEMMA PlayTypes ==
  ASSUME TypeInv, Plays \/ PutProgress
  PROVE  TypeInv'
<1> USE Bounds
<1> TypeOK
  BY DEF TypeInv
<1>a. page \in Page /\ video \in Player /\ (page.editing => Card(page)) /\ put \in Put \cup {Nil}
  BY DEF TypeOK, TypeInv, Put
<1>1. CASE MetadataLoads
  <2>1. PICK pos \in 0..Len : At(pos, page)
    <3>1. (IF video.seeks /\ video.pos < 1 /\ page.started < Len THEN page.started ELSE video.pos) \in 0..Len
      BY <1>a DEF Page, Player
    <3> QED BY <1>1, <3>1 DEF MetadataLoads
  <2> QED BY <1>1, <1>a, <2>1, AtTypes DEF MetadataLoads, NoFault
<1>2. CASE Play
  <2>1. video.pos + 1 \in 0..Len
    BY <1>2, <1>a DEF Play, Player
  <2> QED BY <1>2, <1>a, <2>1, AtTypes DEF Play, NoFault
<1>3. ASSUME NEW pos \in 0..Len, SeekTo(pos) PROVE TypeInv'
  <2>1. PICK p : p = [page EXCEPT !.anew = TRUE]
    OBVIOUS
  <2>2. p \in Page /\ p.editing = page.editing
    BY <1>a, <2>1 DEF Page
  <2>3. Card(p) = Card(page)
    BY <1>a, <2>1, SamePlayer DEF Page
  <2>4. At(pos, p) /\ Move
    BY <1>3, <2>1 DEF SeekTo
  <2> QED BY <1>a, <2>2, <2>3, <2>4, AtTypes
<1>4. CASE Ended
  <2>1. page' = [page EXCEPT !.last = Len] /\ page' \in Page
    BY <1>4, <1>a DEF Ended, Page
  <2>2. page'.editing => Card(page')
    BY <1>a, <2>1, SamePlayer DEF Page
  <2>3. Save(Len, TRUE, page) \in Put
    BY <1>a DEF Page, Put, Save
  <2>4. TypeOK'
    BY <1>4, <2>1, <2>3 DEF Ended, TypeOK, serverVars, Put
  <2> QED BY <1>4, <2>2, <2>4, SameStored DEF Ended, TypeInv
<1>5. CASE FocusMode
  <2>1. PICK new \in Page : Renders(new)
    <3>1. [page EXCEPT !.focus = ~ @, !.refocused = TRUE] \in Page
      BY <1>a DEF Page
    <3> QED BY <1>5, <3>1 DEF FocusMode
  <2>2. page' \in Page /\ video' \in Player /\ (page'.editing => Card(page'))
    BY <2>1, Commits DEF Renders
  <2> QED BY <1>5, <2>2, PageTypes DEF FocusMode, TypeOK, Act
<1>6. CASE PutProgress
  <2>1. progress' \in [pos : 0..Len, completed : BOOLEAN] \cup {Nil} /\ crowd' \in BOOLEAN
    <3>1. put \in Put
      BY <1>6, <1>a DEF PutProgress
    <3>2. [pos |-> put.pos, completed |-> put.completed] \in [pos : 0..Len, completed : BOOLEAN]
      BY <3>1 DEF Put
    <3> QED BY <1>6, <3>2 DEF PutProgress, TypeOK
  <2>2. TypeOK'
    BY <1>6, <2>1, MovesType DEF PutProgress, TypeOK, pageVars, Put, Fault, NoFault
  <2> QED BY <1>6, <1>a, <2>2, SameStored DEF PutProgress, TypeInv, pageVars
<1> QED BY <1>1, <1>2, <1>3, <1>4, <1>5, <1>6 DEF Plays

\* Who sees a recording asks about that one.
LEMMA PressTypes ==
  ASSUME TypeOK, Shown(page), page.sess.take # 0,
         NEW kind \in {"retry", "reset", "save"}, NEW text \in Text, Press(kind, text)
  PROVE  act' \in {Nil} \cup Act
<1>1. page.sess \in Snapshot
  BY DEF TypeOK, Page, Shown
<1>2. page.sess.take \in 1..MaxTakes
  BY <1>1, Bounds DEF Snapshot
<1> QED BY <1>2 DEF Press, Act

LEMMA ButtonTypes ==
  ASSUME TypeInv, Buttons
  PROVE  TypeInv'
<1> USE Bounds
<1> TypeOK
  BY DEF TypeInv
<1>a. /\ asked \in [poll : Snapshot \cup Playback \cup {Nil}, meta : Playback \cup {Nil}]
      /\ act \in {Nil} \cup Act /\ page \in Page /\ video \in Player
      /\ page.editing => Card(page)
  BY DEF TypeOK, TypeInv, Act
<1>b. 0 \in Text /\ Typed \in Text
  BY DEF Text, Typed
<1>1. CASE Retry
  <2>1. act' \in {Nil} \cup Act
    BY <1>1, <1>b, PressTypes DEF Retry
  <2> QED BY <1>1, <1>a, <2>1, PageTypes DEF Retry
<1>2. CASE Reset
  <2>1. act' \in {Nil} \cup Act
    BY <1>2, <1>b, PressTypes DEF Reset
  <2> QED BY <1>2, <1>a, <2>1, PageTypes DEF Reset
<1>3. CASE Edit
  <2>1. page' = [page EXCEPT !.editing = TRUE] /\ page' \in Page
    BY <1>3, <1>a DEF Edit, Page
  <2>2. Card(page')
    BY <1>3, <2>1, <1>a, SamePlayer DEF Edit, Page
  <2> QED BY <1>3, <1>a, <2>1, <2>2, PageTypes DEF Edit
<1>4. CASE Type
  <2>1. page' = [page EXCEPT !.draft = Typed] /\ page' \in Page
    BY <1>4, <1>a, <1>b DEF Type, Page
  <2>2. Card(page')
    BY <1>4, <2>1, <1>a, SamePlayer DEF Type, Page
  <2> QED BY <1>4, <1>a, <2>1, <2>2, PageTypes DEF Type, NoFault
<1>5. CASE Cancel
  <2>1. [page EXCEPT !.editing = FALSE] \in Page
    BY <1>a DEF Page
  <2>2. page' \in Page /\ video' \in Player /\ (page'.editing => Card(page'))
    BY <1>5, <2>1, Commits DEF Cancel, Renders
  <2> QED BY <1>5, <1>a, <2>2, PageTypes DEF Cancel, NoFault
<1>6. CASE SaveSummary
  <2>1. page.editing /\ Shown(page) /\ page.sess.take # 0 /\ page.draft \in Text
    BY <1>6, <1>a DEF SaveSummary, Card, Page
  <2>2. act' \in {Nil} \cup Act
    BY <1>6, <1>b, <2>1, PressTypes DEF SaveSummary
  <2> QED BY <1>6, <1>a, <2>2, PageTypes DEF SaveSummary, NoFault
<1>7. CASE Serve
  <2>1. act \in Act
    BY <1>7, <1>a DEF Serve
  <2>2. rec' \in Recording
    <3>1. NoRow \in Recording
      BY <1>b DEF NoRow, Recording, RowStatus
    <3>2. RetryRow \in Recording
      <4>1. PICK st \in RowStatus : st = IF rec.video THEN "READY" ELSE "PROCESSING"
        BY DEF RowStatus
      <4>2. PICK z \in 0..MaxRuns : z = 0
        OBVIOUS
      <4>3. RetryRow = [rec EXCEPT !.status = st, !.auto = z]
        BY <4>1, <4>2 DEF RetryRow
      <4> QED BY <4>3 DEF Recording, TypeOK
    <3>3. [rec EXCEPT !.manual = act.text] \in Recording
      BY <2>1 DEF Recording, Act, TypeOK
    <3> QED BY <1>7, <2>1, <3>1, <3>2, <3>3 DEF Serve, Act, TypeOK
  <2>3. sess' \in [status : SessionStatus, code : Codes]
    BY <1>7 DEF Serve, TypeOK, SessionStatus
  <2>4. act' \in {Nil} \cup Act
    BY <1>7, <2>1 DEF Serve, Act
  <2>5. TypeOK'
    BY <1>7, <2>2, <2>3, <2>4 DEF Serve, TypeOK, Act
  <2> QED BY <1>7, <1>a, <2>5, SameStored DEF Serve, TypeInv
<1>8. CASE Answered
  <2>1. act \in Act
    BY <1>8, <1>a DEF Answered
  <2>2. PICK new \in Page : SetsPlayback(new)
    <3>1. [page EXCEPT !.pb = Nil, !.anew = TRUE] \in Page
      BY <1>a DEF Page
    <3>2. Saved(page) \in Page
      BY <1>a, <2>1 DEF Page, Saved, Playback, Act
    <3> QED BY <1>8, <3>1, <3>2 DEF Answered
  <2>3. page' \in Page /\ video' \in Player /\ (page'.editing => Card(page'))
    BY <2>2, PlaybackCommits
  <2>4. act' \in {Nil} \cup Act
    BY <1>8, <2>1 DEF Answered, Act
  <2> QED BY <1>8, <1>a, <2>3, <2>4, PageTypes DEF Answered, NoFault
<1>9. CASE Reloaded
  <2>1. PICK b \in BOOLEAN : b = (page.missed \/ (page.pb = Nil /\ rec.status = "READY"))
    OBVIOUS
  <2>2. PICK new : new = [page EXCEPT !.sess = TheSession, !.missed = b]
    OBVIOUS
  <2>3. new \in Page
    BY <1>a, <2>2, Answer DEF Page
  <2>4. PICK c \in BOOLEAN : c = (new.anew \/ (VideoOn(new) /\ ~ VideoOn(page)))
    OBVIOUS
  <2>5. [new EXCEPT !.anew = c] \in Page
    BY <2>3 DEF Page
  <2>6. Renders([new EXCEPT !.anew = c])
    BY <1>9, <2>1, <2>2, <2>4 DEF Reloaded
  <2>7. page' \in Page /\ video' \in Player /\ (page'.editing => Card(page'))
    BY <2>5, <2>6, Commits DEF Renders
  <2> QED BY <1>9, <1>a, <2>7, PageTypes DEF Reloaded, NoFault
<1>10. CASE ActFails
  <2>1. PICK b \in BOOLEAN : b = (page.behind \/ (act.kind = "save" /\ act.step = "served"))
    OBVIOUS
  <2>2. PICK c \in BOOLEAN : c = (page.missed \/ Missed(page))
    OBVIOUS
  <2>3. [page EXCEPT !.behind = b, !.missed = c] \in Page
    BY <1>a DEF Page
  <2>4. Renders([page EXCEPT !.behind = b, !.missed = c])
    BY <1>10, <2>1, <2>2 DEF ActFails
  <2>5. page' \in Page /\ video' \in Player /\ (page'.editing => Card(page'))
    BY <2>3, <2>4, Commits DEF Renders
  <2> QED BY <1>10, <1>a, <2>5, PageTypes DEF ActFails, Fault
<1> QED BY <1>1, <1>2, <1>3, <1>4, <1>5, <1>6, <1>7, <1>8, <1>9, <1>10 DEF Buttons

LEMMA OutsideTypes ==
  ASSUME TypeInv, EnterCode \/ Outside
  PROVE  TypeInv'
<1> USE Bounds
<1> TypeOK
  BY DEF TypeInv
<1>1. CASE EnterCode
  <2>1. page' = NewPage /\ video' = NoVideo /\ NewPage \in Page /\ NoVideo \in Player /\ ~ NewPage.editing
    BY <1>1, FirstPages DEF EnterCode
  <2>2. stored' \in Codes
    BY <1>1 DEF EnterCode, TypeOK
  <2>3. TypeOK'
    BY <1>1, <2>1, <2>2, AskedTypes, MovesType DEF EnterCode, TypeOK, serverVars
  <2> QED BY <2>1, <2>3 DEF TypeInv
<1>2. CASE Outside
  <2>1. UNCHANGED <<progress, pageVars, put>>
    BY <1>2 DEF Outside, World, SetCode, WatchOthers, StartRecording, StopRecording,
                Transcoded, Transcribed, Summarized, PipelineFails
  <2>2. /\ rec \in Recording /\ sess \in [status : SessionStatus, code : Codes] /\ crowd \in BOOLEAN
        /\ used \in [takes : 0..MaxTakes, runs : 0..MaxRuns, codes : 0..MaxCodes, moves : 0..MaxMoves]
    BY DEF TypeOK
  <2>3. /\ rec' \in Recording /\ sess' \in [status : SessionStatus, code : Codes] /\ crowd' \in BOOLEAN
        /\ used' \in [takes : 0..MaxTakes, runs : 0..MaxRuns, codes : 0..MaxCodes, moves : 0..MaxMoves]
    <3>1. CASE SetCode
      <4>1. sess' \in [status : SessionStatus, code : Codes]
        BY <3>1, <2>2 DEF SetCode, Codes
      <4>2. used' \in [takes : 0..MaxTakes, runs : 0..MaxRuns, codes : 0..MaxCodes, moves : 0..MaxMoves]
        <5>1. CASE Move
          BY <5>1, MovesType
        <5>2. CASE used.codes < MaxCodes /\ used.moves < MaxMoves
                   /\ used' = [used EXCEPT !.codes = @ + 1, !.moves = @ + 1]
          <6>1. used.codes + 1 \in 0..MaxCodes /\ used.moves + 1 \in 0..MaxMoves
            BY <5>2, <2>2
          <6> QED BY <5>2, <2>2, <6>1
        <5> QED BY <3>1, <5>1, <5>2 DEF SetCode
      <4> QED BY <3>1, <2>2, <4>1, <4>2 DEF SetCode
    <3>2. CASE WatchOthers
      BY <3>2, <2>2, MovesType DEF WatchOthers
    <3>3. CASE StartRecording
      <4>1. used.takes + 1 \in 0..MaxTakes
        BY <3>3, <2>2 DEF StartRecording
      <4>2. NoRow \in Recording
        BY DEF NoRow, Recording, RowStatus, Text, Typed
      <4>3. rec' \in Recording
        BY <3>3, <4>1, <4>2 DEF StartRecording, Recording, RowStatus
      <4>4. sess' \in [status : SessionStatus, code : Codes]
        BY <3>3, <2>2 DEF StartRecording, SessionStatus
      <4>5. used' \in [takes : 0..MaxTakes, runs : 0..MaxRuns, codes : 0..MaxCodes, moves : 0..MaxMoves]
        BY <3>3, <2>2, <4>1 DEF StartRecording
      <4> QED BY <3>3, <2>2, <4>3, <4>4, <4>5 DEF StartRecording
    <3>4. CASE StopRecording
      BY <3>4, <2>2 DEF StopRecording, Recording, RowStatus, SessionStatus
    <3>5. CASE Transcoded
      BY <3>5, <2>2 DEF Transcoded, Recording, RowStatus
    <3>6. CASE Transcribed
      BY <3>6, <2>2 DEF Transcribed, Recording
    <3>7. CASE Summarized
      <4>1. used.runs + 1 \in 0..MaxRuns
        BY <3>7, <2>2 DEF Summarized
      <4>2. rec' \in Recording
        BY <3>7, <2>2, <4>1 DEF Summarized, Recording
      <4>3. used' \in [takes : 0..MaxTakes, runs : 0..MaxRuns, codes : 0..MaxCodes, moves : 0..MaxMoves]
        BY <3>7, <2>2, <4>1 DEF Summarized
      <4> QED BY <3>7, <2>2, <4>2, <4>3 DEF Summarized
    <3>8. CASE PipelineFails
      BY <3>8, <2>2 DEF PipelineFails, Recording, RowStatus
    <3> QED BY <1>2, <3>1, <3>2, <3>3, <3>4, <3>5, <3>6, <3>7, <3>8 DEF Outside
  <2>4. TypeOK'
    BY <2>1, <2>3 DEF TypeOK, pageVars
  <2> QED BY <2>1, <2>4, SameStored DEF TypeInv, pageVars
<1> QED BY <1>1, <1>2

LEMMA TypeInvInductive ==
  /\ Init => TypeInv
  /\ TypeInv /\ [Next]_vars => TypeInv'
<1>1. ASSUME Init PROVE TypeInv
  <2>1. page = ClosedPage /\ video = NoVideo
    BY <1>1 DEF Init
  <2>2. ClosedPage \in Page /\ ~ ClosedPage.editing /\ NoVideo \in Player
    <3>1. ClosedPage \in Page
      BY Bounds DEF ClosedPage, Page, Text, Typed
    <3>2. NoVideo \in Player
      BY Bounds DEF NoVideo, Player
    <3> QED BY <3>1, <3>2 DEF ClosedPage
  <2>3. rec \in Recording
    BY <1>1, Bounds DEF Init, NoRow, Recording, RowStatus, Text, Typed
  <2>4. sess \in [status : SessionStatus, code : Codes] /\ stored \in Codes
    BY <1>1, Bounds DEF Init, SessionStatus, Codes
  <2>5. asked \in [poll : Snapshot \cup Playback \cup {Nil}, meta : Playback \cup {Nil}]
    BY <1>1 DEF Init
  <2>6. used \in [takes : 0..MaxTakes, runs : 0..MaxRuns, codes : 0..MaxCodes, moves : 0..MaxMoves]
    BY <1>1, Bounds DEF Init
  <2>7. TypeOK
    BY <1>1, <2>1, <2>2, <2>3, <2>4, <2>5, <2>6 DEF Init, TypeOK
  <2> QED BY <2>1, <2>2, <2>7 DEF TypeInv
<1>2. ASSUME TypeInv, [Next]_vars PROVE TypeInv'
  <2>1. CASE Next
    BY <1>2, <2>1, BootTypes, PollerTypes, PlayTypes, ButtonTypes, OutsideTypes DEF Next
  <2>2. CASE UNCHANGED vars
    BY <1>2, <2>2, SameStored DEF TypeInv, TypeOK, vars, serverVars, pageVars
  <2> QED BY <1>2, <2>1, <2>2
<1> QED BY <1>1, <1>2

\* Nothing the page, the player and the routes hold leaves its type.
THEOREM TypeCorrect == Spec => []TypeOK
<1>1. TypeInv => TypeOK
  BY DEF TypeInv
<1> QED BY <1>1, TypeInvInductive, PTL DEF Spec

-----------------------------------------------------------------------------
(* What an action does to the page, field by field.                         *)

SamePlace ==
  /\ page'.at = page.at /\ page'.role = page.role
  /\ page'.focus = page.focus /\ page'.started = page.started /\ page'.refocused = page.refocused
SameSession == SamePlace /\ page'.sess = page.sess
SameRecord == page'.pb = page.pb /\ page'.behind = page.behind

LEMMA CommitFields ==
  ASSUME page \in Page, NEW new, DOMAIN new = DOMAIN page, NEW ps, NEW ss, Commit(new, ps, ss)
  PROVE  /\ page'.at = new.at /\ page'.role = new.role /\ page'.sess = new.sess /\ page'.pb = new.pb
         /\ page'.started = new.started /\ page'.focus = new.focus /\ page'.last = new.last
         /\ page'.anew = new.anew /\ page'.refocused = new.refocused
         /\ page'.missed = new.missed /\ page'.behind = new.behind
         /\ video' = Rendered(page, page', ps, ss)
<1>1. page' = new \/ \E t : page' = [new EXCEPT !.editing = FALSE, !.draft = t]
  BY DEF Commit, Draft
<1>2. {"at", "role", "sess", "pb", "started", "focus", "last", "anew", "refocused", "missed", "behind"}
        \subseteq DOMAIN new
  BY DEF Page
<1>3. video' = Rendered(page, page', ps, ss)
  BY DEF Commit
<1> QED BY <1>1, <1>2, <1>3

LEMMA PlaybackFields ==
  ASSUME page \in Page, NEW new, DOMAIN new = DOMAIN page, SetsPlayback(new)
  PROVE  /\ page'.at = new.at /\ page'.role = new.role /\ page'.sess = new.sess /\ page'.pb = new.pb
         /\ page'.started = new.started /\ page'.focus = new.focus /\ page'.last = new.last
         /\ page'.anew = new.anew /\ page'.refocused = new.refocused
         /\ page'.missed = new.missed /\ page'.behind = new.behind
         /\ video' = Rendered(page, page', TRUE, FALSE)
<1>1. PICK m : m = [new EXCEPT !.gaveUp = FALSE]
  OBVIOUS
<1>2. DOMAIN m = DOMAIN page /\ Commit(m, TRUE, FALSE)
  BY <1>1 DEF SetsPlayback
<1>3. {"at", "role", "sess", "pb", "started", "focus", "last", "anew", "refocused", "missed", "behind"}
        \subseteq DOMAIN new
  BY DEF Page
<1>4. /\ m.at = new.at /\ m.role = new.role /\ m.sess = new.sess /\ m.pb = new.pb
      /\ m.started = new.started /\ m.focus = new.focus /\ m.last = new.last
      /\ m.anew = new.anew /\ m.refocused = new.refocused
      /\ m.missed = new.missed /\ m.behind = new.behind
  BY <1>1, <1>3
<1> QED BY <1>2, <1>4, CommitFields

LEMMA BootEffects ==
  ASSUME TypeInv
  PROVE  /\ Open => page'.at = "boot" /\ page'.pb = Nil
         /\ Leave => page'.at = "closed" /\ page'.pb = Nil
         /\ Boot => /\ page'.at = "playback" \/ (page'.at = "failed" /\ page'.anew)
                    /\ page'.pb = page.pb /\ page'.behind = page.behind
         /\ BootPlayback =>
              /\ page'.at = "continue" /\ page'.behind = page.behind
              /\ \/ page'.pb = page.pb
                 \/ ThePlayback("boot") # Nil /\ page'.pb = ThePlayback("boot")
         /\ BootContinue =>
              /\ page'.at = "open" /\ SameRecord
              /\ video' = Rendered(page, page', FALSE, TRUE)
              /\ \/ /\ Continued /\ page'.started = progress.pos
                    /\ put # Nil \/ progress.pos = Len => page'.anew
                 \/ ~ Continued /\ (put # Nil \/ progress # Nil => page'.anew)
                 \/ page'.anew
<1>a. page \in Page
  BY DEF TypeInv, TypeOK
<1>d. DOMAIN ClosedPage = DOMAIN page /\ DOMAIN NewPage = DOMAIN page
  BY <1>a DEF ClosedPage, NewPage, Page
<1>f. /\ NewPage.at = "boot" /\ NewPage.pb = Nil
      /\ ClosedPage.at = "closed" /\ ClosedPage.pb = Nil
  BY DEF NewPage, ClosedPage
<1>1. ASSUME Open PROVE page'.at = "boot" /\ page'.pb = Nil
  BY <1>1, <1>a, <1>d, <1>f, CommitFields DEF Open, Renders
<1>2. ASSUME Leave PROVE page'.at = "closed" /\ page'.pb = Nil
  BY <1>2, <1>a, <1>d, <1>f, CommitFields DEF Leave, Renders
<1>3. ASSUME Boot
      PROVE  /\ page'.at = "playback" \/ (page'.at = "failed" /\ page'.anew)
             /\ page'.pb = page.pb /\ page'.behind = page.behind
  <2>1. CASE Renders([page EXCEPT !.at = "playback", !.sess = TheSession, !.role = viewer])
    <3>1. PICK new : new = [page EXCEPT !.at = "playback", !.sess = TheSession, !.role = viewer]
      OBVIOUS
    <3>2. DOMAIN new = DOMAIN page /\ new.at = "playback" /\ new.pb = page.pb
          /\ new.behind = page.behind
      BY <1>a, <3>1 DEF Page
    <3> QED BY <1>a, <2>1, <3>1, <3>2, CommitFields DEF Renders
  <2>2. CASE Renders([page EXCEPT !.at = "failed", !.anew = TRUE])
    <3>1. PICK new : new = [page EXCEPT !.at = "failed", !.anew = TRUE]
      OBVIOUS
    <3>2. DOMAIN new = DOMAIN page /\ new.at = "failed" /\ new.anew /\ new.pb = page.pb
          /\ new.behind = page.behind
      BY <1>a, <3>1 DEF Page
    <3> QED BY <1>a, <2>2, <3>1, <3>2, CommitFields DEF Renders
  <2> QED BY <1>3, <2>1, <2>2 DEF Boot
<1>4. ASSUME BootPlayback
      PROVE  /\ page'.at = "continue" /\ page'.behind = page.behind
             /\ \/ page'.pb = page.pb
                \/ ThePlayback("boot") # Nil /\ page'.pb = ThePlayback("boot")
  <2>1. CASE ThePlayback("boot") # Nil
               /\ SetsPlayback([[page EXCEPT !.at = "continue"] EXCEPT !.pb = ThePlayback("boot")])
    <3>1. PICK new : new = [[page EXCEPT !.at = "continue"] EXCEPT !.pb = ThePlayback("boot")]
      OBVIOUS
    <3>2. /\ DOMAIN new = DOMAIN page /\ new.at = "continue" /\ new.pb = ThePlayback("boot")
          /\ new.behind = page.behind
      BY <1>a, <3>1 DEF Page
    <3> QED BY <1>a, <2>1, <3>1, <3>2, PlaybackFields
  <2>2. CASE Renders([[page EXCEPT !.at = "continue"] EXCEPT !.missed = Missed(page)])
    <3>1. PICK new : new = [[page EXCEPT !.at = "continue"] EXCEPT !.missed = Missed(page)]
      OBVIOUS
    <3>2. /\ DOMAIN new = DOMAIN page /\ new.at = "continue" /\ new.pb = page.pb
          /\ new.behind = page.behind
      BY <1>a, <3>1 DEF Page
    <3> QED BY <1>a, <2>2, <3>1, <3>2, CommitFields DEF Renders
  <2> QED BY <1>4, <2>1, <2>2 DEF BootPlayback
<1>5. ASSUME BootContinue
      PROVE  /\ page'.at = "open" /\ SameRecord
             /\ video' = Rendered(page, page', FALSE, TRUE)
             /\ \/ /\ Continued /\ page'.started = progress.pos
                   /\ put # Nil \/ progress.pos = Len => page'.anew
                \/ ~ Continued /\ (put # Nil \/ progress # Nil => page'.anew)
                \/ page'.anew
  <2>1. ASSUME NEW pos, NEW anew,
               Commit([page EXCEPT !.at = "open", !.started = pos, !.anew = anew], FALSE, TRUE)
        PROVE  /\ page'.at = "open" /\ SameRecord /\ page'.started = pos /\ page'.anew = anew
               /\ video' = Rendered(page, page', FALSE, TRUE)
    <3>1. PICK new : new = [page EXCEPT !.at = "open", !.started = pos, !.anew = anew]
      OBVIOUS
    <3>2. /\ DOMAIN new = DOMAIN page /\ new.at = "open" /\ new.pb = page.pb
          /\ new.behind = page.behind /\ new.started = pos /\ new.anew = anew
      BY <1>a, <3>1 DEF Page
    <3> QED BY <1>a, <2>1, <3>1, <3>2, CommitFields DEF SameRecord
  <2>2. \/ Continued /\ Commit([page EXCEPT !.at = "open", !.started = progress.pos,
                                            !.anew = (put # Nil \/ progress.pos = Len)], FALSE, TRUE)
        \/ ~ Continued /\ Commit([page EXCEPT !.at = "open", !.started = 0,
                                            !.anew = (put # Nil \/ progress # Nil)], FALSE, TRUE)
        \/ Commit([page EXCEPT !.at = "open", !.started = 0, !.anew = TRUE], FALSE, TRUE)
    BY <1>5 DEF BootContinue
  <2> QED BY <2>1, <2>2
<1> QED BY <1>1, <1>2, <1>3, <1>4, <1>5

LEMMA PollEffects ==
  ASSUME TypeInv
  PROVE  /\ PollSession => /\ SamePlace /\ SameRecord /\ page'.anew = page.anew
                           /\ video' = Rendered(page, page', FALSE, FALSE)
         /\ PollPlayback => /\ SameSession /\ page'.anew = page.anew
                            /\ page'.pb = asked.poll /\ page'.behind = Behind(asked.poll)
                            /\ video' = Rendered(page, page', TRUE, FALSE)
         /\ PollFails => /\ SameSession /\ SameRecord /\ page'.anew = page.anew
                         /\ video' = Rendered(page, page', FALSE, FALSE)
         /\ MetaAnswered => /\ SameSession /\ page'.anew = page.anew
                            /\ page'.pb = IF page.pb # Nil THEN Merged(page.pb, asked.meta) ELSE asked.meta
                            /\ page'.behind = Behind(asked.meta)
                            /\ video' = Rendered(page, page', TRUE, FALSE)
<1>a. page \in Page
  BY DEF TypeInv, TypeOK
<1> USE DEF SameSession, SamePlace, SameRecord
<1>1. ASSUME PollSession
      PROVE  /\ SamePlace /\ SameRecord /\ page'.anew = page.anew
             /\ video' = Rendered(page, page', FALSE, FALSE)
  <2>1. PICK b : \/ Renders([page EXCEPT !.sess = asked.poll])
                 \/ Renders([[page EXCEPT !.sess = asked.poll] EXCEPT !.missed = b])
    BY <1>1 DEF PollSession
  <2>2. PICK new : /\ Renders(new)
                   /\ \/ new = [page EXCEPT !.sess = asked.poll]
                      \/ new = [[page EXCEPT !.sess = asked.poll] EXCEPT !.missed = b]
    BY <2>1
  <2>3. /\ DOMAIN new = DOMAIN page /\ new.at = page.at /\ new.role = page.role
        /\ new.pb = page.pb /\ new.behind = page.behind
        /\ new.started = page.started /\ new.focus = page.focus /\ new.anew = page.anew
        /\ new.refocused = page.refocused
    BY <1>a, <2>2 DEF Page
  <2> QED BY <1>a, <2>2, <2>3, CommitFields DEF Renders
<1>2. ASSUME PollPlayback
      PROVE  /\ SameSession /\ page'.anew = page.anew
             /\ page'.pb = asked.poll /\ page'.behind = Behind(asked.poll)
             /\ video' = Rendered(page, page', TRUE, FALSE)
  <2>1. PICK new : new = [page EXCEPT !.pb = asked.poll, !.behind = Behind(asked.poll)]
    OBVIOUS
  <2>2. /\ DOMAIN new = DOMAIN page /\ new.at = page.at /\ new.role = page.role /\ new.sess = page.sess
        /\ new.pb = asked.poll /\ new.behind = Behind(asked.poll)
        /\ new.started = page.started /\ new.focus = page.focus /\ new.anew = page.anew
        /\ new.refocused = page.refocused
    BY <1>a, <2>1 DEF Page
  <2>3. SetsPlayback(new)
    BY <1>2, <2>1 DEF PollPlayback
  <2> QED BY <1>a, <2>2, <2>3, PlaybackFields
<1>3. ASSUME PollFails
      PROVE  /\ SameSession /\ SameRecord /\ page'.anew = page.anew
             /\ video' = Rendered(page, page', FALSE, FALSE)
  <2>1. PICK new : new = [page EXCEPT !.missed = @ \/ asked.poll \in Playback]
    OBVIOUS
  <2>2. /\ DOMAIN new = DOMAIN page /\ new.at = page.at /\ new.role = page.role /\ new.sess = page.sess
        /\ new.pb = page.pb /\ new.behind = page.behind
        /\ new.started = page.started /\ new.focus = page.focus /\ new.anew = page.anew
        /\ new.refocused = page.refocused
    BY <1>a, <2>1 DEF Page
  <2>3. Renders(new)
    BY <1>3, <2>1 DEF PollFails
  <2> QED BY <1>a, <2>2, <2>3, CommitFields DEF Renders
<1>4. ASSUME MetaAnswered
      PROVE  /\ SameSession /\ page'.anew = page.anew
             /\ page'.pb = IF page.pb # Nil THEN Merged(page.pb, asked.meta) ELSE asked.meta
             /\ page'.behind = Behind(asked.meta)
             /\ video' = Rendered(page, page', TRUE, FALSE)
  <2>1. PICK new :
          /\ SetsPlayback(new)
          /\ IF page.pb # Nil
             THEN new = [page EXCEPT !.pb = Merged(@, asked.meta), !.behind = Behind(asked.meta)]
             ELSE new = [page EXCEPT !.pb = asked.meta, !.behind = Behind(asked.meta), !.missed = TRUE]
    BY <1>4 DEF MetaAnswered
  <2>2. /\ DOMAIN new = DOMAIN page /\ new.at = page.at /\ new.role = page.role /\ new.sess = page.sess
        /\ new.pb = IF page.pb # Nil THEN Merged(page.pb, asked.meta) ELSE asked.meta
        /\ new.behind = Behind(asked.meta)
        /\ new.started = page.started /\ new.focus = page.focus /\ new.anew = page.anew
        /\ new.refocused = page.refocused
    BY <1>a, <2>1 DEF Page
  <2> QED BY <1>a, <2>1, <2>2, PlaybackFields
<1> QED BY <1>1, <1>2, <1>3, <1>4

LEMMA GivesUpEffects ==
  ASSUME TypeInv, MetaGivesUp
  PROVE  /\ SameSession /\ SameRecord /\ page'.anew = page.anew
         /\ page'.last = page.last /\ page'.missed = page.missed
         /\ UNCHANGED <<serverVars, video, stored, asked, act, put>>
<1>1. page \in Page
  BY DEF TypeInv, TypeOK
<1>2. page' = [page EXCEPT !.gaveUp = TRUE]
  BY DEF MetaGivesUp
<1> QED BY <1>1, <1>2 DEF MetaGivesUp, Page, SameSession, SamePlace, SameRecord

LEMMA ButtonEffects ==
  ASSUME TypeInv
  PROVE  /\ FocusMode => page'.at = page.at /\ SameRecord /\ page'.anew = page.anew /\ page'.refocused
         /\ Cancel => /\ SameSession /\ SameRecord /\ page'.anew = page.anew
                      /\ video' = Rendered(page, page', FALSE, FALSE)
         /\ Answered =>
              /\ page'.at = page.at /\ page'.behind = page.behind
              /\ \/ act.kind = "reset" /\ page'.pb = Nil /\ page'.anew
                                       /\ act' = [act EXCEPT !.step = "reload"]
                 \/ /\ act.kind = "save" /\ SameSession /\ page'.anew = page.anew /\ act' = Nil
                    /\ page'.pb = IF page.pb = Nil THEN Nil ELSE [page.pb EXCEPT !.manual = act.text]
                    /\ video' = Rendered(page, page', TRUE, FALSE)
         /\ Reloaded => /\ SamePlace /\ SameRecord
                        /\ page.anew => page'.anew
                        /\ VideoOn(page') /\ ~ VideoOn(page) => page'.anew
                        /\ video' = Rendered(page, page', FALSE, FALSE)
         /\ ActFails => /\ SameSession /\ page'.pb = page.pb /\ page'.anew = page.anew
                        /\ page.behind \/ (act.kind = "save" /\ act.step = "served") => page'.behind
                        /\ video' = Rendered(page, page', FALSE, FALSE)
<1>a. page \in Page
  BY DEF TypeInv, TypeOK
<1> USE DEF SameSession, SamePlace, SameRecord
<1>1. ASSUME FocusMode
      PROVE  page'.at = page.at /\ SameRecord /\ page'.anew = page.anew /\ page'.refocused
  <2>1. PICK new : new = [page EXCEPT !.focus = ~ @, !.refocused = TRUE]
    OBVIOUS
  <2>2. /\ DOMAIN new = DOMAIN page /\ new.at = page.at /\ new.refocused
        /\ new.anew = page.anew /\ new.pb = page.pb /\ new.behind = page.behind
    BY <1>a, <2>1 DEF Page
  <2>3. Renders(new)
    BY <1>1, <2>1 DEF FocusMode
  <2> QED BY <1>a, <2>2, <2>3, CommitFields DEF Renders
<1>2. ASSUME Cancel
      PROVE  /\ SameSession /\ SameRecord /\ page'.anew = page.anew
             /\ video' = Rendered(page, page', FALSE, FALSE)
  <2>1. PICK new : new = [page EXCEPT !.editing = FALSE]
    OBVIOUS
  <2>2. /\ DOMAIN new = DOMAIN page /\ new.at = page.at /\ new.role = page.role /\ new.sess = page.sess
        /\ new.pb = page.pb /\ new.behind = page.behind
        /\ new.started = page.started /\ new.focus = page.focus /\ new.anew = page.anew
        /\ new.refocused = page.refocused
    BY <1>a, <2>1 DEF Page
  <2>3. Renders(new)
    BY <1>2, <2>1 DEF Cancel
  <2> QED BY <1>a, <2>2, <2>3, CommitFields DEF Renders
<1>3. ASSUME Answered
      PROVE  /\ page'.at = page.at /\ page'.behind = page.behind
             /\ \/ act.kind = "reset" /\ page'.pb = Nil /\ page'.anew
                                      /\ act' = [act EXCEPT !.step = "reload"]
                \/ /\ act.kind = "save" /\ SameSession /\ page'.anew = page.anew /\ act' = Nil
                   /\ page'.pb = IF page.pb = Nil THEN Nil ELSE [page.pb EXCEPT !.manual = act.text]
                   /\ video' = Rendered(page, page', TRUE, FALSE)
  <2>1. CASE /\ act.kind = "reset" /\ SetsPlayback([page EXCEPT !.pb = Nil, !.anew = TRUE])
             /\ act' = [act EXCEPT !.step = "reload"]
    <3>1. PICK new : new = [page EXCEPT !.pb = Nil, !.anew = TRUE]
      OBVIOUS
    <3>2. /\ DOMAIN new = DOMAIN page /\ new.at = page.at /\ new.anew
          /\ new.pb = Nil /\ new.behind = page.behind
      BY <1>a, <3>1 DEF Page
    <3> QED BY <1>a, <2>1, <3>1, <3>2, PlaybackFields
  <2>2. CASE act.kind = "save" /\ SetsPlayback(Saved(page)) /\ act' = Nil
    <3>1. PICK pb : pb = IF page.pb = Nil THEN Nil ELSE [page.pb EXCEPT !.manual = act.text]
      OBVIOUS
    <3>2. PICK new : new = [page EXCEPT !.editing = FALSE, !.pb = pb]
      OBVIOUS
    <3>3. Saved(page) = new
      BY <3>1, <3>2, <1>a DEF Saved, Page
    <3>4. /\ DOMAIN new = DOMAIN page /\ new.at = page.at /\ new.role = page.role /\ new.sess = page.sess
          /\ new.pb = pb /\ new.behind = page.behind
          /\ new.started = page.started /\ new.focus = page.focus /\ new.anew = page.anew
          /\ new.refocused = page.refocused
      BY <1>a, <3>2 DEF Page
    <3>5. SetsPlayback(new)
      BY <2>2, <3>3
    <3>6. /\ SameSession /\ page'.pb = pb /\ page'.behind = page.behind /\ page'.anew = page.anew
          /\ video' = Rendered(page, page', TRUE, FALSE)
      BY <1>a, <3>4, <3>5, PlaybackFields
    <3> QED BY <2>2, <3>1, <3>6
  <2> QED BY <1>3, <2>1, <2>2 DEF Answered
<1>4. ASSUME Reloaded
      PROVE  /\ SamePlace /\ SameRecord
             /\ page.anew => page'.anew
             /\ VideoOn(page') /\ ~ VideoOn(page) => page'.anew
             /\ video' = Rendered(page, page', FALSE, FALSE)
  <2>1. PICK m : m = (page.missed \/ (page.pb = Nil /\ rec.status = "READY"))
    OBVIOUS
  <2>2. PICK old : old = [page EXCEPT !.sess = TheSession, !.missed = m]
    OBVIOUS
  <2>3. PICK new : new = [old EXCEPT !.anew = @ \/ (VideoOn(old) /\ ~ VideoOn(page))]
    OBVIOUS
  <2>4. /\ DOMAIN new = DOMAIN page /\ new.at = page.at /\ new.role = page.role
        /\ new.pb = page.pb /\ new.behind = page.behind
        /\ new.started = page.started /\ new.focus = page.focus
        /\ new.anew = (page.anew \/ (VideoOn(old) /\ ~ VideoOn(page))) /\ new.refocused = page.refocused
        /\ new.sess = old.sess /\ old.at = page.at /\ old.role = page.role /\ old.pb = page.pb
        /\ old.focus = page.focus
    BY <1>a, <2>2, <2>3 DEF Page
  <2>5. Renders(new)
    BY <1>4, <2>1, <2>2, <2>3 DEF Reloaded
  <2>6. /\ SamePlace /\ SameRecord /\ page'.sess = new.sess
        /\ page'.anew = new.anew /\ video' = Rendered(page, page', FALSE, FALSE)
    BY <1>a, <2>4, <2>5, CommitFields DEF Renders
  <2>7. VideoOn(page') = VideoOn(old)
    BY <2>4, <2>6, SamePlayer
  <2> QED BY <2>4, <2>6, <2>7
<1>5. ASSUME ActFails
      PROVE  /\ SameSession /\ page'.pb = page.pb /\ page'.anew = page.anew
             /\ page.behind \/ (act.kind = "save" /\ act.step = "served") => page'.behind
             /\ video' = Rendered(page, page', FALSE, FALSE)
  <2>1. PICK new : new = [page EXCEPT !.behind = @ \/ (act.kind = "save" /\ act.step = "served"),
                                      !.missed = @ \/ Missed(page)]
    OBVIOUS
  <2>2. /\ DOMAIN new = DOMAIN page /\ new.at = page.at /\ new.role = page.role /\ new.sess = page.sess
        /\ new.pb = page.pb
        /\ new.behind = (page.behind \/ (act.kind = "save" /\ act.step = "served"))
        /\ new.started = page.started /\ new.focus = page.focus /\ new.anew = page.anew
        /\ new.refocused = page.refocused
    BY <1>a, <2>1 DEF Page
  <2>3. Renders(new)
    BY <1>5, <2>1 DEF ActFails
  <2> QED BY <1>a, <2>2, <2>3, CommitFields DEF Renders
<1> QED BY <1>1, <1>2, <1>3, <1>4, <1>5

-----------------------------------------------------------------------------
(* What is on its way to the pollers.                                       *)

Quiet(a) == a = Nil \/ (a \in Snapshot /\ a.rec # "READY")

\* A page that holds a playback does not wait for another: what is still on its
\* way to the first poller is of a recording that was not READY.  An answer to
\* the second one finds no playback only after a reset, before the next take.
PollInv ==
  /\ ~ Loaded(page) => asked.poll = Nil /\ asked.meta = Nil
  /\ page.pb # Nil => Quiet(asked.poll)
  /\ asked.meta # Nil /\ page.pb = Nil => rec.take = 0 /\ Quiet(asked.poll)
  /\ act # Nil => (act.kind = "reset" /\ act.step = "served" => rec.take = 0)
  /\ rec.take = 0 => rec.status = None

LEMMA BootKeepsPollInv ==
  ASSUME TypeInv, PollInv, Open \/ Leave \/ Boots
  PROVE  PollInv'
<1>a. asked \in [poll : Snapshot \cup Playback \cup {Nil}, meta : Playback \cup {Nil}]
  BY DEF TypeInv, TypeOK
<1> USE DEF PollInv, Loaded, Quiet, serverVars
<1>1. CASE Open
  BY <1>1, BootEffects DEF Open
<1>2. CASE Leave
  BY <1>2, BootEffects DEF Leave
<1>3. CASE Boot
  BY <1>3, BootEffects DEF Boot
<1>4. CASE BootPlayback
  BY <1>4, BootEffects DEF BootPlayback
<1>5. CASE BootContinue
  BY <1>5, BootEffects DEF BootContinue
<1> QED BY <1>1, <1>2, <1>3, <1>4, <1>5 DEF Boots

LEMMA PollersKeepPollInv ==
  ASSUME TypeInv, PollInv, Pollers
  PROVE  PollInv'
<1>a. asked \in [poll : Snapshot \cup Playback \cup {Nil}, meta : Playback \cup {Nil}]
  BY DEF TypeInv, TypeOK
<1>b. TypeOK
  BY DEF TypeInv
<1> USE DEF PollInv, Loaded, Quiet, serverVars, SamePlace, SameSession, SameRecord
<1>1. CASE PollAsks
  <2>1. asked'.poll = TheSession /\ asked'.meta = asked.meta
    BY <1>1, <1>a DEF PollAsks
  <2>2. rec.take = 0 => Quiet(TheSession)
    BY <1>b, Answer DEF None
  <2> QED BY <1>1, <2>1, <2>2 DEF PollAsks, AwaitsVideo
<1>2. CASE PollSession
  <2>1. page.pb # Nil => asked.poll.rec # "READY"
    BY <1>2, NilIsNone DEF PollSession
  <2>2. asked'.meta = asked.meta /\ (asked'.poll = Nil \/ asked.poll.rec = "READY")
    BY <1>2, <1>a DEF PollSession
  <2>3. asked.meta # Nil /\ page.pb = Nil => asked.poll.rec # "READY"
    BY <1>2, NilIsNone DEF PollSession
  <2>4. Loaded(page)
    BY <1>2, NilIsNone DEF PollSession
  <2> QED BY <1>2, <2>1, <2>2, <2>3, <2>4, PollEffects DEF PollSession
<1>3. CASE PollPlayback
  <2>1. asked'.poll = Nil /\ asked'.meta = asked.meta
    BY <1>3, <1>a DEF PollPlayback
  <2> QED BY <1>3, <2>1, PollEffects, NilIsNone DEF PollPlayback
<1>4. CASE PollFails
  <2>1. asked'.poll = Nil /\ asked'.meta = asked.meta
    BY <1>4, <1>a DEF PollFails
  <2> QED BY <1>4, <2>1, PollEffects DEF PollFails
<1>5. CASE MetaAsks
  <2>1. asked'.poll = asked.poll
    BY <1>5, <1>a DEF MetaAsks
  <2> QED BY <1>5, <2>1 DEF MetaAsks, AwaitsTexts
<1>6. CASE MetaAnswered
  <2>1. asked'.meta = Nil /\ asked'.poll = asked.poll
    BY <1>6, <1>a DEF MetaAnswered
  <2>2. Quiet(asked.poll) /\ Loaded(page)
    BY <1>6 DEF MetaAnswered
  <2> QED BY <1>6, <2>1, <2>2, PollEffects DEF MetaAnswered
<1>7. CASE MetaFails
  <2>1. asked'.meta = Nil /\ asked'.poll = asked.poll
    BY <1>7, <1>a DEF MetaFails
  <2> QED BY <1>7, <2>1 DEF MetaFails
<1>8. CASE MetaGivesUp
  BY <1>8, GivesUpEffects DEF MetaGivesUp
<1> QED BY <1>1, <1>2, <1>3, <1>4, <1>5, <1>6, <1>7, <1>8 DEF Pollers

LEMMA PlayKeepsPollInv ==
  ASSUME TypeInv, PollInv, Plays \/ PutProgress
  PROVE  PollInv'
<1>a. page \in Page
  BY DEF TypeInv, TypeOK
<1>b. UNCHANGED <<asked, rec, act>>
  BY DEF Plays, PutProgress, MetadataLoads, Play, SeekTo, Ended, FocusMode, At, serverVars, pageVars
<1>c. page'.at = page.at /\ page'.pb = page.pb
  <2>1. CASE MetadataLoads
    BY <1>a, <2>1 DEF MetadataLoads, At, Page
  <2>2. CASE Play
    BY <1>a, <2>2 DEF Play, At, Page
  <2>3. CASE Ended
    BY <1>a, <2>3 DEF Ended, Page
  <2>4. CASE FocusMode
    BY <2>4, ButtonEffects DEF SameRecord
  <2>5. CASE \E pos \in 0..Len : SeekTo(pos)
    BY <1>a, <2>5 DEF SeekTo, At, Page
  <2>6. CASE PutProgress
    BY <2>6 DEF PutProgress, pageVars
  <2> QED BY <2>1, <2>2, <2>3, <2>4, <2>5, <2>6 DEF Plays
<1> QED BY <1>b, <1>c DEF PollInv, Loaded

LEMMA ButtonsKeepPollInv ==
  ASSUME TypeInv, PollInv, Buttons
  PROVE  PollInv'
<1>a. page \in Page /\ rec \in Recording /\ act \in {Nil} \cup Act
  BY DEF TypeInv, TypeOK, Act
<1> USE DEF PollInv, Loaded, Quiet, serverVars, SamePlace, SameSession, SameRecord
<1>1. CASE Retry \/ Reset \/ SaveSummary
  BY <1>1 DEF Retry, Reset, SaveSummary, Press
<1>2. CASE Edit \/ Type
  BY <1>2, <1>a DEF Edit, Type, Page
<1>3. CASE Cancel
  BY <1>3, ButtonEffects DEF Cancel
<1>4. CASE Serve
  <2>1. CASE act' = Nil /\ UNCHANGED rec
    BY <1>4, <2>1 DEF Serve
  <2>2. CASE Found /\ act.kind = "reset" /\ rec' = NoRow
    BY <1>4, <2>2 DEF Serve, NoRow
  <2>3. CASE Found /\ act.kind \in {"retry", "save"} /\ rec' \in {RetryRow, [rec EXCEPT !.manual = act.text]}
    <3>1. act.take # 0 /\ rec.take = act.take
      BY <1>4, <1>a, <2>3 DEF Serve, Found, Act
    <3>2. rec'.take = rec.take
      BY <1>a, <2>3 DEF RetryRow, Recording
    <3>3. act'.kind = act.kind
      BY <1>4, <1>a, <2>3, <3>1 DEF Serve, Act, Found
    <3> QED BY <1>4, <2>3, <3>1, <3>2, <3>3 DEF Serve
  <2> QED BY <1>4, <1>a, <2>1, <2>2, <2>3 DEF Serve, Act
<1>5. CASE Answered
  <2>1. act \in Act /\ act.step = "served"
    BY <1>5, <1>a DEF Answered
  <2>2. CASE act.kind = "reset" /\ page'.pb = Nil /\ act' = [act EXCEPT !.step = "reload"]
    <3>1. rec.take = 0 /\ act'.step = "reload"
      BY <1>5, <2>1, <2>2 DEF Answered, Act
    <3> QED BY <1>5, <2>2, <3>1, ButtonEffects DEF Answered
  <2>3. CASE act' = Nil /\ (page'.pb = Nil <=> page.pb = Nil)
    BY <1>5, <2>3, ButtonEffects DEF Answered
  <2>4. page.pb # Nil => [page.pb EXCEPT !.manual = act.text] # Nil
    <3>1. page.pb # Nil => [page.pb EXCEPT !.manual = act.text] \in Playback
      BY <1>a, <2>1 DEF Page, Playback, Act
    <3> QED BY <3>1, NilIsNone
  <2> QED BY <1>5, <2>2, <2>3, <2>4, ButtonEffects
<1>6. CASE Reloaded
  BY <1>6, ButtonEffects DEF Reloaded
<1>7. CASE ActFails
  BY <1>7, ButtonEffects DEF ActFails
<1> QED BY <1>1, <1>2, <1>3, <1>4, <1>5, <1>6, <1>7 DEF Buttons

LEMMA OutsideKeepsPollInv ==
  ASSUME TypeInv, PollInv, EnterCode \/ Outside
  PROVE  PollInv'
<1>a. rec \in Recording /\ used.takes \in Nat
  BY Bounds DEF TypeInv, TypeOK
<1> USE DEF PollInv, Loaded, Quiet, World, pageVars
<1>1. CASE EnterCode
  BY <1>1 DEF EnterCode, NewPage, ClosedPage, serverVars
<1>2. CASE StartRecording
  <2>1. rec'.take # 0
    BY <1>2, <1>a DEF StartRecording, NoRow
  <2>2. asked.meta = Nil /\ (act # Nil => act.kind # "reset")
    BY <1>2 DEF StartRecording, Unhurried
  <2> QED BY <1>2, <2>1, <2>2 DEF StartRecording
<1>3. CASE SetCode \/ WatchOthers
  BY <1>3 DEF SetCode, WatchOthers
<1>4. CASE StopRecording \/ Transcoded \/ PipelineFails
  <2>1. rec.take # 0 /\ rec'.take = rec.take
    BY <1>4, <1>a DEF StopRecording, Transcoded, PipelineFails, Recording, None
  <2> QED BY <1>4, <2>1 DEF StopRecording, Transcoded, PipelineFails
<1>5. CASE Transcribed \/ Summarized
  <2>1. rec'.take = rec.take /\ rec'.status = rec.status
    BY <1>5, <1>a DEF Transcribed, Summarized, Recording
  <2> QED BY <1>5, <2>1 DEF Transcribed, Summarized
<1> QED BY <1>1, <1>2, <1>3, <1>4, <1>5 DEF Outside

LEMMA PollInvInductive ==
  /\ Init => PollInv
  /\ TypeInv /\ PollInv /\ [Next]_vars => PollInv'
<1>1. ASSUME Init PROVE PollInv
  BY <1>1 DEF Init, PollInv, Quiet, ClosedPage, NoRow
<1>2. ASSUME TypeInv, PollInv, [Next]_vars PROVE PollInv'
  <2>1. CASE Next
    BY <1>2, <2>1, BootKeepsPollInv, PollersKeepPollInv, PlayKeepsPollInv, ButtonsKeepPollInv,
       OutsideKeepsPollInv DEF Next
  <2>2. CASE UNCHANGED vars
    BY <1>2, <2>2 DEF PollInv, Loaded, vars, serverVars, pageVars
  <2> QED BY <1>2, <2>1, <2>2
<1> QED BY <1>1, <1>2

\* No step gives a player that stays another recording or another url.
LEMMA SourceKept ==
  ASSUME TypeInv, PollInv, Next, VideoOn(page), VideoOn(page'), page.focus = page'.focus
  PROVE  Source(page) = Source(page')
<1>a. page \in Page /\ page.pb \in Playback /\ Loaded(page) /\ Loaded(page') /\ page'.pb # Nil
  BY DEF TypeInv, TypeOK, VideoOn, Shown, Page
<1>b. asked \in [poll : Snapshot \cup Playback \cup {Nil}, meta : Playback \cup {Nil}] /\ act \in {Nil} \cup Act
  BY DEF TypeInv, TypeOK, Act
<1>c. page'.pb = page.pb => Source(page) = Source(page')
  BY DEF Source
<1> USE DEF Loaded, SameSession, SamePlace, SameRecord
<1>1. CASE Open \/ Leave \/ Boots \/ EnterCode
  BY <1>1, <1>a, BootEffects DEF Open, Boots, Boot, BootPlayback, BootContinue, EnterCode, NewPage, ClosedPage
<1>2. CASE Pollers
  <2>1. CASE PollAsks \/ MetaAsks \/ MetaFails
    BY <2>1 DEF PollAsks, MetaAsks, MetaFails, Source
  <2>2. CASE PollSession \/ PollFails
    BY <2>2, PollEffects DEF Source
  <2>3. ~ PollPlayback
    BY <1>a, AnswersDiffer, NilIsNone DEF PollPlayback, PollInv, Quiet
  <2>4. CASE MetaAnswered
    <3>1. page'.pb = Merged(page.pb, asked.meta)
      BY <2>4, <1>a, NilIsNone, PollEffects
    <3> QED BY <1>a, <3>1 DEF Merged, Source, Playback
  <2>5. CASE MetaGivesUp
    BY <2>5, GivesUpEffects DEF Source
  <2> QED BY <1>2, <2>1, <2>2, <2>3, <2>4, <2>5 DEF Pollers
<1>3. CASE Plays
  <2>1. CASE MetadataLoads \/ Play \/ Ended \/ \E pos \in 0..Len : SeekTo(pos)
    <3>1. page'.pb = page.pb
      BY <1>a, <2>1 DEF MetadataLoads, Play, Ended, SeekTo, At, Page
    <3> QED BY <1>c, <3>1
  <2>2. CASE FocusMode
    BY <2>2, ButtonEffects DEF Source
  <2> QED BY <1>3, <2>1, <2>2 DEF Plays
<1>4. CASE PutProgress
  BY <1>4 DEF PutProgress, pageVars, Source
<1>5. CASE Buttons
  <2>1. CASE Retry \/ Reset \/ SaveSummary \/ Serve
    BY <2>1 DEF Retry, Reset, SaveSummary, Serve, Source
  <2>2. CASE Edit \/ Type
    <3>1. page'.pb = page.pb
      BY <1>a, <2>2 DEF Edit, Type, Page
    <3> QED BY <1>c, <3>1
  <2>3. CASE Cancel \/ Reloaded \/ ActFails
    BY <2>3, ButtonEffects DEF Source
  <2>4. CASE Answered
    <3>1. act \in Act /\ page'.pb = [page.pb EXCEPT !.manual = act.text]
      BY <2>4, <1>a, <1>b, ButtonEffects DEF Answered
    <3> QED BY <1>a, <3>1 DEF Source, Playback
  <2> QED BY <1>5, <2>1, <2>2, <2>3, <2>4 DEF Buttons
<1>6. CASE Outside
  BY <1>6 DEF Outside, World, pageVars, SetCode, WatchOthers, StartRecording, StopRecording,
              Transcoded, Transcribed, Summarized, PipelineFails, Source
<1> QED BY <1>1, <1>2, <1>3, <1>4, <1>5, <1>6 DEF Next

\* A player that stays on the page keeps its url: no poll, answer, save, retry
\* or reset reloads it under the viewer.
THEOREM VideoStaysAlways == Spec => VideoStays
<1>1. TypeInv /\ PollInv /\ [Next]_vars
        => [VideoOn(page) /\ VideoOn(page') /\ page.focus = page'.focus
              => Source(page) = Source(page')]_vars
  BY SourceKept
<1> QED BY <1>1, TypeInvInductive, PollInvInductive, PTL DEF Spec, VideoStays

-----------------------------------------------------------------------------
(* The position.                                                            *)

\* An answer no poller waits for any more, and a page whose bootstrap failed,
\* leave the viewer without the offer of the saved position.
AnewInv ==
  /\ asked.meta # Nil /\ page.pb = Nil => page.anew
  /\ asked.poll # Nil /\ page.pb # Nil => page.anew
  /\ page.at = "failed" => page.anew

LEMMA AnewInvInductive ==
  /\ Init => AnewInv
  /\ TypeInv /\ PollInv /\ AnewInv /\ [Next]_vars => AnewInv'
<1>1. ASSUME Init PROVE AnewInv
  BY <1>1 DEF Init, AnewInv, ClosedPage
<1>2. ASSUME TypeInv, PollInv, AnewInv, [Next]_vars PROVE AnewInv'
  <2>a. /\ asked \in [poll : Snapshot \cup Playback \cup {Nil}, meta : Playback \cup {Nil}]
        /\ page \in Page /\ act \in {Nil} \cup Act
    BY <1>2 DEF TypeInv, TypeOK, Act
  <2> USE <1>2 DEF AnewInv, SameSession, SamePlace, SameRecord
  <2>1. CASE Open \/ Leave \/ Boots \/ EnterCode
    <3>1. Open \/ Leave \/ EnterCode => page'.at # "failed" /\ page'.pb = Nil
      BY BootEffects DEF EnterCode, NewPage, ClosedPage
    <3>2. Boots => (page'.at = "failed" => page'.anew)
      BY BootEffects DEF Boots
    <3>3. asked' = [poll |-> Nil, meta |-> Nil] \/ (asked' = asked /\ ~ Loaded(page))
      BY <2>1 DEF Open, Leave, Boots, Boot, BootPlayback, BootContinue, EnterCode, Loaded
    <3>4. asked'.poll = Nil /\ asked'.meta = Nil
      BY <3>3 DEF PollInv
    <3> QED BY <2>1, <3>1, <3>2, <3>4
  <2>2. CASE Pollers
    <3>1. CASE PollAsks
      <4>1. page.pb = Nil /\ asked'.meta = asked.meta /\ UNCHANGED page
        BY <3>1, <2>a DEF PollAsks, AwaitsVideo
      <4> QED BY <4>1
    <3>2. CASE PollSession
      <4>1. asked.poll # Nil /\ asked'.meta = asked.meta
        BY <3>2, <2>a, NilIsNone DEF PollSession
      <4> QED BY <3>2, <4>1, PollEffects
    <3>3. CASE PollPlayback
      <4>1. asked.poll # Nil /\ asked'.meta = asked.meta /\ asked'.poll = Nil /\ page'.pb # Nil
        BY <3>3, <2>a, NilIsNone, PollEffects DEF PollPlayback
      <4> QED BY <3>3, <4>1, PollEffects
    <3>4. CASE PollFails
      <4>1. asked'.meta = asked.meta /\ asked'.poll = Nil
        BY <3>4, <2>a DEF PollFails
      <4> QED BY <3>4, <4>1, PollEffects
    <3>5. CASE MetaAsks
      <4>1. page.pb # Nil /\ asked'.poll = asked.poll /\ UNCHANGED page
        BY <3>5, <2>a DEF MetaAsks, AwaitsTexts
      <4> QED BY <4>1
    <3>6. CASE MetaAnswered
      <4>1. asked.meta # Nil /\ asked'.meta = Nil /\ asked'.poll = asked.poll
        BY <3>6, <2>a DEF MetaAnswered
      <4> QED BY <3>6, <4>1, PollEffects
    <3>7. CASE MetaFails
      <4>1. asked'.meta = Nil /\ asked'.poll = asked.poll /\ UNCHANGED page
        BY <3>7, <2>a DEF MetaFails
      <4> QED BY <4>1
    <3>8. CASE MetaGivesUp
      BY <3>8, GivesUpEffects
    <3> QED BY <2>2, <3>1, <3>2, <3>3, <3>4, <3>5, <3>6, <3>7, <3>8 DEF Pollers
  <2>3. CASE Plays
    <3>1. CASE MetadataLoads \/ Play \/ Ended \/ \E pos \in 0..Len : SeekTo(pos)
      <4>1. page'.at = page.at /\ page'.pb = page.pb /\ (page.anew => page'.anew) /\ UNCHANGED asked
        BY <2>a, <3>1 DEF MetadataLoads, Play, Ended, SeekTo, At, Page
      <4> QED BY <4>1
    <3>2. CASE FocusMode
      BY <3>2, ButtonEffects DEF FocusMode
    <3> QED BY <2>3, <3>1, <3>2 DEF Plays
  <2>4. CASE PutProgress
    BY <2>4 DEF PutProgress, pageVars
  <2>5. CASE Buttons
    <3>1. CASE Retry \/ Reset \/ SaveSummary \/ Serve
      BY <3>1 DEF Retry, Reset, SaveSummary, Serve
    <3>2. CASE Edit \/ Type
      <4>1. page'.at = page.at /\ page'.pb = page.pb /\ page'.anew = page.anew /\ UNCHANGED asked
        BY <2>a, <3>2 DEF Edit, Type, Page
      <4> QED BY <4>1
    <3>3. CASE Cancel \/ Reloaded \/ ActFails
      BY <3>3, ButtonEffects DEF Cancel, Reloaded, ActFails
    <3>4. CASE Answered
      <4>1. UNCHANGED asked /\ act \in Act
        BY <2>a, <3>4 DEF Answered
      <4>2. page.pb # Nil => [page.pb EXCEPT !.manual = act.text] # Nil
        <5>1. page.pb # Nil => [page.pb EXCEPT !.manual = act.text] \in Playback
          BY <2>a, <4>1 DEF Page, Playback, Act
        <5> QED BY <5>1, NilIsNone
      <4> QED BY <3>4, <4>1, <4>2, ButtonEffects
    <3> QED BY <2>5, <3>1, <3>2, <3>3, <3>4 DEF Buttons
  <2>6. CASE Outside
    BY <2>6 DEF Outside, World, pageVars, SetCode, WatchOthers, StartRecording, StopRecording,
                Transcoded, Transcribed, Summarized, PipelineFails
  <2>7. CASE UNCHANGED vars
    BY <2>7 DEF vars, pageVars
  <2> QED BY <1>2, <2>1, <2>2, <2>3, <2>4, <2>5, <2>6, <2>7 DEF Next
<1> QED BY <1>1, <1>2

\* A player that stays goes on where it is; one that appears is at the beginning.
LEMMA PlayerStays ==
  ASSUME video \in Player, NEW ps \in BOOLEAN, NEW ss \in BOOLEAN,
         video' = Rendered(page, page', ps, ss),
         VideoOn(page), VideoOn(page'), page'.focus = page.focus, Source(page) = Source(page')
  PROVE  /\ video'.loaded <=> video.loaded
         /\ video'.pos = video.pos
         /\ video'.seeks <=> IF ps \/ ss THEN page'.started # 0 ELSE video.seeks
BY DEF Rendered, Player

LEMMA PlayerAppears ==
  ASSUME NEW ps \in BOOLEAN, NEW ss \in BOOLEAN,
         video' = Rendered(page, page', ps, ss), ~ VideoOn(page), VideoOn(page')
  PROVE  /\ ~ video'.loaded /\ video'.pos = 0
         /\ ps \/ ss => (video'.seeks <=> page'.started # 0)
BY DEF Rendered

Offered == put = Nil /\ (progress # Nil => progress.pos = page.started /\ page.started < Len)
Resumes == page.at = "open" /\ ~ page.anew /\ ~ page.refocused

\* What a viewer who resumes has saved is behind the player: until it has its
\* metadata nothing is saved, and it will seek the saved position.
PositionInv ==
  /\ put # Nil /\ ~ put.anew /\ ~ put.refocused /\ progress # Nil => progress.pos <= put.pos
  /\ Resumes /\ page.pb = Nil => Offered
  /\ Resumes /\ VideoOn(page) /\ ~ video.loaded =>
       Offered /\ video.pos = 0 /\ (progress # Nil /\ page.started # 0 => video.seeks)
  /\ Resumes /\ VideoOn(page) /\ video.loaded =>
       /\ progress # Nil => progress.pos <= video.pos
       /\ put # Nil => put.pos <= video.pos

\* What sets states and leaves the playback, or brings the one waited for.
LEMMA PositionKept ==
  ASSUME TypeInv, PositionInv, UNCHANGED <<stored, progress, put>>,
         NEW ps \in BOOLEAN, video' = Rendered(page, page', ps, FALSE),
         SamePlace, page.anew => page'.anew,
         page.pb = Nil /\ page'.pb # Nil => ps \/ page'.anew,
         page.pb # Nil => page'.pb # Nil,
         VideoOn(page) /\ VideoOn(page') => Source(page) = Source(page'),
         page.pb # Nil /\ ~ VideoOn(page) /\ VideoOn(page') => page'.anew
  PROVE  PositionInv'
<1>a. /\ video \in Player /\ VideoOn(page)' = VideoOn(page')
      /\ VideoOn(page) => page.pb # Nil
      /\ VideoOn(page') => page'.pb # Nil
  BY SameStored DEF TypeInv, TypeOK, VideoOn
<1>b. Offered' <=> Offered
  BY DEF Offered, SamePlace
<1>1. put' # Nil /\ ~ put'.anew /\ ~ put'.refocused /\ progress' # Nil => progress'.pos <= put'.pos
  BY DEF PositionInv
<1>2. Resumes' => Resumes
  BY DEF Resumes, SamePlace
<1>3. Resumes' /\ page'.pb = Nil => Offered'
  BY <1>b, <1>2 DEF PositionInv
<1>4. ASSUME Resumes', VideoOn(page')
      PROVE  /\ ~ video'.loaded =>
                  Offered' /\ video'.pos = 0 /\ (progress' # Nil /\ page'.started # 0 => video'.seeks)
             /\ video'.loaded => /\ progress' # Nil => progress'.pos <= video'.pos
                                 /\ put' # Nil => put'.pos <= video'.pos
  <2>1. CASE VideoOn(page)
    <3>1. /\ video'.loaded <=> video.loaded
          /\ video'.pos = video.pos
          /\ video'.seeks <=> IF ps THEN page'.started # 0 ELSE video.seeks
      BY <1>a, <1>4, <2>1, PlayerStays DEF SamePlace
    <3> QED BY <1>b, <1>2, <1>4, <2>1, <3>1 DEF PositionInv, SamePlace
  <2>2. CASE ~ VideoOn(page)
    <3>1. page.pb = Nil /\ ps
      BY <1>a, <1>4, <2>2 DEF Resumes
    <3>2. ~ video'.loaded /\ video'.pos = 0 /\ (video'.seeks <=> page'.started # 0)
      BY <1>4, <2>2, <3>1, PlayerAppears
    <3> QED BY <1>b, <1>2, <1>4, <3>1, <3>2 DEF PositionInv
  <2> QED BY <2>1, <2>2
<1> QED BY <1>a, <1>1, <1>3, <1>4 DEF PositionInv

\* Leaving, or a bootstrap, is no resumed player; only its last step makes one.
LEMMA BootKeepsPosition ==
  ASSUME TypeInv, PollInv, AnewInv, PositionInv, Open \/ Leave \/ Boots \/ EnterCode
  PROVE  PositionInv'
<1>a. UNCHANGED <<progress, put>>
  BY DEF Open, Leave, Boots, Boot, BootPlayback, BootContinue, EnterCode, serverVars
<1>1. CASE ~ BootContinue
  <2>1. page'.at # "open"
    BY <1>1, BootEffects DEF Boots, EnterCode, NewPage, ClosedPage
  <2> QED BY <1>a, <2>1 DEF PositionInv, Resumes
<1>2. CASE BootContinue
  <2>0. /\ stored' = stored /\ ~ VideoOn(page) /\ page'.at = "open"
        /\ video' = Rendered(page, page', FALSE, TRUE)
    BY <1>2, BootEffects DEF BootContinue, VideoOn, Shown, Loaded
  <2>1. ASSUME ~ page'.anew PROVE Offered'
    <3>1. \/ Continued /\ page'.started = progress.pos /\ put = Nil /\ progress.pos # Len
          \/ put = Nil /\ progress = Nil
      BY <1>2, <2>1, BootEffects
    <3>2. progress # Nil => progress.pos \in 0..Len
      BY DEF TypeInv, TypeOK
    <3> QED BY <1>a, <3>1, <3>2, Bounds DEF Offered, Continued
  <2>2. VideoOn(page') => ~ video'.loaded /\ video'.pos = 0 /\ (video'.seeks <=> page'.started # 0)
    BY <2>0, PlayerAppears
  <2> QED BY <1>a, <2>0, <2>1, <2>2, SameStored DEF PositionInv, Resumes
<1> QED BY <1>1, <1>2

LEMMA PollersKeepPosition ==
  ASSUME TypeInv, PollInv, AnewInv, PositionInv, Pollers
  PROVE  PositionInv'
<1>a. /\ asked \in [poll : Snapshot \cup Playback \cup {Nil}, meta : Playback \cup {Nil}]
      /\ page \in Page
  BY DEF TypeInv, TypeOK
<1>b. VideoOn(page) /\ VideoOn(page') /\ page'.focus = page.focus => Source(page) = Source(page')
  BY SourceKept DEF Next
<1>1. CASE PollAsks \/ MetaAsks \/ MetaFails
  BY <1>1 DEF PollAsks, MetaAsks, MetaFails, PositionInv, Resumes, Offered, VideoOn, Shown, Loaded,
              Gated, LiveTakeover, serverVars
<1>2. CASE PollSession
  <2>1. page.pb # Nil => page'.anew
    BY <1>2, NilIsNone, PollEffects DEF PollSession, AnewInv
  <2>2. UNCHANGED <<stored, progress, put>>
    BY <1>2 DEF PollSession, serverVars
  <2> QED BY <1>2, <1>b, <2>1, <2>2, PollEffects, PositionKept DEF SamePlace, SameRecord
<1>3. CASE PollPlayback
  <2>1. page.pb = Nil
    BY <1>3, NilIsNone, AnswersDiffer DEF PollPlayback, PollInv, Quiet
  <2>2. UNCHANGED <<stored, progress, put>>
    BY <1>3 DEF PollPlayback, serverVars
  <2> QED BY <1>3, <1>b, <2>1, <2>2, PollEffects, PositionKept DEF SameSession, SamePlace
<1>4. CASE PollFails
  <2>1. VideoOn(page') = VideoOn(page)
    BY <1>4, PollEffects, SamePlayer DEF SameSession, SamePlace, SameRecord
  <2>2. UNCHANGED <<stored, progress, put>>
    BY <1>4 DEF PollFails, serverVars
  <2> QED BY <1>4, <1>b, <2>1, <2>2, PollEffects, PositionKept DEF SameSession, SamePlace, SameRecord
<1>5. CASE MetaAnswered
  <2>1. asked.meta \in Playback
    BY <1>5, <1>a DEF MetaAnswered
  <2>2. page.pb = Nil => page.anew
    BY <1>5 DEF MetaAnswered, AnewInv
  <2>3. page.pb # Nil => /\ page'.pb = Merged(page.pb, asked.meta) /\ page'.pb \in Playback
                         /\ page'.pb.ready = page.pb.ready
    BY <1>5, <1>a, <2>1, PollEffects DEF Merged, Playback, Page
  <2>4. page.pb # Nil => page'.pb # Nil /\ VideoOn(page') = VideoOn(page)
    BY <1>5, <2>3, NilIsNone, PollEffects
       DEF VideoOn, Shown, Loaded, Gated, LiveTakeover, SameSession, SamePlace
  <2>5. UNCHANGED <<stored, progress, put>>
    BY <1>5 DEF MetaAnswered, serverVars
  <2> QED BY <1>5, <1>b, <2>2, <2>4, <2>5, PollEffects, PositionKept DEF SameSession, SamePlace
<1>6. CASE MetaGivesUp
  <2>1. /\ SameSession /\ SameRecord /\ page'.anew = page.anew
        /\ UNCHANGED <<progress, put, video, stored>>
    BY <1>6, GivesUpEffects DEF serverVars
  <2>2. VideoOn(page)' = VideoOn(page)
    BY <2>1, SamePlayer, SameStored DEF SameSession, SamePlace, SameRecord
  <2> QED BY <2>1, <2>2 DEF PositionInv, Resumes, Offered, SameSession, SamePlace, SameRecord
<1> QED BY <1>1, <1>2, <1>3, <1>4, <1>5, <1>6 DEF Pollers

\* The element moves on, or the viewer moves it.
LEMMA AtKeepsPosition ==
  ASSUME TypeInv, PositionInv, NEW pos \in 0..Len, NEW p \in Page, At(pos, p), VideoOn(page),
         p = page \/ p = [page EXCEPT !.anew = TRUE],
         page.at = "failed" => page.anew,
         ~ p.anew /\ ~ p.refocused => (progress # Nil => progress.pos <= pos)
  PROVE  PositionInv'
<1>a. /\ page \in Page /\ video \in Player /\ page.pb # Nil
      /\ progress # Nil => progress.pos \in 0..Len
  BY DEF TypeInv, TypeOK, VideoOn
<1>1. /\ UNCHANGED <<stored, progress>> /\ put = Nil
      /\ video'.pos = pos /\ video'.loaded
      /\ put' # Nil => put'.pos = pos /\ put'.anew = p.anew /\ put'.refocused = p.refocused
      /\ page' = p \/ page' = [p EXCEPT !.last = pos]
  BY <1>a DEF At, Save, serverVars, Player
<1>2. /\ page'.pb = page.pb /\ page'.at = page.at /\ page'.pb # Nil
      /\ page'.anew = p.anew /\ page'.refocused = p.refocused
  BY <1>1, <1>a DEF Page
<1>3. put' # Nil /\ ~ put'.anew /\ ~ put'.refocused /\ progress' # Nil => progress'.pos <= put'.pos
  BY <1>1
<1> QED BY <1>1, <1>2, <1>3, <1>a DEF PositionInv, Resumes

LEMMA PlayKeepsPosition ==
  ASSUME TypeInv, AnewInv, PositionInv, Plays \/ PutProgress
  PROVE  PositionInv'
<1> USE Bounds
<1>a. /\ page \in Page /\ video \in Player /\ put \in Put \cup {Nil}
      /\ progress # Nil => progress.pos \in 0..Len
      /\ page.at = "failed" => page.anew
  BY DEF TypeInv, TypeOK, Put, AnewInv
<1>b. VideoOn(page) => page.pb # Nil /\ page.at \in {"open", "failed"}
  BY DEF VideoOn, Shown, Loaded
<1>1. CASE MetadataLoads
  <2>1. PICK pos : pos = IF video.seeks /\ video.pos < 1 /\ page.started < Len
                         THEN page.started ELSE video.pos
    OBVIOUS
  <2>2. pos \in 0..Len
    BY <1>a, <2>1 DEF Page, Player
  <2>3. At(pos, page) /\ VideoOn(page) /\ ~ video.loaded
    BY <1>1, <2>1 DEF MetadataLoads
  <2>4. ~ page.anew /\ ~ page.refocused => (progress # Nil => progress.pos <= pos)
    BY <1>a, <1>b, <2>1, <2>2, <2>3 DEF PositionInv, Resumes, Offered, Page, Player
  <2> QED BY <1>a, <2>2, <2>3, <2>4, AtKeepsPosition
<1>2. CASE Play
  <2>1. video.pos + 1 \in 0..Len /\ At(video.pos + 1, page) /\ VideoOn(page) /\ video.loaded
    BY <1>2, <1>a DEF Play, Player
  <2>2. ~ page.anew /\ ~ page.refocused => (progress # Nil => progress.pos <= video.pos + 1)
    BY <1>a, <1>b, <2>1 DEF PositionInv, Resumes, Player
  <2> QED BY <1>a, <2>1, <2>2, AtKeepsPosition
<1>3. ASSUME NEW pos \in 0..Len, SeekTo(pos) PROVE PositionInv'
  <2>1. PICK p : p = [page EXCEPT !.anew = TRUE]
    OBVIOUS
  <2>2. p \in Page /\ p.anew
    BY <1>a, <2>1 DEF Page
  <2>3. At(pos, p) /\ VideoOn(page)
    BY <1>3, <2>1 DEF SeekTo
  <2> QED BY <1>a, <2>1, <2>2, <2>3, AtKeepsPosition
<1>4. CASE Ended
  <2>1. /\ UNCHANGED <<stored, progress, video>> /\ VideoOn(page) /\ video.loaded /\ video.pos = Len
        /\ put'.pos = Len /\ put' # Nil
    BY <1>4, <1>a DEF Ended, Save, serverVars, Nil
  <2>2. /\ page'.pb = page.pb /\ page'.at = page.at
        /\ page'.anew = page.anew /\ page'.refocused = page.refocused
    BY <1>4, <1>a DEF Ended, Page
  <2> QED BY <1>a, <1>b, <2>1, <2>2 DEF PositionInv, Resumes
<1>5. CASE FocusMode
  <2>1. page'.refocused /\ UNCHANGED <<progress, put>>
    BY <1>5, ButtonEffects DEF FocusMode, serverVars
  <2> QED BY <2>1 DEF PositionInv, Resumes
<1>6. CASE PutProgress
  <2>1. put \in Put /\ put' = Nil /\ UNCHANGED <<page, video, stored>>
    BY <1>6, <1>a DEF PutProgress, pageVars
  <2>2. VideoOn(page)' = VideoOn(page)
    BY <2>1 DEF VideoOn, Shown, Loaded, Gated, LiveTakeover
  <2>3. CASE UNCHANGED progress
    BY <2>1, <2>2, <2>3 DEF PositionInv, Resumes, Offered
  <2>4. CASE progress' = [pos |-> put.pos, completed |-> put.completed]
    <3>1. progress'.pos = put.pos /\ put # Nil
      BY <1>6, <2>4 DEF PutProgress
    <3>2. ~ Offered
      BY <3>1 DEF Offered
    <3> QED BY <2>1, <2>2, <3>1, <3>2 DEF PositionInv, Resumes
  <2> QED BY <1>6, <2>3, <2>4 DEF PutProgress
<1> QED BY <1>1, <1>2, <1>3, <1>4, <1>5, <1>6 DEF Plays

LEMMA ButtonsKeepPosition ==
  ASSUME TypeInv, PollInv, AnewInv, PositionInv, Buttons
  PROVE  PositionInv'
<1>a. page \in Page /\ act \in {Nil} \cup Act
  BY DEF TypeInv, TypeOK, Act
<1>b. VideoOn(page) /\ VideoOn(page') /\ page'.focus = page.focus => Source(page) = Source(page')
  BY SourceKept DEF Next
<1>c. UNCHANGED <<stored, progress, put>>
  BY DEF Buttons, Retry, Reset, Edit, Type, Cancel, SaveSummary, Serve, Answered, Reloaded, ActFails,
         serverVars
<1>1. CASE Retry \/ Reset \/ SaveSummary \/ Serve
  <2>1. UNCHANGED <<page, video>>
    BY <1>1 DEF Retry, Reset, SaveSummary, Serve
  <2> QED BY <1>c, <2>1 DEF PositionInv, Resumes, Offered, VideoOn, Shown, Loaded, Gated, LiveTakeover
<1>2. CASE Edit \/ Type
  <2>1. /\ UNCHANGED video /\ page'.at = page.at /\ page'.role = page.role /\ page'.sess = page.sess
        /\ page'.pb = page.pb /\ page'.focus = page.focus /\ page'.started = page.started
        /\ page'.anew = page.anew /\ page'.refocused = page.refocused
    BY <1>2, <1>a DEF Edit, Type, Page
  <2>2. VideoOn(page)' = VideoOn(page)
    BY <1>c, <2>1, SamePlayer, SameStored
  <2> QED BY <1>c, <2>1, <2>2 DEF PositionInv, Resumes, Offered
<1>3. CASE Cancel \/ ActFails
  <2>1. VideoOn(page') = VideoOn(page)
    BY <1>3, ButtonEffects, SamePlayer DEF SameSession, SamePlace, SameRecord
  <2> QED BY <1>3, <1>b, <1>c, <2>1, ButtonEffects, PositionKept DEF SameSession, SamePlace, SameRecord
<1>4. CASE Answered
  <2>1. act \in Act
    BY <1>4, <1>a DEF Answered
  <2>2. CASE page'.anew
    BY <1>c, <2>2 DEF PositionInv, Resumes
  <2>3. CASE /\ SameSession /\ page'.anew = page.anew
             /\ page'.pb = IF page.pb = Nil THEN Nil ELSE [page.pb EXCEPT !.manual = act.text]
             /\ video' = Rendered(page, page', TRUE, FALSE)
    <3>1. page.pb # Nil => page'.pb \in Playback /\ page'.pb.ready = page.pb.ready
      BY <1>a, <2>1, <2>3 DEF Page, Playback, Act
    <3>2. (page.pb = Nil <=> page'.pb = Nil) /\ VideoOn(page') = VideoOn(page)
      BY <2>3, <3>1, NilIsNone DEF VideoOn, Shown, Loaded, Gated, LiveTakeover, SameSession, SamePlace
    <3> QED BY <1>b, <1>c, <2>3, <3>2, PositionKept DEF SameSession, SamePlace
  <2> QED BY <1>4, <2>2, <2>3, ButtonEffects
<1>5. CASE Reloaded
  BY <1>5, <1>b, <1>c, ButtonEffects, PositionKept DEF SamePlace, SameRecord
<1> QED BY <1>1, <1>2, <1>3, <1>4, <1>5 DEF Buttons

LEMMA PositionInvInductive ==
  /\ Init => PositionInv
  /\ TypeInv /\ PollInv /\ AnewInv /\ PositionInv /\ [Next]_vars => PositionInv'
<1>1. ASSUME Init PROVE PositionInv
  BY <1>1 DEF Init, PositionInv, Resumes, ClosedPage
<1>2. ASSUME TypeInv, PollInv, AnewInv, PositionInv, [Next]_vars PROVE PositionInv'
  <2>1. CASE Outside \/ UNCHANGED vars
    <3>1. UNCHANGED <<progress, put, page, video, stored>>
      BY <2>1 DEF Outside, World, pageVars, vars, serverVars, SetCode, WatchOthers, StartRecording,
                  StopRecording, Transcoded, Transcribed, Summarized, PipelineFails
    <3> QED BY <1>2, <3>1 DEF PositionInv, Resumes, Offered, VideoOn, Shown, Loaded, Gated, LiveTakeover
  <2> QED BY <1>2, <2>1, BootKeepsPosition, PollersKeepPosition, PlayKeepsPosition,
             ButtonsKeepPosition DEF Next
<1> QED BY <1>1, <1>2

\* The saved position falls only by a save of a viewer who was not offered it,
\* who has moved, or who has pressed the focus button: the player the page
\* resumes with saves first when it has sought that position.
THEOREM PositionHeldAlways == Spec => PositionHeld
<1>1. TypeInv /\ PositionInv /\ [Next]_vars
        => [progress # Nil /\ progress'.pos < progress.pos => put.anew \/ put.refocused]_vars
  <2> SUFFICES ASSUME TypeInv, PositionInv, Next, progress # Nil, progress'.pos < progress.pos
               PROVE  put.anew \/ put.refocused
    OBVIOUS
  <2>1. progress.pos \in 0..Len /\ put \in Put \cup {Nil}
    BY DEF TypeInv, TypeOK, Put
  <2>2. progress' # progress
    BY <2>1, Bounds
  <2>3. PutProgress
    BY <2>2 DEF Next, Open, Leave, Boots, Boot, BootPlayback, BootContinue, Pollers, PollAsks,
       PollSession, PollPlayback, PollFails, MetaAsks, MetaAnswered, MetaFails, MetaGivesUp, Plays,
       MetadataLoads, Play, Ended, FocusMode, SeekTo, At, Buttons, Retry, Reset, Edit, Type, Cancel, SaveSummary,
       Serve, Answered, Reloaded, ActFails, EnterCode, Outside, World, SetCode, WatchOthers,
       StartRecording, StopRecording, Transcoded, Transcribed, Summarized, PipelineFails, serverVars
  <2>4. put \in Put /\ progress'.pos = put.pos
    BY <2>1, <2>2, <2>3 DEF PutProgress
  <2> QED BY <2>1, <2>4, NilIsNone, Bounds DEF PositionInv, Put
<1> QED BY <1>1, TypeInvInductive, PollInvInductive, AnewInvInductive, PositionInvInductive, PTL
        DEF Spec, PositionHeld

-----------------------------------------------------------------------------
(* The teacher's summary.                                                   *)

\* No answer is of a take to come.
TakesInv ==
  /\ rec.take <= used.takes
  /\ page.pb # Nil => page.pb.take <= used.takes
  /\ asked.poll # Nil => asked.poll.take <= used.takes
  /\ asked.meta # Nil => asked.meta.take <= used.takes

\* The page says what the row says, but between the row's change and its answer.
Agrees ==
  page.pb # Nil /\ page.pb.take = rec.take /\ ~ page.behind => page.pb.manual = rec.manual
SummaryInv ==
  /\ act # Nil => /\ act.step = "reload" => act.kind # "save"
                  /\ act.kind = "save" /\ act.step = "served" =>
                       rec.take = act.take /\ rec.manual = act.text
  /\ (act # Nil => act.kind # "save" \/ act.step = "posted") => Agrees

LEMMA TakesInvInductive ==
  /\ Init => TakesInv
  /\ TypeInv /\ TakesInv /\ [Next]_vars => TakesInv'
<1>1. ASSUME Init PROVE TakesInv
  BY <1>1 DEF Init, TakesInv, ClosedPage, NoRow
<1>2. ASSUME TypeInv, TakesInv, [Next]_vars PROVE TakesInv'
  <2>a. /\ asked \in [poll : Snapshot \cup Playback \cup {Nil}, meta : Playback \cup {Nil}]
        /\ page \in Page /\ act \in {Nil} \cup Act /\ rec \in Recording
        /\ used \in [takes : 0..MaxTakes, runs : 0..MaxRuns, codes : 0..MaxCodes, moves : 0..MaxMoves]
        /\ TypeOK
    BY <1>2 DEF TypeInv, TypeOK, Act
  <2> USE <1>2, Bounds DEF TakesInv, SameSession, SamePlace, SameRecord
  <2>u. Move \/ NoFault => used'.takes = used.takes
    BY <2>a DEF Move, NoFault
  <2>1. CASE Open \/ Leave \/ Boots \/ EnterCode
    <3>1. rec' = rec /\ used'.takes = used.takes
      BY <2>1, <2>u DEF Open, Leave, Boots, Boot, BootPlayback, BootContinue, EnterCode, Fault, NoFault,
                        serverVars
    <3>2. asked' = asked \/ asked' = [poll |-> Nil, meta |-> Nil]
      BY <2>1 DEF Open, Leave, Boots, Boot, BootPlayback, BootContinue, EnterCode
    <3>3. page'.pb = page.pb \/ page'.pb = Nil \/ page'.pb.take = rec.take
      <4>1. EnterCode => page'.pb = Nil
        BY DEF EnterCode, NewPage, ClosedPage
      <4>2. ThePlayback("boot") # Nil => ThePlayback("boot").take = rec.take
        BY <2>a, Answer
      <4> QED BY <2>1, <4>1, <4>2, BootEffects DEF Boots, SameRecord
    <3> QED BY <3>1, <3>2, <3>3
  <2>2. CASE Pollers
    <3>1. rec' = rec /\ used'.takes = used.takes
      BY <2>2, <2>u DEF Pollers, PollAsks, PollSession, PollPlayback, PollFails, MetaAsks, MetaAnswered,
                        MetaFails, MetaGivesUp, Fault, NoFault, serverVars
    <3>2. asked'.poll # Nil => asked'.poll = asked.poll \/ asked'.poll.take = rec.take
      BY <2>2, <2>a, Answer DEF Pollers, PollAsks, PollSession, PollPlayback, PollFails, MetaAsks,
                                MetaAnswered, MetaFails, MetaGivesUp
    <3>3. asked'.meta # Nil => asked'.meta = asked.meta \/ asked'.meta.take = rec.take
      BY <2>2, <2>a, Answer DEF Pollers, PollAsks, PollSession, PollPlayback, PollFails, MetaAsks,
                                MetaAnswered, MetaFails, MetaGivesUp
    <3>4. page'.pb # Nil => \/ page.pb # Nil /\ page'.pb.take = page.pb.take
                            \/ asked.poll # Nil /\ page'.pb.take = asked.poll.take
                            \/ asked.meta # Nil /\ page'.pb.take = asked.meta.take
      <4>1. CASE PollAsks \/ MetaAsks \/ MetaFails
        BY <4>1 DEF PollAsks, MetaAsks, MetaFails
      <4>2. CASE PollSession \/ PollFails \/ MetaGivesUp
        BY <4>2, PollEffects, GivesUpEffects
      <4>3. CASE PollPlayback
        BY <4>3, PollEffects, NilIsNone DEF PollPlayback
      <4>4. CASE MetaAnswered
        <5>1. page.pb # Nil => Merged(page.pb, asked.meta).take = page.pb.take
          BY <2>a DEF Merged, Page, Playback
        <5> QED BY <4>4, <5>1, PollEffects DEF MetaAnswered
      <4> QED BY <2>2, <4>1, <4>2, <4>3, <4>4 DEF Pollers
    <3> QED BY <3>1, <3>2, <3>3, <3>4
  <2>3. CASE Plays \/ PutProgress
    <3>1. UNCHANGED <<rec, asked>> /\ used'.takes = used.takes
      BY <2>3, <2>u DEF Plays, PutProgress, MetadataLoads, Play, SeekTo, Ended, FocusMode, At, serverVars,
                        pageVars, Fault, NoFault
    <3>2. page'.pb = page.pb
      <4>1. CASE MetadataLoads \/ Play \/ Ended \/ \E pos \in 0..Len : SeekTo(pos)
        BY <2>a, <4>1 DEF MetadataLoads, Play, Ended, SeekTo, At, Page
      <4>2. CASE FocusMode \/ PutProgress
        BY <4>2, ButtonEffects DEF PutProgress, pageVars
      <4> QED BY <2>3, <4>1, <4>2 DEF Plays
    <3> QED BY <3>1, <3>2
  <2>4. CASE Buttons
    <3>1. asked' = asked /\ used'.takes = used.takes
      BY <2>4, <2>u DEF Buttons, Retry, Reset, Edit, Type, Cancel, SaveSummary, Serve, Answered, Reloaded,
                        ActFails, Fault, NoFault
    <3>2. rec' = rec \/ rec'.take = 0 \/ rec'.take = rec.take
      <4>1. CASE Serve
        <5>1. rec' \in {rec, NoRow, RetryRow, [rec EXCEPT !.manual = act.text]}
          BY <2>a, <4>1 DEF Serve, Act
        <5>2. RetryRow.take = rec.take /\ [rec EXCEPT !.manual = act.text].take = rec.take /\ NoRow.take = 0
          BY <2>a DEF RetryRow, NoRow, Recording
        <5> QED BY <5>1, <5>2
      <4> QED BY <2>4, <4>1 DEF Buttons, Retry, Reset, Edit, Type, Cancel, SaveSummary, Answered,
                                Reloaded, ActFails, serverVars
    <3>3. page'.pb = page.pb \/ page'.pb = Nil \/ (page.pb # Nil /\ page'.pb.take = page.pb.take)
      <4>1. CASE Retry \/ Reset \/ SaveSummary \/ Serve
        BY <4>1 DEF Retry, Reset, SaveSummary, Serve
      <4>2. CASE Edit \/ Type
        BY <2>a, <4>2 DEF Edit, Type, Page
      <4>3. CASE Cancel \/ Reloaded \/ ActFails
        BY <4>3, ButtonEffects
      <4>4. CASE Answered
        <5>1. page.pb # Nil => [page.pb EXCEPT !.manual = act.text].take = page.pb.take
          BY <2>a DEF Page, Playback
        <5> QED BY <4>4, <5>1, ButtonEffects
      <4> QED BY <2>4, <4>1, <4>2, <4>3, <4>4 DEF Buttons
    <3>4. used.takes \in Nat
      BY <2>a
    <3> QED BY <3>1, <3>2, <3>3, <3>4
  <2>5. CASE Outside
    <3>1. UNCHANGED <<page, asked>>
      BY <2>5 DEF Outside, World, pageVars, SetCode, WatchOthers, StartRecording, StopRecording,
                  Transcoded, Transcribed, Summarized, PipelineFails
    <3>2. CASE StartRecording
      <4>1. used'.takes = used.takes + 1 /\ rec'.take = used.takes + 1
        BY <2>a, <3>2 DEF StartRecording, NoRow
      <4>2. /\ page.pb # Nil => page.pb.take \in Nat
            /\ asked.poll # Nil => asked.poll.take \in Nat
            /\ asked.meta # Nil => asked.meta.take \in Nat
        BY <2>a DEF Page, Playback, Snapshot
      <4>3. used.takes \in Nat
        BY <2>a
      <4> QED BY <3>1, <4>1, <4>2, <4>3
    <3>3. CASE ~ StartRecording
      <4>1. used'.takes = used.takes
        BY <2>5, <2>a, <2>u, <3>3 DEF Outside, SetCode, WatchOthers, StopRecording, Transcoded,
                                      Transcribed, Summarized, PipelineFails
      <4>2. rec'.take = rec.take
        BY <2>5, <2>a, <3>3 DEF Outside, World, SetCode, WatchOthers, StopRecording, Transcoded,
                                Transcribed, Summarized, PipelineFails, Recording
      <4> QED BY <3>1, <4>1, <4>2
    <3> QED BY <3>2, <3>3
  <2>6. CASE UNCHANGED vars
    BY <2>6 DEF vars, serverVars, pageVars
  <2> QED BY <1>2, <2>1, <2>2, <2>3, <2>4, <2>5, <2>6 DEF Next
<1> QED BY <1>1, <1>2

LEMMA SummaryInvInductive ==
  /\ Init => SummaryInv
  /\ TypeInv /\ TakesInv /\ SummaryInv /\ [Next]_vars => SummaryInv'
<1>1. ASSUME Init PROVE SummaryInv
  BY <1>1 DEF Init, SummaryInv, Agrees, ClosedPage
<1>2. ASSUME TypeInv, TakesInv, SummaryInv, [Next]_vars PROVE SummaryInv'
  <2>a. /\ asked \in [poll : Snapshot \cup Playback \cup {Nil}, meta : Playback \cup {Nil}]
        /\ page \in Page /\ act \in {Nil} \cup Act /\ rec \in Recording /\ TypeOK
    BY <1>2 DEF TypeInv, TypeOK, Act
  <2> USE <1>2, Bounds DEF SummaryInv, SameSession, SamePlace, SameRecord
  <2>e. ASSUME UNCHANGED <<rec, act>>, page'.pb = page.pb, page'.behind = page.behind
        PROVE  SummaryInv'
    BY <2>e DEF Agrees
  <2>f. ASSUME UNCHANGED <<rec, act>>, Agrees' PROVE SummaryInv'
    BY <2>f
  <2>1. CASE Open \/ Leave \/ Boots \/ EnterCode
    <3>1. UNCHANGED <<rec, act>>
      BY <2>1 DEF Open, Leave, Boots, Boot, BootPlayback, BootContinue, EnterCode, serverVars
    <3>2. CASE Open \/ Leave \/ EnterCode
      <4>1. page'.pb = Nil
        BY <3>2, BootEffects DEF EnterCode, NewPage, ClosedPage
      <4> QED BY <2>f, <3>1, <4>1 DEF Agrees
    <3>3. CASE BootPlayback
      <4>1. CASE page'.pb = page.pb
        BY <2>e, <3>1, <3>3, <4>1, BootEffects
      <4>2. CASE ThePlayback("boot") # Nil /\ page'.pb = ThePlayback("boot")
        <5>1. Agrees'
          BY <2>a, <3>1, <4>2, Answer DEF Agrees
        <5> QED BY <2>f, <3>1, <5>1
      <4> QED BY <3>3, <4>1, <4>2, BootEffects
    <3>4. CASE Boot \/ BootContinue
      BY <2>e, <3>1, <3>4, BootEffects
    <3> QED BY <2>1, <3>2, <3>3, <3>4 DEF Boots
  <2>2. CASE Pollers
    <3>1. UNCHANGED <<rec, act>>
      BY <2>2 DEF Pollers, PollAsks, PollSession, PollPlayback, PollFails, MetaAsks, MetaAnswered,
                  MetaFails, MetaGivesUp, serverVars
    <3>2. CASE PollAsks \/ MetaAsks \/ MetaFails
      BY <2>e, <3>1, <3>2 DEF PollAsks, MetaAsks, MetaFails
    <3>3. CASE PollSession \/ PollFails \/ MetaGivesUp
      BY <2>e, <3>1, <3>3, PollEffects, GivesUpEffects
    <3>4. CASE PollPlayback
      <4>1. page'.pb = asked.poll /\ page'.behind = (asked.poll.manual # rec.manual)
        BY <3>4, PollEffects DEF Behind
      <4> QED BY <2>f, <3>1, <4>1 DEF Agrees
    <3>5. CASE MetaAnswered
      <4>1. page'.pb.manual = asked.meta.manual /\ page'.behind = (asked.meta.manual # rec.manual)
        BY <2>a, <3>5, PollEffects DEF Behind, Merged, Page, Playback
      <4> QED BY <2>f, <3>1, <4>1 DEF Agrees
    <3> QED BY <2>2, <3>2, <3>3, <3>4, <3>5 DEF Pollers
  <2>3. CASE Plays \/ PutProgress
    <3>1. UNCHANGED <<rec, act>>
      BY <2>3 DEF Plays, PutProgress, MetadataLoads, Play, SeekTo, Ended, FocusMode, At, serverVars, pageVars
    <3>2. page'.pb = page.pb /\ page'.behind = page.behind
      <4>1. CASE MetadataLoads \/ Play \/ Ended \/ \E pos \in 0..Len : SeekTo(pos)
        BY <2>a, <4>1 DEF MetadataLoads, Play, Ended, SeekTo, At, Page
      <4>2. CASE FocusMode \/ PutProgress
        BY <4>2, ButtonEffects DEF PutProgress, pageVars
      <4> QED BY <2>3, <4>1, <4>2 DEF Plays
    <3> QED BY <2>e, <3>1, <3>2
  <2>4. CASE Retry \/ Reset \/ SaveSummary
    <3>1. act = Nil /\ act'.step = "posted" /\ UNCHANGED <<rec, page>>
      BY <2>4, <2>a DEF Retry, Reset, SaveSummary, Press, serverVars
    <3> QED BY <3>1 DEF Agrees
  <2>5. CASE Edit \/ Type \/ Cancel
    <3>1. page'.pb = page.pb /\ page'.behind = page.behind
      BY <2>a, <2>5, ButtonEffects DEF Edit, Type, Page
    <3> QED BY <2>e, <2>5, <3>1 DEF Edit, Type, Cancel, serverVars
  <2>6. CASE Serve
    <3>1. act \in Act /\ act.step = "posted" /\ UNCHANGED page
      BY <2>6, <2>a DEF Serve
    <3>2. CASE act' = Nil /\ UNCHANGED rec
      BY <3>1, <3>2 DEF Agrees
    <3>3. CASE Found /\ act.kind = "reset" /\ rec' = NoRow /\ act' = [act EXCEPT !.step = "served"]
      <4>1. page.pb # Nil => page.pb.take # 0
        BY <2>a DEF Page, Playback
      <4>2. rec'.take = 0 /\ act'.kind = "reset" /\ act'.step = "served"
        BY <3>1, <3>3 DEF NoRow, Act
      <4> QED BY <3>1, <4>1, <4>2 DEF Agrees
    <3>4. CASE Found /\ act.kind = "retry" /\ rec' = RetryRow /\ act' = [act EXCEPT !.step = "reload"]
      <4>1. rec'.take = rec.take /\ rec'.manual = rec.manual
        BY <2>a, <3>4 DEF RetryRow, Recording
      <4>2. act'.kind = "retry" /\ act'.step = "reload"
        BY <3>1, <3>4 DEF Act
      <4> QED BY <3>1, <3>4, <4>1, <4>2 DEF Agrees
    <3>5. CASE /\ Found /\ act.kind = "save" /\ rec' = [rec EXCEPT !.manual = act.text]
               /\ act' = [act EXCEPT !.step = "served"]
      <4>1. rec'.take = rec.take /\ rec'.manual = act.text /\ rec.take = act.take
        BY <2>a, <3>5 DEF Found, Recording
      <4>2. act'.kind = "save" /\ act'.step = "served" /\ act'.take = act.take /\ act'.text = act.text
            /\ act' \in Act
        BY <3>1, <3>5 DEF Act
      <4> QED BY <3>1, <4>1, <4>2, NilIsNone
    <3> QED BY <2>6, <3>1, <3>2, <3>3, <3>4, <3>5 DEF Serve, Act
  <2>7. CASE Answered
    <3>1. act \in Act /\ act.step = "served" /\ UNCHANGED rec
      BY <2>7, <2>a DEF Answered, serverVars
    <3>2. CASE act.kind = "reset" /\ page'.pb = Nil /\ act' = [act EXCEPT !.step = "reload"]
      <4>1. act'.kind = "reset" /\ act'.step = "reload"
        BY <3>1, <3>2 DEF Act
      <4> QED BY <3>2, <4>1 DEF Agrees
    <3>3. CASE /\ act.kind = "save" /\ act' = Nil
               /\ page'.pb = IF page.pb = Nil THEN Nil ELSE [page.pb EXCEPT !.manual = act.text]
      <4>1. rec.manual = act.text
        BY <3>1, <3>3, NilIsNone
      <4>2. page'.pb # Nil => page'.pb.manual = act.text
        BY <2>a, <3>3 DEF Page, Playback
      <4> QED BY <3>1, <3>3, <4>1, <4>2 DEF Agrees
    <3> QED BY <2>7, <3>2, <3>3, ButtonEffects
  <2>8. CASE Reloaded
    <3>1. act.kind # "save" /\ act # Nil /\ act' = Nil /\ UNCHANGED rec
      BY <2>8 DEF Reloaded, serverVars
    <3> QED BY <2>8, <3>1, ButtonEffects DEF Agrees
  <2>9. CASE ActFails
    <3>1. act \in Act /\ act' = Nil /\ UNCHANGED rec
      BY <2>9, <2>a DEF ActFails, serverVars
    <3>2. CASE act.kind = "save" /\ act.step = "served"
      BY <2>9, <3>1, <3>2, ButtonEffects DEF Agrees
    <3>3. CASE act.kind # "save" \/ act.step = "posted"
      BY <2>9, <3>1, <3>3, ButtonEffects DEF Agrees
    <3> QED BY <3>1, <3>2, <3>3, NilIsNone DEF Act
  <2>10. CASE Outside
    <3>1. UNCHANGED <<page, act>>
      BY <2>10 DEF Outside, World, pageVars, SetCode, WatchOthers, StartRecording, StopRecording,
                   Transcoded, Transcribed, Summarized, PipelineFails
    <3>2. CASE StartRecording
      <4>1. rec'.take = used.takes + 1 /\ rec.take = 0 /\ used.takes \in Nat
        BY <2>a, <3>2 DEF StartRecording, NoRow, TypeOK
      <4>2. page.pb # Nil => page.pb.take # rec'.take
        BY <2>a, <4>1 DEF TakesInv, Page, Playback
      <4>3. act # Nil => act.take # 0
        BY <2>a DEF Act
      <4> QED BY <3>1, <4>1, <4>2, <4>3 DEF Agrees
    <3>3. CASE ~ StartRecording
      <4>1. rec'.take = rec.take /\ rec'.manual = rec.manual
        BY <2>10, <2>a, <3>3 DEF Outside, World, SetCode, WatchOthers, StopRecording, Transcoded,
                                 Transcribed, Summarized, PipelineFails, Recording
      <4> QED BY <3>1, <4>1 DEF Agrees
    <3> QED BY <3>2, <3>3
  <2>11. CASE UNCHANGED vars
    BY <2>11 DEF vars, serverVars, pageVars, Agrees
  <2> QED BY <1>2, <2>1, <2>2, <2>3, <2>4, <2>5, <2>6, <2>7, <2>8, <2>9, <2>10, <2>11 DEF Next, Buttons
<1> QED BY <1>1, <1>2

\* The page never shows another text than the teacher saved for this recording,
\* but when an answer the save overtook, or one that was lost, has left it behind.
THEOREM SavedSummaryShowsAlways == Spec => []SavedSummaryShows
<1>1. SummaryInv => SavedSummaryShows
  BY DEF SummaryInv, Agrees, SavedSummaryShows
<1> QED BY <1>1, TypeInvInductive, TakesInvInductive, SummaryInvInductive, PTL DEF Spec
=============================================================================
