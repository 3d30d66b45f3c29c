-------------------------- MODULE RecordPageProofs --------------------------
(***************************************************************************)
(* What the record page promises, for any pages, takes, uploads, streams   *)
(* on stage and faults: what is stored is one take in order, a page that   *)
(* says "done" has stored all of it, the devices are let go of, and no     *)
(* participant is recorded unasked.                                        *)
(*                                                                         *)
(* The first part is about the recorder and its multipart upload: what     *)
(* every operation of MultipartRecorder preserves.  It follows the data.   *)
(* A slice that has been cut from the buffer is a piece: in flight, or in  *)
(* the list of parts.  The pieces of a take have different numbers, the    *)
(* ranges of slices they hold follow each other as the numbers do, and     *)
(* unless an error is shown none is missing.  When the upload is completed *)
(* nothing is in flight, so that the list is the take.  All of it is said  *)
(* of a recorder that has not had a slice after stop() ceased to wait.     *)
(*                                                                         *)
(* The second part is about the page.  The devices need to know who holds  *)
(* each track: what captures is in the merged stream, waits for its        *)
(* microphone, is the camera of webcamTrackRef, or comes from the          *)
(* pre-flight check, whose tracks stop() and the effect on liveEnded stop. *)
(***************************************************************************)
EXTENDS RecordPage, FiniteSetTheorems, FunctionTheorems, TLAPS

-----------------------------------------------------------------------------
(* The invariant.                                                           *)

Sent(r) == {f \in flights : f.by = r}
Piece(f) == [n |-> f.n, data |-> f.data]
Pieces(r) == parts[r] \cup {Piece(f) : f \in Sent(r)}

Working(r) == status[r] \in {"recording", "stopping", "uploading"}
Over(r) == status[r] = "done" \/ at[r] = "chapters"

\* Where start() and stop() wait, and what they show.
Place(r) ==
  /\ at[r] \in StartPC <=> status[r] = "starting"
  /\ at[r] \in {"settling", "draining", "flushing"} <=> status[r] = "stopping"
  /\ at[r] \in {"completing", "chapters"} <=> status[r] = "uploading"
  /\ mr[r] = "recording" => status[r] = "recording"

\* Each part holds a slice at least, and each take has an upload of its own.
Bounds(r) ==
  /\ cut[r] <= captured[r] /\ captured[r] <= Slices[r]
  /\ number[r] <= cut[r] + 1
  /\ take[r] <= row.upload
  /\ mr[r] # "none" \/ Working(r) => take[r] >= 1

Own(r) == \A p \in Pieces(r) : p.data.by = r

\* Nothing is in flight but while stop() will wait for it.
Timely(r) ==
  /\ Sent(r) # {} => status[r] \in {"recording", "stopping"}
  /\ at[r] = "draining" => \A f \in Sent(r) : f.n \in awaited[r]
  /\ at[r] = "flushing" => \A f \in Sent(r) : f.final
  /\ at[r] \in {"flushing", "completing"} => cut[r] = captured[r]

InPlace(r, p) ==
  /\ p.n < number[r]
  /\ p.data.take = take[r]
  /\ p.data.from <= p.data.to /\ p.data.to <= cut[r]
  /\ p.n = 1 => p.data.from = 1
  /\ p.n + 1 = number[r] => p.data.to = cut[r]

Apart(p, q) ==
  /\ p.n = q.n => p = q
  /\ p.n < q.n => p.data.to < q.data.from
  /\ p.n + 1 = q.n => p.data.to + 1 = q.data.from

\* The pieces are of the take that goes on, and follow each other.
InOrder(r) ==
  /\ \A p \in Pieces(r) : InPlace(r, p)
  /\ \A p, q \in Pieces(r) : Apart(p, q)
  /\ number[r] = 1 => cut[r] = 0

NoneLost(r) ==
  Working(r) /\ ~error[r] => \A n \in 1..(number[r] - 1) : \E p \in Pieces(r) : p.n = n

Stands(r) == Over(r) /\ ~error[r] /\ ~late[r] => \E u \in Uploads : Whole(object[u], r)

TakeInv(r) ==
  /\ Place(r) /\ Bounds(r) /\ Own(r) /\ Stands(r)
  /\ ~late[r] => Timely(r) /\ InOrder(r) /\ NoneLost(r)

\* A recorder has one last part, and waits for it.
FinalFlight ==
  /\ \A f \in flights : f.final => at[f.by] = "flushing"
  /\ \A f, g \in flights : f.final /\ g.final /\ f.by = g.by => f = g

\* An upload that was completed is not written again; each of its numbers is
\* held by one part.
Store ==
  /\ \A u \in open : u <= row.upload
  /\ \A u \in Uploads : object[u] # <<>> => u \notin open /\ u <= row.upload
  /\ \A b, c \in bucket : b.upload = c.upload /\ b.part.n = c.part.n => b.part = c.part

RecorderInv ==
  /\ RecorderTypeOK /\ FinalFlight /\ Store /\ ObjectsAreOneTake
  /\ \A r \in Recorders : TakeInv(r)

-----------------------------------------------------------------------------
(* Sorting a list of parts.                                                 *)

OneEach(ps) == \A p, q \in ps : p.n = q.n => p = q

\* Parts with different numbers are finitely many, and as many as the numbers.
LEMMA PartsAreCounted ==
  ASSUME NEW ps, OneEach(ps), NEW K \in Nat, \A p \in ps : p.n \in 1..K
  PROVE  /\ IsFiniteSet(ps) /\ Cardinality(ps) \in Nat
         /\ (\A n \in 1..K : \E p \in ps : p.n = n) => Cardinality(ps) = K
<1> DEFINE num == [p \in ps |-> p.n]
<1>1. num \in [ps -> 1..K]
  OBVIOUS
<1>2. num \in Injection(ps, 1..K)
  BY <1>1, Fun_IsInj DEF OneEach
<1>3. IsFiniteSet(1..K) /\ Cardinality(1..K) = K
  BY FS_Interval
<1>4. IsFiniteSet(ps) /\ (Cardinality(ps) = Cardinality(1..K) <=> num \in Surjection(ps, 1..K))
  BY <1>2, <1>3, FS_Injection
<1>5. ASSUME \A n \in 1..K : \E p \in ps : p.n = n
      PROVE  Cardinality(ps) = K
  <2>1. \A n \in 1..K : \E p \in ps : num[p] = n
    BY <1>5
  <2> QED
    BY <1>1, <1>3, <1>4, <2>1, Fun_IsSurj
<1> QED
  BY <1>4, <1>5, FS_CardinalityType

LEMMA RankBelow ==
  ASSUME NEW ps, IsFiniteSet(ps), \A p \in ps : p.n \in Nat, NEW p \in ps
  PROVE  /\ Rank(p, ps) \in 0..(Cardinality(ps) - 1)
         /\ \A q \in ps : p.n <= q.n => Rank(p, ps) <= Rank(q, ps)
         /\ \A q \in ps : p.n < q.n => Rank(p, ps) < Rank(q, ps)
<1> DEFINE Below(x) == {q \in ps : ByNumber(q, x)}
<1>1. ASSUME NEW x \in ps
      PROVE  /\ IsFiniteSet(Below(x)) /\ Rank(x, ps) = Cardinality(Below(x)) /\ Rank(x, ps) \in Nat
             /\ x \notin Below(x)
  <2>1. Below(x) \in SUBSET ps
    OBVIOUS
  <2>2. IsFiniteSet(Below(x))
    BY <2>1, FS_Subset
  <2> QED
    BY <2>2, FS_CardinalityType DEF Rank, ByNumber
<1>2. Rank(p, ps) < Cardinality(ps)
  <2>1. Below(p) \in SUBSET ps /\ Below(p) # ps
    BY <1>1
  <2>2. Cardinality(Below(p)) <= Cardinality(ps) /\ Cardinality(Below(p)) # Cardinality(ps)
    BY <2>1, FS_Subset
  <2> QED
    BY <1>1, <2>2, FS_CardinalityType
<1>3. ASSUME NEW q \in ps, p.n <= q.n
      PROVE  Below(p) \in SUBSET Below(q) /\ Rank(p, ps) <= Rank(q, ps)
  <2>1. Below(p) \in SUBSET Below(q)
    BY <1>3 DEF ByNumber
  <2>2. Cardinality(Below(p)) <= Cardinality(Below(q))
    BY <1>1, <2>1, FS_Subset
  <2> QED
    BY <1>1, <2>1, <2>2
<1>4. ASSUME NEW q \in ps, p.n < q.n
      PROVE  Rank(p, ps) < Rank(q, ps)
  <2>1. p \in Below(q) /\ Below(p) \in SUBSET Below(q)
    BY <1>3, <1>4 DEF ByNumber
  <2>2. Below(p) # Below(q)
    BY <1>1, <2>1
  <2>3. Cardinality(Below(p)) # Cardinality(Below(q))
    BY <1>1, <2>1, <2>2, FS_Subset
  <2>4. Rank(p, ps) <= Rank(q, ps)
    BY <1>3, <1>4
  <2>5. /\ Rank(p, ps) = Cardinality(Below(p)) /\ Rank(q, ps) = Cardinality(Below(q))
        /\ Rank(p, ps) \in Nat /\ Rank(q, ps) \in Nat
    BY <1>1
  <2> HIDE DEF Below
  <2> QED
    BY <2>3, <2>4, <2>5
<1>5. Rank(p, ps) \in Nat /\ Cardinality(ps) \in Nat
  BY <1>1, FS_CardinalityType
<1> HIDE DEF Below
<1>6. Rank(p, ps) \in 0..(Cardinality(ps) - 1)
  BY <1>2, <1>5
<1> QED
  BY <1>3, <1>4, <1>6

\* What is put together from a list of parts are their data, each once, by
\* number.
LEMMA AssembledByRank ==
  ASSUME NEW ps \in SUBSET Part, OneEach(ps), MaxSlices \in Nat
  PROVE  /\ Assembled(ps) \in Seq(Data)
         /\ Len(Assembled(ps)) = Cardinality(ps)
         /\ \A i \in 1..Cardinality(ps) :
              \E p \in ps : Assembled(ps)[i] = p.data /\ Rank(p, ps) = i - 1
         /\ IsFiniteSet(ps) /\ Cardinality(ps) \in Nat
<1>1. \A p \in ps : p.n \in 1..MaxSlices /\ p.n \in Nat /\ p.data \in Data
  BY DEF Part
<1>2. IsFiniteSet(ps) /\ Cardinality(ps) \in Nat
  BY <1>1, PartsAreCounted
<1> DEFINE K == Cardinality(ps)
           rank == [p \in ps |-> Rank(p, ps)]
<1>3. rank \in [ps -> 0..(K - 1)]
  BY <1>1, <1>2, RankBelow
<1>4. \A p, q \in ps : rank[p] = rank[q] => p = q
  <2> SUFFICES ASSUME NEW p \in ps, NEW q \in ps, p # q PROVE Rank(p, ps) # Rank(q, ps)
    OBVIOUS
  <2>1. p.n < q.n \/ q.n < p.n
    BY <1>1 DEF OneEach
  <2>2. Rank(p, ps) \in Nat /\ Rank(q, ps) \in Nat
    BY <1>1, <1>2, RankBelow
  <2>3. Rank(p, ps) < Rank(q, ps) \/ Rank(q, ps) < Rank(p, ps)
    BY <1>1, <1>2, <2>1, RankBelow
  <2> QED
    BY <2>2, <2>3
<1>5. rank \in Injection(ps, 0..(K - 1))
  BY <1>3, <1>4, Fun_IsInj
<1>6. IsFiniteSet(0..(K - 1)) /\ Cardinality(0..(K - 1)) = K
  <2> HIDE DEF K
  <2>1. K \in Nat
    BY <1>2 DEF K
  <2> QED
    BY <2>1, FS_Interval
<1>7. rank \in Surjection(ps, 0..(K - 1))
  BY <1>5, <1>6, FS_Injection
<1>8. \A k \in 0..(K - 1) : \E p \in ps : rank[p] = k
  <2> DEFINE T == 0..(K - 1)
  <2>1. rank \in Surjection(ps, T)
    BY <1>7
  <2> HIDE DEF rank, T
  <2>2. \A k \in T : \E p \in ps : rank[p] = k
    BY <2>1, Fun_SurjectionProperties
  <2> QED
    BY <2>2 DEF T
<1>9. ASSUME NEW i \in 1..K
      PROVE  LET p == CHOOSE p \in ps : Rank(p, ps) = i - 1 IN p \in ps /\ Rank(p, ps) = i - 1
  <2>1. i - 1 \in 0..(K - 1)
    BY <1>2
  <2>2. \E p \in ps : Rank(p, ps) = i - 1
    BY <1>8, <2>1
  <2> QED
    BY <2>2
<1>10. Assembled(ps) \in [1..K -> Data]
  BY <1>1, <1>9 DEF Assembled
<1>11. Assembled(ps) \in Seq(Data) /\ Len(Assembled(ps)) = K
  <2> HIDE DEF K
  <2>1. K \in Nat
    BY <1>2 DEF K
  <2> QED
    BY <1>10, <2>1
<1>12. ASSUME NEW i \in 1..K
       PROVE  \E p \in ps : Assembled(ps)[i] = p.data /\ Rank(p, ps) = i - 1
  BY <1>9 DEF Assembled
<1> QED
  BY <1>2, <1>11, <1>12

\* When the numbers are 1, 2, ... without a gap, each part is at its number.
LEMMA AssembledByNumber ==
  ASSUME NEW ps \in SUBSET Part, OneEach(ps), MaxSlices \in Nat, NEW K \in Nat,
         \A p \in ps : p.n \in 1..K, \A n \in 1..K : \E p \in ps : p.n = n
  PROVE  /\ Len(Assembled(ps)) = K
         /\ \A i \in 1..K : \E p \in ps : Assembled(ps)[i] = p.data /\ p.n = i
<1>1. Cardinality(ps) = K
  BY PartsAreCounted
<1>2. ASSUME NEW p \in ps
      PROVE  Rank(p, ps) = p.n - 1
  <2> DEFINE qs == {q \in ps : ByNumber(q, p)}
  <2>1. p.n \in 1..K /\ p.n - 1 \in Nat
    OBVIOUS
  <2>2. OneEach(qs) /\ \A q \in qs : q.n \in 1..(p.n - 1)
    BY <2>1 DEF OneEach, ByNumber
  <2>3. ASSUME NEW n \in 1..(p.n - 1)
        PROVE  \E q \in qs : q.n = n
    <3>1. n \in 1..K
      BY <2>1
    <3>2. PICK q \in ps : q.n = n
      BY <3>1
    <3> QED
      BY <2>1, <3>2 DEF ByNumber
  <2>4. Cardinality(qs) = p.n - 1
    <3> HIDE DEF qs
    <3>1. \A n \in 1..(p.n - 1) : \E q \in qs : q.n = n
      BY <2>3
    <3> QED
      BY <2>1, <2>2, <3>1, PartsAreCounted
  <2> QED
    BY <2>4 DEF Rank
<1>3. \A i \in 1..K : \E p \in ps : Assembled(ps)[i] = p.data /\ p.n = i
  <2> TAKE i \in 1..K
  <2>1. PICK p \in ps : Assembled(ps)[i] = p.data /\ Rank(p, ps) = i - 1
    BY <1>1, AssembledByRank
  <2>2. p.n \in 1..K /\ p.n - 1 = i - 1
    BY <1>2, <2>1
  <2> QED
    BY <2>1, <2>2
<1> QED
  BY <1>1, <1>3, AssembledByRank

-----------------------------------------------------------------------------
(* What a step leaves alone.                                                *)

SameData(r) ==
  /\ take'[r] = take[r] /\ captured'[r] = captured[r] /\ cut'[r] = cut[r]
  /\ number'[r] = number[r] /\ parts'[r] = parts[r] /\ late'[r] = late[r]
  /\ Sent(r)' = Sent(r)

SameControl(r) ==
  /\ status'[r] = status[r] /\ error'[r] = error[r] /\ at'[r] = at[r]
  /\ mr'[r] = mr[r] /\ awaited'[r] = awaited[r]

\* Uploads are numbered upwards, and an object is written once.
StoreGoesOn ==
  /\ row.upload \in Nat /\ row'.upload \in Nat /\ row.upload <= row'.upload
  /\ \A u \in Uploads : object[u] # <<>> => object'[u] = object[u]

LEMMA WholeStays ==
  ASSUME NEW r, StoreGoesOn, take'[r] = take[r], captured'[r] = captured[r],
         \E u \in Uploads : Whole(object[u], r)
  PROVE  (\E u \in Uploads : Whole(object[u], r))'
<1>1. PICK u \in Uploads : Whole(object[u], r)
  OBVIOUS
<1>2. object'[u] = object[u]
  BY <1>1 DEF Whole, StoreGoesOn
<1>3. Whole(object[u], r)'
  BY <1>1, <1>2 DEF Whole
<1> QED
  BY <1>3 DEF Uploads

LEMMA OthersKeep ==
  ASSUME RecorderTypeOK, NEW r \in Recorders, TakeInv(r), SameData(r), SameControl(r), StoreGoesOn
  PROVE  TakeInv(r)'
<1>1. Pieces(r)' = Pieces(r)
  BY DEF SameData, Pieces, Piece
<1>2. Working(r)' = Working(r) /\ Over(r)' = Over(r)
  BY DEF SameControl, Working, Over
<1>3. Place(r)'
  BY DEF TakeInv, Place, SameControl
<1>4. Bounds(r)'
  BY <1>2 DEF TakeInv, Bounds, SameControl, SameData, StoreGoesOn, RecorderTypeOK
<1>5. Own(r)'
  BY <1>1 DEF TakeInv, Own
<1>6. Stands(r)'
  BY <1>2, WholeStays DEF TakeInv, Stands, SameControl, SameData
<1>7. Timely(r) => Timely(r)'
  BY DEF Timely, SameControl, SameData
<1>8. InOrder(r) => InOrder(r)'
  BY <1>1 DEF InOrder, InPlace, Apart, SameData
<1>9. NoneLost(r) => NoneLost(r)'
  BY <1>1, <1>2 DEF NoneLost, SameData, SameControl
<1> QED
  BY <1>3, <1>4, <1>5, <1>6, <1>7, <1>8, <1>9 DEF TakeInv, SameData

LEMMA ObjectsStay ==
  ASSUME RecorderTypeOK, ObjectsAreOneTake, object' = object,
         \A r \in Recorders : late[r] => late'[r]
  PROVE  ObjectsAreOneTake'
<1> SUFFICES ASSUME NEW u \in Uploads, NEW i \in DOMAIN object[u], i > 1,
                    ~late'[object[u][i].by]
             PROVE  Follows(object[u][i - 1], object[u][i])
  BY DEF ObjectsAreOneTake, Follows, Uploads
<1>1. object[u] \in Seq(Data)
  BY DEF RecorderTypeOK
<1>2. object[u][i].by \in Recorders
  <2>1. \A d \in Data : d.by \in Recorders
    BY DEF Data
  <2>2. object[u][i] \in Data
    <3> HIDE DEF Data
    <3> QED
      BY <1>1
  <2> QED
    BY <2>1, <2>2
<1> QED
  BY <1>2 DEF ObjectsAreOneTake

\* A step of r that moves no data.
LEMMA QuietStep ==
  ASSUME RecorderInv, RecorderTypeOK', NEW r \in Recorders,
         UNCHANGED <<take, captured, cut, number, parts, late, flights, bucket, open, object>>,
         row'.upload = row.upload,
         \A x \in Recorders \ {r} : SameControl(x),
         Place(r)', ~late[r] => Timely(r)',
         mr'[r] # "none" \/ Working(r)' => mr[r] # "none" \/ Working(r),
         at[r] = "flushing" => at'[r] = "flushing",
         Working(r)' /\ ~error'[r] => Working(r) /\ ~error[r],
         Over(r)' /\ ~error'[r] => Over(r) /\ ~error[r]
  PROVE  RecorderInv'
<1>1. \A x \in Recorders : SameData(x) /\ Pieces(x)' = Pieces(x)
  BY DEF SameData, Sent, Pieces, Piece
<1>2. StoreGoesOn
  BY DEF StoreGoesOn, RecorderInv, RecorderTypeOK, Uploads
<1>3. \A x \in Recorders \ {r} : TakeInv(x)'
  BY <1>1, <1>2, OthersKeep DEF RecorderInv
<1>4. TakeInv(r)'
  <2>1. TakeInv(r) /\ SameData(r) /\ Pieces(r)' = Pieces(r)
    BY <1>1 DEF RecorderInv
  <2>2. Bounds(r)'
    BY <2>1 DEF TakeInv, Bounds, SameData
  <2>3. Own(r)'
    BY <2>1 DEF TakeInv, Own
  <2>4. Stands(r)'
    BY <2>1, <1>2, WholeStays DEF TakeInv, Stands, SameData
  <2>5. InOrder(r) => InOrder(r)'
    BY <2>1 DEF InOrder, InPlace, Apart, SameData
  <2>6. NoneLost(r) => NoneLost(r)'
    BY <2>1 DEF NoneLost, SameData
  <2> QED
    BY <2>1, <2>2, <2>3, <2>4, <2>5, <2>6 DEF TakeInv
<1>5. FinalFlight'
  <2>1. \A f \in flights : f.by \in Recorders
    BY DEF RecorderInv, RecorderTypeOK, Flight
  <2>2. \A f \in flights : f.final => at'[f.by] = "flushing"
    BY <2>1 DEF FinalFlight, RecorderInv, SameControl
  <2> QED
    BY <2>2 DEF FinalFlight, RecorderInv
<1>6. Store' /\ ObjectsAreOneTake'
  BY ObjectsStay DEF Store, RecorderInv
<1> QED
  BY <1>3, <1>4, <1>5, <1>6 DEF RecorderInv

-----------------------------------------------------------------------------
(* The operations that move no data.                                        *)

LEMMA StartKeeps ==
  ASSUME RecorderInv, NEW r \in Recorders, Start(r)
  PROVE  RecorderInv'
<1>1. RecorderTypeOK'
  BY DEF RecorderInv, RecorderTypeOK, Start, Show, Goto, server, Status, StartPC, StopPC
<1>2. /\ UNCHANGED <<take, captured, cut, number, parts, late, flights, server>>
      /\ \A x \in Recorders \ {r} : SameControl(x)
  BY DEF Start, Show, Goto, SameControl, RecorderInv, RecorderTypeOK, server
<1>3. /\ status[r] \in {"idle", "error", "done"} /\ mr[r] = "none"
      /\ status'[r] = "starting" /\ at'[r] = "picking" /\ mr'[r] = "none" 
  BY DEF Start, Show, Goto, RecorderInv, RecorderTypeOK
<1>4. ~late[r] => Timely(r)'
  BY <1>2, <1>3 DEF Timely, Sent, RecorderInv, TakeInv, Place, StartPC
<1>5. Place(r)' /\ (at[r] = "flushing" => at'[r] = "flushing")
  BY <1>3 DEF RecorderInv, TakeInv, Place, StartPC
<1> QED
  BY <1>1, <1>2, <1>3, <1>4, <1>5, QuietStep
    DEF server, Working, Over, RecorderInv, TakeInv, Place, StartPC

LEMMA PickedKeeps ==
  ASSUME RecorderInv, NEW r \in Recorders, NEW micLive, Picked(r, micLive)
  PROVE  RecorderInv'
<1>1. RecorderTypeOK'
  BY DEF RecorderInv, RecorderTypeOK, Picked, Show, Goto, server, Status, StartPC, StopPC
<1>2. /\ UNCHANGED <<take, captured, cut, number, parts, late, flights, server>>
      /\ \A x \in Recorders \ {r} : SameControl(x)
  BY DEF Picked, Show, Goto, SameControl, RecorderInv, RecorderTypeOK, server
<1>3. /\ at[r] = "picking" /\ at'[r] \in {"initing", "miking"}
      /\ UNCHANGED <<status, error, mr, awaited>>
  BY DEF Picked, Show, Goto, RecorderInv, RecorderTypeOK
<1>4. ~late[r] => Timely(r)'
  BY <1>2, <1>3 DEF Timely, Sent, RecorderInv, TakeInv, Place, StartPC
<1>5. Place(r)' /\ (at[r] = "flushing" => at'[r] = "flushing")
  BY <1>3 DEF RecorderInv, TakeInv, Place, StartPC
<1> QED
  BY <1>1, <1>2, <1>3, <1>4, <1>5, QuietStep
    DEF server, Working, Over, RecorderInv, TakeInv, Place, StartPC

LEMMA MikedKeeps ==
  ASSUME RecorderInv, NEW r \in Recorders, Miked(r)
  PROVE  RecorderInv'
<1>1. RecorderTypeOK'
  BY DEF RecorderInv, RecorderTypeOK, Miked, Show, Goto, server, Status, StartPC, StopPC
<1>2. /\ UNCHANGED <<take, captured, cut, number, parts, late, flights, server>>
      /\ \A x \in Recorders \ {r} : SameControl(x)
  BY DEF Miked, Show, Goto, SameControl, RecorderInv, RecorderTypeOK, server
<1>3. /\ at[r] = "miking" /\ at'[r] = "initing"
      /\ UNCHANGED <<status, error, mr, awaited>>
  BY DEF Miked, Show, Goto, RecorderInv, RecorderTypeOK
<1>4. ~late[r] => Timely(r)'
  BY <1>2, <1>3 DEF Timely, Sent, RecorderInv, TakeInv, Place, StartPC
<1>5. Place(r)' /\ (at[r] = "flushing" => at'[r] = "flushing")
  BY <1>3 DEF RecorderInv, TakeInv, Place, StartPC
<1> QED
  BY <1>1, <1>2, <1>3, <1>4, <1>5, QuietStep
    DEF server, Working, Over, RecorderInv, TakeInv, Place, StartPC

LEMMA StopKeeps ==
  ASSUME RecorderInv, NEW r \in Recorders, Stop(r)
  PROVE  RecorderInv'
<1>1. RecorderTypeOK'
  BY DEF RecorderInv, RecorderTypeOK, Stop, Show, Goto, server, Status, StartPC, StopPC
<1>2. /\ UNCHANGED <<take, captured, cut, number, parts, late, flights, server>>
      /\ \A x \in Recorders \ {r} : SameControl(x)
  BY DEF Stop, Show, Goto, SameControl, RecorderInv, RecorderTypeOK, server
<1>3. /\ status[r] = "recording" /\ status'[r] = "stopping"
      /\ at'[r] = "settling" /\ mr'[r] = "stopping" /\ error'[r] = error[r]
  BY DEF Stop, Show, Goto, RecorderInv, RecorderTypeOK
<1>4. ~late[r] => Timely(r)'
  BY <1>2, <1>3 DEF Timely, Sent, RecorderInv, TakeInv, Place, StartPC
<1>5. Place(r)' /\ (at[r] = "flushing" => at'[r] = "flushing")
  BY <1>3 DEF RecorderInv, TakeInv, Place, StartPC
<1> QED
  BY <1>1, <1>2, <1>3, <1>4, <1>5, QuietStep
    DEF server, Working, Over, RecorderInv, TakeInv, Place, StartPC

LEMMA MarkKeeps ==
  ASSUME RecorderInv, NEW r \in Recorders, MarkChapter(r)
  PROVE  RecorderInv'
<1>1. RecorderTypeOK'
  BY DEF RecorderInv, RecorderTypeOK, MarkChapter, server, Status, StartPC, StopPC
<1>2. /\ UNCHANGED <<take, captured, cut, number, parts, late, flights, server>>
      /\ \A x \in Recorders \ {r} : SameControl(x)
  BY DEF MarkChapter, SameControl, RecorderInv, RecorderTypeOK, server
<1>3. UNCHANGED <<status, error, at, mr, awaited>>
  BY DEF MarkChapter, RecorderInv, RecorderTypeOK
<1>4. ~late[r] => Timely(r)'
  BY <1>2, <1>3 DEF Timely, Sent, RecorderInv, TakeInv, Place, StartPC
<1>5. Place(r)' /\ (at[r] = "flushing" => at'[r] = "flushing")
  BY <1>3 DEF RecorderInv, TakeInv, Place, StartPC
<1> QED
  BY <1>1, <1>2, <1>3, <1>4, <1>5, QuietStep
    DEF server, Working, Over, RecorderInv, TakeInv, Place, StartPC

LEMMA ChaptersSavedKeeps ==
  ASSUME RecorderInv, NEW r \in Recorders, ChaptersSaved(r)
  PROVE  RecorderInv'
<1>1. RecorderTypeOK'
  BY DEF RecorderInv, RecorderTypeOK, ChaptersSaved, Show, Goto, server, Status, StartPC, StopPC
<1>2. /\ UNCHANGED <<take, captured, cut, number, parts, late, flights, server>>
      /\ \A x \in Recorders \ {r} : SameControl(x)
  BY DEF ChaptersSaved, Show, Goto, SameControl, RecorderInv, RecorderTypeOK, server
<1>3. /\ at[r] = "chapters" /\ at'[r] = "idle" /\ status'[r] = "done"
      /\ UNCHANGED <<error, mr, awaited>>
  BY DEF ChaptersSaved, Show, Goto, RecorderInv, RecorderTypeOK
<1>4. ~late[r] => Timely(r)'
  BY <1>2, <1>3 DEF Timely, Sent, RecorderInv, TakeInv, Place, StartPC
<1>5. Place(r)' /\ (at[r] = "flushing" => at'[r] = "flushing")
  BY <1>3 DEF RecorderInv, TakeInv, Place, StartPC
<1> QED
  BY <1>1, <1>2, <1>3, <1>4, <1>5, QuietStep
    DEF server, Working, Over, RecorderInv, TakeInv, Place, StartPC

LEMMA UnmountKeeps ==
  ASSUME RecorderInv, NEW r \in Recorders, Unmount(r)
  PROVE  RecorderInv'
<1>1. RecorderTypeOK'
  BY DEF RecorderInv, RecorderTypeOK, Unmount, server, Status, StartPC, StopPC
<1>2. /\ UNCHANGED <<take, captured, cut, number, parts, late, flights, server>>
      /\ \A x \in Recorders \ {r} : SameControl(x)
  BY DEF Unmount, SameControl, RecorderInv, RecorderTypeOK, server
<1>3. /\ mr'[r] = IF mr[r] = "recording" THEN "stopping" ELSE mr[r]
      /\ UNCHANGED <<status, error, at, awaited>>
  BY DEF Unmount, RecorderInv, RecorderTypeOK
<1>4. ~late[r] => Timely(r)'
  BY <1>2, <1>3 DEF Timely, Sent, RecorderInv, TakeInv, Place, StartPC
<1>5. Place(r)' /\ (at[r] = "flushing" => at'[r] = "flushing")
  BY <1>3 DEF RecorderInv, TakeInv, Place, StartPC
<1> QED
  BY <1>1, <1>2, <1>3, <1>4, <1>5, QuietStep
    DEF server, Working, Over, RecorderInv, TakeInv, Place, StartPC

\* A step of start() or stop() fails, and nothing else has happened.
LEMMA FailsKeeps ==
  ASSUME RecorderInv, NEW r \in Recorders, Fails(r),
         at[r] \in {"picking", "miking", "initing", "completing", "chapters"},
         UNCHANGED <<mr, take, captured, cut, number, parts, awaited, marked, late>>,
         UNCHANGED <<flights, server>>, faults' \in 0..MaxFaults
  PROVE  RecorderInv'
<1>1. RecorderTypeOK'
  BY DEF RecorderInv, RecorderTypeOK, Fails, Show, Goto, server, Status, StartPC, StopPC
<1>2. /\ UNCHANGED <<take, captured, cut, number, parts, late, flights, server>>
      /\ \A x \in Recorders \ {r} : SameControl(x)
  BY DEF Fails, Show, Goto, SameControl, RecorderInv, RecorderTypeOK, server
<1>3. /\ status'[r] = "error" /\ error'[r] /\ at'[r] = "idle"
      /\ UNCHANGED <<mr, awaited>>
  BY DEF Fails, Show, Goto, RecorderInv, RecorderTypeOK
<1>4. ~late[r] => Timely(r)'
  BY <1>2, <1>3 DEF Timely, Sent, RecorderInv, TakeInv, Place, StartPC
<1>5. Place(r)' /\ (at[r] = "flushing" => at'[r] = "flushing")
  BY <1>3 DEF RecorderInv, TakeInv, Place, StartPC
<1> QED
  BY <1>1, <1>2, <1>3, <1>4, <1>5, QuietStep
    DEF server, Working, Over, RecorderInv, TakeInv, Place, StartPC

\* What is waited for when the 250 ms are over is everything in flight.
LEMMA SettledKeeps ==
  ASSUME RecorderInv, NEW r \in Recorders, Settled(r)
  PROVE  RecorderInv'
<1>1. \A f \in flights : f.n \in 1..MaxSlices /\ f.final \in BOOLEAN
  BY DEF RecorderInv, RecorderTypeOK, Flight
<1>2. /\ at[r] = "settling" /\ at'[r] = "draining" /\ awaited'[r] = InFlight(r)
      /\ UNCHANGED <<status, error, mr>>
  BY DEF Settled, Goto, Pending, RecorderInv, RecorderTypeOK
<1>3. /\ UNCHANGED <<take, captured, cut, number, parts, late, flights, server>>
      /\ \A x \in Recorders \ {r} : SameControl(x)
  BY DEF Settled, Goto, SameControl, RecorderInv, RecorderTypeOK, server
<1>4. RecorderTypeOK'
  <2>1. InFlight(r) \subseteq 1..MaxSlices
    BY <1>1 DEF InFlight
  <2>2. \A x \in Recorders : awaited'[x] \subseteq 1..MaxSlices
    BY <1>2, <1>3, <2>1 DEF RecorderInv, RecorderTypeOK, SameControl
  <2>3. at' \in [Recorders -> StartPC \cup StopPC \cup {"idle"}]
    BY DEF Settled, Goto, RecorderInv, RecorderTypeOK, StopPC
  <2> QED
    BY <2>2, <2>3 DEF RecorderInv, RecorderTypeOK, Settled, server
<1>5. ~late[r] => Timely(r)'
  <2> SUFFICES ASSUME ~late[r] PROVE Timely(r)'
    OBVIOUS
  <2>1. Timely(r) /\ InOrder(r) /\ status[r] = "stopping" /\ FinalFlight
    BY <1>2 DEF RecorderInv, TakeInv, Place
  <2>2. ASSUME NEW f \in Sent(r)
        PROVE  f.n \in InFlight(r)
    <3>1. Piece(f) \in Pieces(r) /\ f \in flights /\ f.by = r
      BY DEF Pieces, Sent
    <3>2. f.data.take = take[r]
      BY <2>1, <3>1 DEF InOrder, InPlace, Piece
    <3>3. ~f.final
      BY <1>2, <2>1, <3>1 DEF FinalFlight
    <3> QED
      BY <3>1, <3>2, <3>3 DEF InFlight
  <2> QED
    BY <1>2, <1>3, <2>1, <2>2 DEF Timely, Sent
<1>6. Place(r)'
  BY <1>2 DEF RecorderInv, TakeInv, Place, StartPC
<1> QED
  BY <1>2, <1>3, <1>4, <1>5, <1>6, QuietStep DEF server, Working, Over

\* The pipeline moves the row's status alone, and so does a retry.
LEMMA PipelineKeeps ==
  ASSUME RecorderInv, NEW r \in Recorders, Process \/ Retry
  PROVE  RecorderInv'
<1>1. PICK s \in RowStatus : row' = [row EXCEPT !.status = s]
  BY DEF Process, Retry, RowStatus
<1>2. UNCHANGED <<recorder, flights, bucket, open, object, faults>>
  BY DEF Process, Retry
<1>3. row' \in [status : RowStatus, upload : Uploads \cup {0}] /\ row'.upload = row.upload
  BY <1>1 DEF RecorderInv, RecorderTypeOK
<1>4. RecorderTypeOK'
  BY <1>2, <1>3 DEF RecorderInv, RecorderTypeOK, recorder
<1>5. /\ \A x \in Recorders \ {r} : SameControl(x)
      /\ (Place(r) => Place(r)') /\ (Timely(r) => Timely(r)')
  BY <1>2 DEF recorder, SameControl, Place, Timely, Sent
<1> QED
  BY <1>2, <1>3, <1>4, <1>5, QuietStep DEF recorder, Working, Over, RecorderInv, TakeInv

\* Nothing happens to the recorder, but perhaps a call of its page fails.
LEMMA StutterKeeps ==
  ASSUME RecorderInv, UNCHANGED <<recorder, flights, server>>, faults' \in 0..MaxFaults
  PROVE  RecorderInv'
BY DEF RecorderInv, RecorderTypeOK, FinalFlight, Store, ObjectsAreOneTake, Follows, TakeInv, Place,
       Bounds, Own, Stands, Over, Working, Whole, Timely, InOrder, InPlace, Apart, NoneLost, Pieces,
       Piece, Sent, recorder, server

-----------------------------------------------------------------------------
(* Parts in flight.                                                         *)

\* A flight that has its upload is the same piece of the same take.
LEMMA PartUrlKeeps ==
  ASSUME RecorderInv, NEW f \in flights, PartUrl(f)
  PROVE  RecorderInv'
<1> DEFINE g == [f EXCEPT !.upload = row.upload]
           r == f.by
<1>1. /\ f \in Flight /\ row.upload \in Uploads \cup {0} /\ r \in Recorders
      /\ flights' = (flights \ {f}) \cup {g}
      /\ UNCHANGED <<recorder, server, faults>>
  BY DEF RecorderInv, RecorderTypeOK, PartUrl, Flight
<1>2. /\ g \in Flight /\ g.by = f.by /\ g.n = f.n /\ g.data = f.data /\ g.final = f.final
  BY <1>1 DEF Flight
<1> HIDE DEF g, r
<1>3. RecorderTypeOK'
  BY <1>1, <1>2 DEF RecorderInv, RecorderTypeOK, recorder, server
<1>4. FinalFlight'
  BY <1>1, <1>2 DEF FinalFlight, RecorderInv, recorder
<1>5. Store' /\ ObjectsAreOneTake'
  BY <1>1, ObjectsStay DEF Store, RecorderInv, server, recorder
<1>6. StoreGoesOn /\ \A x \in Recorders : SameControl(x)
  BY <1>1 DEF StoreGoesOn, SameControl, RecorderInv, RecorderTypeOK, server, recorder, Uploads
<1>7. ASSUME NEW x \in Recorders, x # r
      PROVE  TakeInv(x)'
  <2>1. Sent(x)' = Sent(x)
    BY <1>1, <1>2, <1>7 DEF Sent, r
  <2>2. SameData(x)
    BY <1>1, <2>1 DEF SameData, recorder
  <2> QED
    BY <1>6, <2>2, OthersKeep DEF RecorderInv
<1>8. TakeInv(r)'
  <2>1. TakeInv(r) /\ Sent(r)' = (Sent(r) \ {f}) \cup {g} /\ f \in Sent(r)
    BY <1>1, <1>2 DEF Sent, r, RecorderInv
  <2>2. Piece(g) = Piece(f)
    BY <1>2 DEF Piece
  <2>3. Pieces(r)' = Pieces(r)
    BY <1>1, <2>1, <2>2 DEF Pieces, recorder, Piece
  <2>4. Timely(r) => Timely(r)'
    BY <1>1, <1>2, <2>1 DEF Timely, recorder
  <2>5. InOrder(r) => InOrder(r)'
    BY <1>1, <2>3 DEF InOrder, InPlace, Apart, recorder
  <2>6. NoneLost(r) => NoneLost(r)'
    BY <1>1, <2>3 DEF NoneLost, Working, recorder
  <2>7. Own(r)' /\ Place(r)'
    BY <1>1, <2>1, <2>3 DEF TakeInv, Own, Place, recorder
  <2>8. Bounds(r)' /\ Stands(r)'
    BY <1>1, <2>1 DEF TakeInv, Bounds, Stands, Working, Over, Whole, recorder, server, Uploads
  <2> QED
    BY <1>1, <2>1, <2>4, <2>5, <2>6, <2>7, <2>8 DEF TakeInv, recorder
<1> QED
  BY <1>3, <1>4, <1>5, <1>7, <1>8 DEF RecorderInv

\* A part replaces the one of its number.
LEMMA StoredKeeps ==
  ASSUME RecorderInv, NEW f \in flights, f.upload \in open
  PROVE  /\ \A b \in Stored(f) : b.upload \in Uploads /\ b.part \in Part
         /\ \A b, c \in Stored(f) : b.upload = c.upload /\ b.part.n = c.part.n => b.part = c.part
<1> DEFINE p == [n |-> f.n, data |-> f.data]
           s == [upload |-> f.upload, part |-> p]
<1>1. p \in Part /\ p.n = f.n /\ f.upload \in Uploads
  BY DEF RecorderInv, RecorderTypeOK, Flight, Part
<1>2. s.upload = f.upload /\ s.part = p
  OBVIOUS
<1>3. Stored(f) = {b \in bucket : ~(b.upload = f.upload /\ b.part.n = f.n)} \cup {s}
  BY DEF Stored
<1> HIDE DEF p, s
<1> QED
  BY <1>1, <1>2, <1>3 DEF RecorderInv, RecorderTypeOK, Store

\* A flight has come to its end, stored or not, told or not.
LEMMA FlightEnds ==
  ASSUME RecorderInv, RecorderTypeOK', NEW f \in flights, NEW r \in Recorders, r = f.by,
         flights' = flights \ {f},
         UNCHANGED <<take, captured, cut, number, late, mr, awaited, row, open, object>>,
         bucket' = bucket \/ (f.upload \in open /\ bucket' = Stored(f)),
         \A x \in Recorders \ {r} : SameControl(x) /\ parts'[x] = parts[x],
         \/ f.final /\ at'[r] = "completing" /\ status'[r] = "uploading"
         \/ f.final /\ at'[r] = "idle" /\ status'[r] = "error" /\ error'[r]
         \/ ~f.final /\ at'[r] = at[r] /\ status'[r] = status[r],
         \/ parts'[r] = parts[r] \cup {Piece(f)} /\ error'[r] = error[r]
         \/ parts'[r] = parts[r] /\ error'[r]
  PROVE  RecorderInv'
<1>1. StoreGoesOn /\ Store' /\ ObjectsAreOneTake'
  <2>1. StoreGoesOn
    BY DEF StoreGoesOn, RecorderInv, RecorderTypeOK, Uploads
  <2>2. \A b, c \in bucket' : b.upload = c.upload /\ b.part.n = c.part.n => b.part = c.part
    BY StoredKeeps DEF Store, RecorderInv
  <2>3. Store'
    BY <2>2 DEF Store, RecorderInv, Uploads
  <2>4. ObjectsAreOneTake'
    BY ObjectsStay DEF RecorderInv
  <2> QED
    BY <2>1, <2>3, <2>4
<1>2. \A g \in flights : g.by \in Recorders
  BY DEF RecorderInv, RecorderTypeOK, Flight
<1>3. FinalFlight'
  <2>1. ASSUME NEW g \in flights', g.final PROVE at'[g.by] = "flushing"
    <3>1. g \in flights /\ g # f /\ at[g.by] = "flushing"
      BY <2>1 DEF FinalFlight, RecorderInv
    <3>2. CASE g.by = r
      BY <2>1, <3>1, <3>2 DEF FinalFlight, RecorderInv
    <3>3. CASE g.by # r
      BY <1>2, <3>1, <3>3 DEF SameControl
    <3> QED
      BY <3>2, <3>3
  <2> QED
    BY <2>1 DEF FinalFlight, RecorderInv
<1>4. ASSUME NEW x \in Recorders, x # r
      PROVE  TakeInv(x)'
  <2>1. Sent(x)' = Sent(x)
    BY <1>4 DEF Sent
  <2>2. SameData(x) /\ SameControl(x)
    BY <1>4, <2>1 DEF SameData
  <2> QED
    BY <1>1, <2>2, OthersKeep DEF RecorderInv
<1>5. TakeInv(r)'
  <2>1. /\ TakeInv(r) /\ Sent(r)' = Sent(r) \ {f} /\ f \in Sent(r)
        /\ f.final => at[r] = "flushing"
    BY DEF Sent, RecorderInv, FinalFlight
  <2>2. /\ Pieces(r)' \subseteq Pieces(r)
        /\ ~error'[r] => Pieces(r)' = Pieces(r)
    BY <2>1 DEF Pieces, Piece
  <2>3. Place(r)'
    BY <2>1 DEF TakeInv, Place, StartPC
  <2>4. Bounds(r)'
    BY <2>1 DEF TakeInv, Bounds, Working, Place
  <2>5. Own(r)'
    BY <2>1, <2>2 DEF TakeInv, Own
  <2>6. Stands(r)'
    <3> SUFFICES ASSUME Over(r)', ~error'[r], ~late'[r] PROVE (\E u \in Uploads : Whole(object[u], r))'
      BY DEF Stands
    <3>1. Over(r) /\ ~error[r] /\ ~late[r]
      BY DEF Over
    <3> QED
      BY <1>1, <2>1, <3>1, WholeStays DEF TakeInv, Stands
  <2>7. ASSUME ~late[r] PROVE Timely(r)'
    <3>1. Timely(r)
      BY <2>1, <2>7 DEF TakeInv
    <3>2. CASE ~f.final
      BY <2>1, <3>1, <3>2 DEF Timely
    <3>3. CASE f.final
      <4>1. at[r] = "flushing" /\ \A g \in Sent(r) : g.final /\ g.by = f.by /\ g \in flights
        BY <2>1, <3>1, <3>3 DEF Timely, Sent
      <4>2. Sent(r)' = {}
        BY <2>1, <3>3, <4>1 DEF FinalFlight, RecorderInv
      <4> QED
        BY <3>1, <3>3, <4>1, <4>2 DEF Timely
    <3> QED
      BY <3>2, <3>3
  <2>8. InOrder(r) => InOrder(r)'
    BY <2>2 DEF InOrder, InPlace, Apart
  <2>9. NoneLost(r) => NoneLost(r)'
    BY <2>1, <2>2 DEF NoneLost, Working, TakeInv, Place
  <2> QED
    BY <2>1, <2>3, <2>4, <2>5, <2>6, <2>7, <2>8, <2>9 DEF TakeInv
<1> QED
  BY <1>1, <1>3, <1>4, <1>5 DEF RecorderInv

LEMMA PutPartKeeps ==
  ASSUME RecorderInv, NEW f \in flights, PutPart(f)
  PROVE  RecorderInv'
<1> DEFINE r == f.by
<1>1. /\ f \in Flight /\ r \in Recorders /\ Piece(f) \in Part
      /\ f.upload \in open /\ bucket' = Stored(f) /\ flights' = flights \ {f}
      /\ UNCHANGED <<error, mr, take, captured, cut, number, awaited, marked, late>>
      /\ UNCHANGED <<row, open, object, faults>>
      /\ parts' = [parts EXCEPT ![r] = @ \cup {Piece(f)}]
      /\ IF f.final THEN Goto(r, "completing") /\ Show(r, "uploading") ELSE UNCHANGED <<at, status>>
  BY DEF RecorderInv, RecorderTypeOK, Flight, Part, PutPart, Piece
<1> HIDE DEF r
<1>2. /\ parts' \in [Recorders -> SUBSET Part] /\ parts'[r] = parts[r] \cup {Piece(f)}
      /\ \A x \in Recorders \ {r} : parts'[x] = parts[x]
  BY <1>1 DEF RecorderInv, RecorderTypeOK
<1>3. /\ status' \in [Recorders -> Status] /\ at' \in [Recorders -> StartPC \cup StopPC \cup {"idle"}]
      /\ \A x \in Recorders \ {r} : status'[x] = status[x] /\ at'[x] = at[x]
      /\ f.final => at'[r] = "completing" /\ status'[r] = "uploading"
      /\ ~f.final => at'[r] = at[r] /\ status'[r] = status[r]
  BY <1>1 DEF RecorderInv, RecorderTypeOK, Goto, Show, StopPC, Status
<1>4. RecorderTypeOK'
  BY <1>1, <1>2, <1>3, StoredKeeps DEF RecorderInv, RecorderTypeOK
<1>5. \A x \in Recorders \ {r} : SameControl(x) /\ parts'[x] = parts[x]
  BY <1>1, <1>2, <1>3 DEF SameControl
<1> QED
  BY <1>1, <1>2, <1>3, <1>4, <1>5, FlightEnds DEF r

LEMMA PartFailsKeeps ==
  ASSUME RecorderInv, NEW f \in flights, PartFails(f)
  PROVE  RecorderInv'
<1> DEFINE r == f.by
<1>1. /\ f \in Flight /\ r \in Recorders /\ flights' = flights \ {f}
      /\ bucket' = bucket \/ (f.upload \in open /\ bucket' = Stored(f))
      /\ UNCHANGED <<mr, take, captured, cut, number, parts, awaited, marked, late>>
      /\ UNCHANGED <<row, open, object>>
      /\ error' = [error EXCEPT ![r] = TRUE]
      /\ IF f.final THEN Goto(r, "idle") /\ Show(r, "error") ELSE UNCHANGED <<at, status>>
  BY DEF RecorderInv, RecorderTypeOK, Flight, PartFails, Fails
<1>2. faults' \in 0..MaxFaults
  BY RecorderAssumption DEF RecorderInv, RecorderTypeOK, PartFails, Fault
<1> HIDE DEF r
<1>3. /\ status' \in [Recorders -> Status] /\ at' \in [Recorders -> StartPC \cup StopPC \cup {"idle"}]
      /\ error' \in [Recorders -> BOOLEAN] /\ error'[r]
      /\ \A x \in Recorders \ {r} : status'[x] = status[x] /\ at'[x] = at[x] /\ error'[x] = error[x]
      /\ f.final => at'[r] = "idle" /\ status'[r] = "error"
      /\ ~f.final => at'[r] = at[r] /\ status'[r] = status[r]
  BY <1>1 DEF RecorderInv, RecorderTypeOK, Goto, Show, StopPC, Status
<1>4. RecorderTypeOK'
  BY <1>1, <1>2, <1>3, StoredKeeps DEF RecorderInv, RecorderTypeOK
<1>5. \A x \in Recorders \ {r} : SameControl(x) /\ parts'[x] = parts[x]
  BY <1>1, <1>3 DEF SameControl
<1> QED
  BY <1>1, <1>3, <1>4, <1>5, FlightEnds DEF r

-----------------------------------------------------------------------------
(* Slices.                                                                  *)

Complete(r) == \A n \in 1..(number[r] - 1) : \E p \in Pieces(r) : p.n = n

\* What is cut from the buffer follows what was cut before.
LEMMA CutPreserves ==
  ASSUME RecorderInv, NEW r \in Recorders, NEW upto \in Nat, NEW final \in BOOLEAN,
         Cut(r, upto, final), cut[r] < upto, upto <= Slices[r], take[r] >= 1,
         UNCHANGED <<parts, take>>
  PROVE  /\ cut' \in [Recorders -> 0..MaxSlices] /\ number' \in [Recorders -> 1..(MaxSlices + 1)]
         /\ flights' \subseteq Flight
         /\ cut'[r] = upto /\ number'[r] = number[r] + 1 /\ number'[r] <= upto + 1
         /\ \A x \in Recorders \ {r} :
              cut'[x] = cut[x] /\ number'[x] = number[x] /\ Sent(x)' = Sent(x)
         /\ \E f \in flights' : f.by = r /\ f.final = final /\ flights' = flights \cup {f}
         /\ Own(r)' /\ (InOrder(r) => InOrder(r)') /\ (Complete(r) => Complete(r)')
<1>1. /\ MaxSlices \in Nat /\ MaxUploads \in Nat /\ Slices[r] \in Nat /\ Slices[r] <= MaxSlices
      /\ cut[r] \in Nat /\ number[r] \in Nat /\ number[r] >= 1 /\ number[r] <= cut[r] + 1
      /\ take[r] \in 0..MaxUploads /\ TakeInv(r)
  BY RecorderAssumption DEF RecorderInv, RecorderTypeOK, TakeInv, Bounds
<1>2. PICK d : d = [by |-> r, take |-> take[r], from |-> cut[r] + 1, to |-> upto]
  OBVIOUS
<1>3. PICK f : f = [by |-> r, n |-> number[r], final |-> final, upload |-> 0, data |-> d]
  OBVIOUS
<1>3a. d \in Data /\ f \in Flight
  <2>1. d \in Data
    BY <1>1, <1>2 DEF Data, Uploads
  <2> QED
    BY <1>1, <1>3, <2>1 DEF Flight
<1> DEFINE p == Piece(f)
<1>4. /\ f.by = r /\ f.final = final /\ p.n = number[r] /\ p.data = d
      /\ d.by = r /\ d.take = take[r] /\ d.from = cut[r] + 1 /\ d.to = upto
  BY <1>2, <1>3 DEF Piece
<1>5. /\ cut' = [cut EXCEPT ![r] = upto] /\ number' = [number EXCEPT ![r] = @ + 1]
      /\ flights' = flights \cup {f}
  BY <1>2, <1>3 DEF Cut
<1>6. /\ cut' \in [Recorders -> 0..MaxSlices] /\ number' \in [Recorders -> 1..(MaxSlices + 1)]
      /\ flights' \subseteq Flight
  BY <1>1, <1>3a, <1>5 DEF RecorderInv, RecorderTypeOK
<1>7. /\ cut'[r] = upto /\ number'[r] = number[r] + 1 /\ number'[r] <= upto + 1
      /\ \A x \in Recorders \ {r} : cut'[x] = cut[x] /\ number'[x] = number[x]
  BY <1>1, <1>5 DEF RecorderInv, RecorderTypeOK
<1>8. /\ Sent(r)' = Sent(r) \cup {f}
      /\ \A x \in Recorders \ {r} : Sent(x)' = Sent(x)
  BY <1>4, <1>5 DEF Sent
<1>9. Pieces(r)' = Pieces(r) \cup {p}
  BY <1>8 DEF Pieces, Piece
<1> HIDE DEF p
<1>10. Own(r)'
  BY <1>1, <1>4, <1>9 DEF TakeInv, Own
<1>11. ASSUME InOrder(r)
       PROVE  InOrder(r)'
  <2>1. \A q \in Pieces(r) : q.n \in Nat /\ q.data.from \in Nat /\ q.data.to \in Nat
    <3>1. \A g \in flights : g.n \in Nat /\ g.data.from \in Nat /\ g.data.to \in Nat
      BY DEF RecorderInv, RecorderTypeOK, Flight, Data
    <3>2. \A q \in parts[r] : q.n \in Nat /\ q.data.from \in Nat /\ q.data.to \in Nat
      BY DEF RecorderInv, RecorderTypeOK, Part, Data
    <3> QED
      BY <3>1, <3>2 DEF Pieces, Piece, Sent
  <2>2. InPlace(r, p)'
    BY <1>1, <1>4, <1>7, <1>11 DEF InPlace, InOrder
  <2>3. ASSUME NEW q \in Pieces(r)
        PROVE  InPlace(r, q)' /\ Apart(q, p) /\ Apart(p, q)
    <3>1. InPlace(r, q)
      BY <1>11 DEF InOrder
    <3>2. InPlace(r, q)'
      BY <1>1, <1>7, <2>1, <3>1 DEF InPlace
    <3>3. Apart(q, p) /\ Apart(p, q)
      <4>1. q.n < number[r] /\ q.data.to <= cut[r] /\ (q.n + 1 = number[r] => q.data.to = cut[r])
        BY <3>1 DEF InPlace
      <4>2. /\ q.n # p.n /\ ~(p.n < q.n) /\ p.n + 1 # q.n
            /\ q.data.to < p.data.from /\ (q.n + 1 = p.n => q.data.to + 1 = p.data.from)
        BY <1>1, <1>4, <2>1, <4>1
      <4> QED
        BY <4>2 DEF Apart
    <3> QED
      BY <3>2, <3>3
  <2>4. Apart(p, p)
    BY <1>1, <1>4 DEF Apart
  <2>5. \A q1, q2 \in Pieces(r)' : Apart(q1, q2)
    BY <1>9, <1>11, <2>3, <2>4 DEF InOrder
  <2> QED
    BY <1>1, <1>7, <1>9, <2>2, <2>3, <2>5 DEF InOrder, Apart
<1>12. ASSUME Complete(r)
       PROVE  Complete(r)'
  <2>1. \A n \in 1..number[r] : n = number[r] \/ n \in 1..(number[r] - 1)
    BY <1>1
  <2>2. \A n \in 1..number[r] : \E q \in Pieces(r)' : q.n = n
    BY <1>4, <1>9, <1>12, <2>1 DEF Complete
  <2>3. number'[r] - 1 = number[r]
    BY <1>1, <1>7
  <2> QED
    BY <2>2, <2>3 DEF Complete
<1> QED
  BY <1>4, <1>5, <1>6, <1>7, <1>8, <1>10, <1>11, <1>12

LEMMA ArrivesPreserves ==
  ASSUME RecorderInv, NEW r \in Recorders, Arrives(r), take[r] >= 1, UNCHANGED <<parts, take>>
  PROVE  /\ captured' \in [Recorders -> 0..MaxSlices] /\ cut' \in [Recorders -> 0..MaxSlices]
         /\ number' \in [Recorders -> 1..(MaxSlices + 1)] /\ flights' \subseteq Flight
         /\ cut'[r] <= captured'[r] /\ captured'[r] <= Slices[r] /\ number'[r] <= cut'[r] + 1
         /\ \A x \in Recorders \ {r} :
              /\ captured'[x] = captured[x] /\ cut'[x] = cut[x] /\ number'[x] = number[x]
              /\ Sent(x)' = Sent(x)
         /\ \A f \in flights' : f \in flights \/ (f.by = r /\ ~f.final)
         /\ flights \subseteq flights'
         /\ Own(r)' /\ (InOrder(r) => InOrder(r)') /\ (Complete(r) => Complete(r)')
<1>1. /\ MaxSlices \in Nat /\ Slices[r] \in Nat /\ Slices[r] <= MaxSlices
      /\ captured[r] \in Nat /\ cut[r] \in Nat /\ cut[r] <= captured[r] /\ captured[r] < Slices[r]
      /\ number[r] \in Nat /\ number[r] <= cut[r] + 1 /\ TakeInv(r) /\ PartMin \in Nat
  <2>1. captured[r] < Slices[r]
    BY DEF Arrives
  <2> QED
    BY <2>1, RecorderAssumption DEF RecorderInv, RecorderTypeOK, TakeInv, Bounds
<1> PICK c : c = captured[r] + 1
  OBVIOUS
<1>2. captured' = [captured EXCEPT ![r] = c]
  BY DEF Arrives
<1>3. /\ captured' \in [Recorders -> 0..MaxSlices] /\ captured'[r] = c
      /\ \A x \in Recorders \ {r} : captured'[x] = captured[x]
  BY <1>1, <1>2 DEF RecorderInv, RecorderTypeOK
<1>4. c \in Nat /\ cut[r] < c /\ c <= Slices[r]
  BY <1>1
<1>5. CASE captured[r] + 1 - cut[r] >= PartMin
  <2>1. Cut(r, c, FALSE)
    BY <1>5 DEF Arrives
  <2>2. /\ cut' \in [Recorders -> 0..MaxSlices] /\ number' \in [Recorders -> 1..(MaxSlices + 1)]
        /\ flights' \subseteq Flight
        /\ cut'[r] = c /\ number'[r] <= c + 1
        /\ \A x \in Recorders \ {r} :
             cut'[x] = cut[x] /\ number'[x] = number[x] /\ Sent(x)' = Sent(x)
        /\ \E f \in flights' : f.by = r /\ f.final = FALSE /\ flights' = flights \cup {f}
        /\ Own(r)' /\ (InOrder(r) => InOrder(r)') /\ (Complete(r) => Complete(r)')
    BY <1>4, <2>1, CutPreserves
  <2>3. (\A f \in flights' : f \in flights \/ (f.by = r /\ ~f.final)) /\ flights \subseteq flights'
    BY <2>2
  <2>4. cut'[r] <= captured'[r] /\ captured'[r] <= Slices[r] /\ number'[r] <= cut'[r] + 1
    BY <1>1, <1>3, <1>4, <2>2
  <2> QED
    BY <1>3, <2>2, <2>3, <2>4
<1>6. CASE ~(captured[r] + 1 - cut[r] >= PartMin)
  <2>1. UNCHANGED <<cut, number, flights>>
    BY <1>6 DEF Arrives
  <2>2. \A x \in Recorders : Sent(x)' = Sent(x) /\ Pieces(x)' = Pieces(x)
    BY <2>1 DEF Sent, Pieces, Piece
  <2>3. Own(r)' /\ (InOrder(r) => InOrder(r)') /\ (Complete(r) => Complete(r)')
    BY <1>1, <2>1, <2>2 DEF TakeInv, Own, InOrder, InPlace, Apart, Complete
  <2> QED
    BY <1>1, <1>3, <1>4, <2>1, <2>2, <2>3 DEF RecorderInv, RecorderTypeOK
<1> QED
  BY <1>5, <1>6

\* A slice comes while stop() still waits for it, or it is late.
LEMMA ArrivalKeeps ==
  ASSUME RecorderInv, NEW r \in Recorders, Arrives(r), mr[r] # "none",
         UNCHANGED <<status, error, at, take, parts, awaited, marked, server, faults>>,
         mr' \in [Recorders -> {"none", "recording", "stopping"}], mr'[r] \in {mr[r], "none"},
         late' \in [Recorders -> BOOLEAN],
         \A x \in Recorders \ {r} : mr'[x] = mr[x] /\ late'[x] = late[x],
         ~late'[r] => ~late[r] /\ (status[r] = "recording" \/ at[r] = "settling")
  PROVE  RecorderInv'
<1>1. TakeInv(r) /\ take[r] >= 1
  BY DEF RecorderInv, TakeInv, Bounds
<1>2. RecorderTypeOK'
  <2>1. \A x \in Recorders : cut'[x] <= captured'[x]
    BY <1>1, ArrivesPreserves DEF RecorderInv, RecorderTypeOK
  <2>2. /\ captured' \in [Recorders -> 0..MaxSlices] /\ cut' \in [Recorders -> 0..MaxSlices]
        /\ number' \in [Recorders -> 1..(MaxSlices + 1)] /\ flights' \subseteq Flight
    BY <1>1, ArrivesPreserves
  <2> QED
    BY <2>1, <2>2 DEF RecorderInv, RecorderTypeOK, server
<1>3. FinalFlight'
  <2>1. \A f \in flights' : f.final => f \in flights
    BY <1>1, ArrivesPreserves
  <2> QED
    BY <2>1 DEF FinalFlight, RecorderInv
<1>4. Store' /\ StoreGoesOn
  BY DEF Store, StoreGoesOn, RecorderInv, RecorderTypeOK, server, Uploads
<1>5. ObjectsAreOneTake'
  <2>1. \A x \in Recorders : late[x] => late'[x]
    BY DEF RecorderInv, RecorderTypeOK
  <2> QED
    BY <2>1, ObjectsStay DEF RecorderInv, server
<1>6. ASSUME NEW x \in Recorders, x # r
      PROVE  TakeInv(x)'
  <2>1. SameData(x) /\ SameControl(x)
    BY <1>1, <1>6, ArrivesPreserves DEF SameData, SameControl
  <2> QED
    BY <1>4, <2>1, OthersKeep DEF RecorderInv
<1>7. TakeInv(r)'
  <2>1. Place(r)'
    BY <1>1 DEF TakeInv, Place
  <2>2. Bounds(r)'
    BY <1>1, ArrivesPreserves DEF TakeInv, Bounds, Working, server
  <2>3. Own(r)' /\ (InOrder(r) => InOrder(r)') /\ (Complete(r) => Complete(r)')
    BY <1>1, ArrivesPreserves
  <2>4. ASSUME ~late'[r]
        PROVE  ~Over(r)' /\ Timely(r)' /\ InOrder(r)' /\ NoneLost(r)'
    <3>1. /\ status[r] \in {"recording", "stopping"}
          /\ at[r] \notin {"draining", "flushing", "completing", "chapters"}
      BY <1>1, <2>4 DEF TakeInv, Place
    <3>2. ~Over(r)' /\ Timely(r)'
      BY <3>1 DEF Over, Timely
    <3>3. InOrder(r) /\ NoneLost(r)
      BY <1>1, <2>4 DEF TakeInv
    <3>4. NoneLost(r)'
      BY <2>3, <3>3 DEF NoneLost, Complete, Working
    <3> QED
      BY <2>3, <3>2, <3>3, <3>4
  <2> QED
    BY <2>1, <2>2, <2>3, <2>4 DEF TakeInv, Stands
<1> QED
  BY <1>2, <1>3, <1>4, <1>5, <1>6, <1>7 DEF RecorderInv

LEMMA SliceKeeps ==
  ASSUME RecorderInv, NEW r \in Recorders, Slice(r)
  PROVE  RecorderInv'
<1>1. mr[r] = "recording" /\ status[r] = "recording"
  BY DEF Slice, RecorderInv, TakeInv, Place
<1> QED
  BY <1>1, ArrivalKeeps DEF Slice, RecorderInv, RecorderTypeOK

LEMMA LastSliceKeeps ==
  ASSUME RecorderInv, NEW r \in Recorders, LastSlice(r)
  PROVE  RecorderInv'
<1>1. /\ mr[r] = "stopping" /\ mr' = [mr EXCEPT ![r] = "none"]
      /\ UNCHANGED <<status, error, at, take, parts, awaited, marked, server, faults>>
  BY DEF LastSlice
<1>2. /\ mr' \in [Recorders -> {"none", "recording", "stopping"}] /\ mr'[r] = "none"
      /\ \A x \in Recorders \ {r} : mr'[x] = mr[x]
  BY <1>1 DEF RecorderInv, RecorderTypeOK
<1>3. CASE Arrives(r) /\ late' = [late EXCEPT ![r] = @ \/ at[r] # "settling"]
  <2>1. /\ late' \in [Recorders -> BOOLEAN] /\ \A x \in Recorders \ {r} : late'[x] = late[x]
        /\ ~late'[r] => ~late[r] /\ at[r] = "settling"
    BY <1>3 DEF RecorderInv, RecorderTypeOK
  <2> QED
    BY <1>1, <1>2, <1>3, <2>1, ArrivalKeeps
<1>4. CASE UNCHANGED <<captured, cut, number, flights, late>>
  <2>1. RecorderTypeOK'
    BY <1>1, <1>2, <1>4 DEF RecorderInv, RecorderTypeOK, server
  <2>2. \A x \in Recorders \ {r} : SameControl(x)
    BY <1>1, <1>2 DEF SameControl
  <2>3. Place(r)' /\ (~late[r] => Timely(r)')
    BY <1>1, <1>2, <1>4 DEF RecorderInv, TakeInv, Place, Timely, Sent
  <2> QED
    BY <1>1, <1>2, <1>4, <2>1, <2>2, <2>3, QuietStep DEF server, Working, Over
<1> QED
  BY <1>3, <1>4 DEF LastSlice

\* Nothing is in flight any more when what was waited for has come.
LEMMA DrainedIsEmpty ==
  ASSUME RecorderInv, NEW r \in Recorders, at[r] = "draining",
         awaited[r] \cap InFlight(r) = {}, ~late[r]
  PROVE  Sent(r) = {}
<1> SUFFICES ASSUME NEW f \in Sent(r) PROVE FALSE
  OBVIOUS
<1>1. Timely(r) /\ InOrder(r) /\ FinalFlight
  BY DEF RecorderInv, TakeInv
<1>2. f \in flights /\ f.by = r /\ Piece(f) \in Pieces(r) /\ f.n \in awaited[r]
  BY <1>1 DEF Sent, Pieces, Timely
<1>3. f.data.take = take[r] /\ ~f.final
  BY <1>1, <1>2 DEF InOrder, InPlace, Piece, FinalFlight
<1> QED
  BY <1>2, <1>3 DEF InFlight

LEMMA DrainedKeeps ==
  ASSUME RecorderInv, NEW r \in Recorders, Drained(r)
  PROVE  RecorderInv'
<1>1. /\ at[r] = "draining" /\ awaited' = [awaited EXCEPT ![r] = {}]
      /\ ~late[r] => Sent(r) = {}
      /\ UNCHANGED <<error, mr, take, captured, parts, marked, late, server, faults>>
  BY DrainedIsEmpty DEF Drained
<1>2. /\ awaited' \in [Recorders -> SUBSET (1..MaxSlices)]
      /\ \A x \in Recorders \ {r} : awaited'[x] = awaited[x]
  BY <1>1 DEF RecorderInv, RecorderTypeOK
<1>3. TakeInv(r) /\ status[r] = "stopping" /\ take[r] >= 1 /\ Slices[r] \in Nat
      /\ cut[r] \in Nat /\ captured[r] \in Nat /\ cut[r] <= captured[r] /\ captured[r] <= Slices[r]
  <2>1. TakeInv(r) /\ status[r] = "stopping"
    BY <1>1 DEF RecorderInv, TakeInv, Place
  <2> QED
    BY <2>1, RecorderAssumption DEF RecorderInv, RecorderTypeOK, TakeInv, Bounds, Working
<1>4. CASE cut[r] < captured[r]
  <2> PICK c : c = captured[r]
    OBVIOUS
  <2>1. Cut(r, c, TRUE) /\ at' = [at EXCEPT ![r] = "flushing"] /\ UNCHANGED status
    BY <1>4 DEF Drained, Goto
  <2>2. /\ at' \in [Recorders -> StartPC \cup StopPC \cup {"idle"}] /\ at'[r] = "flushing"
        /\ \A x \in Recorders \ {r} : at'[x] = at[x]
    BY <2>1 DEF RecorderInv, RecorderTypeOK, StopPC
  <2>3. /\ cut' \in [Recorders -> 0..MaxSlices] /\ number' \in [Recorders -> 1..(MaxSlices + 1)]
        /\ flights' \subseteq Flight
        /\ cut'[r] = c /\ number'[r] <= c + 1
        /\ \A x \in Recorders \ {r} :
             cut'[x] = cut[x] /\ number'[x] = number[x] /\ Sent(x)' = Sent(x)
        /\ \E f \in flights' : f.by = r /\ f.final = TRUE /\ flights' = flights \cup {f}
        /\ Own(r)' /\ (InOrder(r) => InOrder(r)') /\ (Complete(r) => Complete(r)')
    BY <1>1, <1>3, <1>4, <2>1, CutPreserves
  <2>4. PICK f \in flights' : f.by = r /\ f.final /\ flights' = flights \cup {f}
    BY <2>3
  <2>5. RecorderTypeOK'
    <3>1. ASSUME NEW x \in Recorders PROVE cut'[x] <= captured'[x]
      <4>1. CASE x = r
        BY <1>1, <1>3, <2>3, <4>1
      <4>2. CASE x # r
        BY <1>1, <2>3, <4>2 DEF RecorderInv, RecorderTypeOK
      <4> QED
        BY <4>1, <4>2
    <3> QED
      BY <1>1, <1>2, <2>1, <2>2, <2>3, <3>1 DEF RecorderInv, RecorderTypeOK, server
  <2>6. Store' /\ StoreGoesOn /\ ObjectsAreOneTake'
    BY <1>1, ObjectsStay DEF Store, StoreGoesOn, RecorderInv, RecorderTypeOK, server, Uploads
  <2>7. FinalFlight'
    <3>1. \A g \in flights : g.by \in Recorders /\ (g.final => g.by # r /\ at[g.by] = "flushing")
      BY <1>1 DEF FinalFlight, RecorderInv, RecorderTypeOK, Flight
    <3> QED
      BY <2>2, <2>4, <3>1 DEF FinalFlight, RecorderInv
  <2>8. ASSUME NEW x \in Recorders, x # r
        PROVE  TakeInv(x)'
    <3>1. SameData(x) /\ SameControl(x)
      BY <1>1, <1>2, <2>1, <2>2, <2>3, <2>8 DEF SameData, SameControl
    <3> QED
      BY <2>6, <3>1, OthersKeep DEF RecorderInv
  <2>9. TakeInv(r)'
    <3>1. Place(r)'
      BY <1>1, <1>3, <2>1, <2>2 DEF TakeInv, Place, StartPC
    <3>2. Bounds(r)'
      BY <1>1, <1>3, <2>3 DEF TakeInv, Bounds, server
    <3>3. ~Over(r)'
      BY <1>3, <2>1, <2>2 DEF Over
    <3>4. ASSUME ~late[r]
          PROVE  Timely(r)' /\ InOrder(r)' /\ NoneLost(r)'
      <4>1. Sent(r)' = {f}
        BY <1>1, <2>4, <3>4 DEF Sent
      <4>2. Timely(r)'
        BY <1>1, <1>3, <2>1, <2>2, <2>3, <2>4, <4>1 DEF Timely
      <4>3. InOrder(r) /\ NoneLost(r)
        BY <1>3, <3>4 DEF TakeInv
      <4>4. NoneLost(r)'
        BY <1>1, <1>3, <2>1, <2>3, <4>3 DEF NoneLost, Complete, Working
      <4> QED
        BY <2>3, <4>2, <4>3, <4>4
    <3> QED
      BY <1>1, <2>3, <3>1, <3>2, <3>3, <3>4 DEF TakeInv, Stands
  <2> QED
    BY <2>5, <2>6, <2>7, <2>8, <2>9 DEF RecorderInv
<1>5. CASE ~(cut[r] < captured[r])
  <2>1. /\ at' = [at EXCEPT ![r] = "completing"] /\ status' = [status EXCEPT ![r] = "uploading"]
        /\ UNCHANGED <<cut, number, flights>>
    BY <1>5 DEF Drained, Goto, Show
  <2>2. /\ at' \in [Recorders -> StartPC \cup StopPC \cup {"idle"}] /\ at'[r] = "completing"
        /\ status' \in [Recorders -> Status] /\ status'[r] = "uploading"
        /\ \A x \in Recorders \ {r} : at'[x] = at[x] /\ status'[x] = status[x]
    BY <2>1 DEF RecorderInv, RecorderTypeOK, StopPC, Status
  <2>3. RecorderTypeOK'
    BY <1>1, <1>2, <2>1, <2>2 DEF RecorderInv, RecorderTypeOK, server
  <2>4. \A x \in Recorders \ {r} : SameControl(x)
    BY <1>1, <1>2, <2>2 DEF SameControl
  <2>5. cut[r] = captured[r]
    BY <1>3, <1>5
  <2>6. Place(r)' /\ (~late[r] => Timely(r)')
    BY <1>1, <1>3, <2>1, <2>2, <2>5 DEF Place, TakeInv, Timely, Sent, StartPC
  <2> QED
    BY <1>1, <1>3, <2>1, <2>2, <2>3, <2>4, <2>6, QuietStep DEF server, Working, Over
<1> QED
  BY <1>4, <1>5

-----------------------------------------------------------------------------
(* Uploads: begun, completed, or refused.                                   *)

\* start(), stop() or a call of theirs fails after what it did to the store.
LEMMA FailsTake ==
  ASSUME RecorderTypeOK, NEW r \in Recorders, TakeInv(r), SameData(r), StoreGoesOn, Fails(r),
         at[r] \in {"initing", "completing"}, mr'[r] = mr[r], awaited'[r] = awaited[r]
  PROVE  TakeInv(r)' /\ \A x \in Recorders \ {r} :
           status'[x] = status[x] /\ at'[x] = at[x] /\ error'[x] = error[x]
<1>1. /\ status'[r] = "error" /\ error'[r] /\ at'[r] = "idle"
      /\ \A x \in Recorders \ {r} : status'[x] = status[x] /\ at'[x] = at[x] /\ error'[x] = error[x]
  BY DEF Fails, Show, Goto, RecorderTypeOK
<1>2. Pieces(r)' = Pieces(r)
  BY DEF SameData, Pieces, Piece
<1>3. Place(r)'
  BY <1>1 DEF TakeInv, Place, StartPC
<1>4. Bounds(r)'
  BY <1>1 DEF TakeInv, Bounds, SameData, StoreGoesOn, RecorderTypeOK, Working
<1>5. Own(r)' /\ Stands(r)'
  BY <1>1, <1>2 DEF TakeInv, Own, Stands
<1>6. ASSUME ~late[r]
      PROVE  Timely(r)' /\ InOrder(r)' /\ NoneLost(r)'
  <2>1. Timely(r) /\ InOrder(r) /\ status[r] \in {"starting", "uploading"}
    BY <1>6 DEF TakeInv, Place, StartPC
  <2>2. Timely(r)'
    BY <1>1, <2>1 DEF Timely, SameData
  <2>3. InOrder(r)'
    BY <1>2, <2>1 DEF InOrder, InPlace, Apart, SameData
  <2> QED
    BY <1>1, <2>2, <2>3 DEF NoneLost
<1> QED
  BY <1>1, <1>3, <1>4, <1>5, <1>6 DEF TakeInv, SameData

LEMMA UploadOpens ==
  ASSUME RecorderInv, InitUpload, UNCHANGED late
  PROVE  /\ row' \in [status : RowStatus, upload : Uploads \cup {0}] /\ row'.upload = row.upload + 1
         /\ open' \subseteq Uploads /\ UNCHANGED <<bucket, object>>
         /\ Store' /\ StoreGoesOn /\ ObjectsAreOneTake'
<1>1. row.upload \in Nat /\ row.upload + 1 \in Uploads /\ Uploads \subseteq Nat
  BY RecorderAssumption DEF RecorderInv, RecorderTypeOK, InitUpload, Uploads
<1>2. /\ row' = [status |-> "UPLOADING", upload |-> row.upload + 1]
      /\ open' = open \cup {row.upload + 1} /\ UNCHANGED <<bucket, object>>
  BY DEF InitUpload
<1>3. /\ row' \in [status : RowStatus, upload : Uploads \cup {0}] /\ row'.upload = row.upload + 1
      /\ open' \subseteq Uploads
  BY <1>1, <1>2 DEF RowStatus, RecorderInv, RecorderTypeOK
<1>4. StoreGoesOn
  BY <1>1, <1>2, <1>3 DEF StoreGoesOn
<1>5. Store'
  <2>1. open \subseteq Nat /\ \A u \in open : u <= row.upload
    BY <1>1 DEF RecorderInv, RecorderTypeOK, Store
  <2>2. \A u \in open' : u <= row'.upload
    BY <1>1, <1>2, <1>3, <2>1
  <2>3. \A u \in Uploads : object[u] # <<>> => u \notin open' /\ u <= row'.upload
    BY <1>1, <1>2, <1>3 DEF RecorderInv, Store
  <2> QED
    BY <1>2, <2>2, <2>3 DEF Store, RecorderInv, Uploads
<1>6. ObjectsAreOneTake'
  BY <1>2, ObjectsStay DEF RecorderInv
<1> QED
  BY <1>2, <1>3, <1>4, <1>5, <1>6

LEMMA InitedKeeps ==
  ASSUME RecorderInv, NEW r \in Recorders, Inited(r)
  PROVE  RecorderInv'
<1>1. /\ at[r] = "initing" /\ InitUpload /\ FreshRefs(r)
      /\ UNCHANGED <<error, awaited, marked, late, flights, faults>>
      /\ mr' = [mr EXCEPT ![r] = "recording"] /\ status' = [status EXCEPT ![r] = "recording"]
      /\ at' = [at EXCEPT ![r] = "idle"]
  BY DEF Inited, Show, Goto
<1>2. /\ row' \in [status : RowStatus, upload : Uploads \cup {0}] /\ row'.upload = row.upload + 1
      /\ open' \subseteq Uploads /\ UNCHANGED <<bucket, object>>
      /\ Store' /\ StoreGoesOn /\ ObjectsAreOneTake'
  BY <1>1, UploadOpens
<1>3. /\ mr' \in [Recorders -> {"none", "recording", "stopping"}] /\ mr'[r] = "recording"
      /\ status' \in [Recorders -> Status] /\ status'[r] = "recording"
      /\ at' \in [Recorders -> StartPC \cup StopPC \cup {"idle"}] /\ at'[r] = "idle"
      /\ \A x \in Recorders \ {r} : mr'[x] = mr[x] /\ status'[x] = status[x] /\ at'[x] = at[x]
  BY <1>1 DEF RecorderInv, RecorderTypeOK, Status
<1>4. TakeInv(r) /\ take[r] <= row.upload /\ row.upload \in Nat /\ row'.upload <= MaxUploads
      /\ take[r] \in Nat /\ MaxUploads \in Nat /\ MaxSlices \in Nat /\ Slices[r] \in Nat
  BY <1>2, RecorderAssumption DEF RecorderInv, RecorderTypeOK, TakeInv, Bounds, Uploads
<1>5. /\ take' \in [Recorders -> 0..MaxUploads] /\ take'[r] = take[r] + 1
      /\ parts' \in [Recorders -> SUBSET Part] /\ parts'[r] = {}
      /\ number' \in [Recorders -> 1..(MaxSlices + 1)] /\ number'[r] = 1
      /\ captured' \in [Recorders -> 0..MaxSlices] /\ captured'[r] = 0
      /\ cut' \in [Recorders -> 0..MaxSlices] /\ cut'[r] = 0
      /\ \A x \in Recorders \ {r} :
           /\ take'[x] = take[x] /\ parts'[x] = parts[x] /\ number'[x] = number[x]
           /\ captured'[x] = captured[x] /\ cut'[x] = cut[x]
  <2>1. /\ take' = [take EXCEPT ![r] = @ + 1] /\ parts' = [parts EXCEPT ![r] = {}]
        /\ number' = [number EXCEPT ![r] = 1] /\ captured' = [captured EXCEPT ![r] = 0]
        /\ cut' = [cut EXCEPT ![r] = 0]
    BY <1>1 DEF FreshRefs
  <2> QED
    BY <1>2, <1>4, <2>1 DEF RecorderInv, RecorderTypeOK
<1>6. RecorderTypeOK'
  <2>1. ASSUME NEW x \in Recorders PROVE cut'[x] <= captured'[x]
    <3>1. CASE x = r
      BY <1>5, <3>1
    <3>2. CASE x # r
      BY <1>5, <3>2 DEF RecorderInv, RecorderTypeOK
    <3> QED
      BY <3>1, <3>2
  <2> QED
    BY <1>1, <1>2, <1>3, <1>5, <2>1 DEF RecorderInv, RecorderTypeOK
<1>7. FinalFlight'
  <2>1. \A g \in flights : g.by \in Recorders /\ (g.final => g.by # r /\ at[g.by] = "flushing")
    BY <1>1 DEF FinalFlight, RecorderInv, RecorderTypeOK, Flight
  <2> QED
    BY <1>1, <1>3, <2>1 DEF FinalFlight, RecorderInv
<1>8. ASSUME NEW x \in Recorders, x # r
      PROVE  TakeInv(x)'
  <2>1. SameData(x) /\ SameControl(x)
    BY <1>1, <1>3, <1>5, <1>8 DEF SameData, SameControl, Sent
  <2> QED
    BY <1>2, <2>1, OthersKeep DEF RecorderInv
<1>9. TakeInv(r)'
  <2>1. Sent(r)' = Sent(r) /\ Pieces(r)' \subseteq Pieces(r)
    BY <1>1, <1>5 DEF Sent, Pieces, Piece
  <2>2. Place(r)' /\ ~Over(r)'
    BY <1>3 DEF Place, Over, StartPC
  <2>3. Bounds(r)'
    BY <1>2, <1>4, <1>5 DEF Bounds
  <2>4. Own(r)'
    BY <1>4, <2>1 DEF TakeInv, Own
  <2>5. ASSUME ~late[r]
        PROVE  Timely(r)' /\ InOrder(r)' /\ NoneLost(r)'
    <3>1. Sent(r) = {}
      BY <1>1, <1>4, <2>5 DEF TakeInv, Timely, Place, StartPC
    <3>2. Pieces(r)' = {} /\ Sent(r)' = {}
      BY <1>5, <2>1, <3>1 DEF Pieces
    <3> QED
      BY <1>3, <1>5, <3>2 DEF Timely, InOrder, NoneLost
  <2> QED
    BY <1>1, <2>2, <2>3, <2>4, <2>5 DEF TakeInv, Stands
<1> QED
  BY <1>2, <1>6, <1>7, <1>8, <1>9 DEF RecorderInv

\* What an upload is completed to is in order, and is the take unless the take
\* has lost a part or had a slice too late.
LEMMA UploadCompletes ==
  ASSUME RecorderInv, NEW r \in Recorders, at[r] = "completing", CompleteUpload(r),
         UNCHANGED <<late, take, captured>>
  PROVE  /\ row' \in [status : RowStatus, upload : Uploads \cup {0}] /\ row'.upload = row.upload
         /\ open' \subseteq Uploads /\ UNCHANGED bucket /\ object' \in [Uploads -> Seq(Data)]
         /\ Store' /\ StoreGoesOn /\ ObjectsAreOneTake'
         /\ ~late[r] /\ ~error[r] => (\E u \in Uploads : Whole(object[u], r))'
<1> PICK u : u = row.upload
  OBVIOUS
<1> PICK ps : ps = parts[r]
  OBVIOUS
<1> PICK o : o = Assembled(ps)
  OBVIOUS
<1>1. /\ Accepted(ps, u) /\ open' = open \ {u} /\ bucket' = bucket
      /\ object' = [object EXCEPT ![u] = o] /\ row' = [row EXCEPT !.status = "PROCESSING"]
  BY DEF CompleteUpload
<1>2. /\ u \in open /\ u \in Uploads /\ ps \in SUBSET Part /\ ps # {} /\ MaxSlices \in Nat
      /\ TakeInv(r) /\ ps \subseteq Pieces(r)
  BY <1>1, RecorderAssumption DEF Accepted, RecorderInv, RecorderTypeOK, Pieces
<1>3. OneEach(ps)
  <2> SUFFICES ASSUME NEW p \in ps, NEW q \in ps, p.n = q.n PROVE p = q
    BY DEF OneEach
  <2> PICK b : b = [upload |-> u, part |-> p]
    OBVIOUS
  <2> PICK c : c = [upload |-> u, part |-> q]
    OBVIOUS
  <2>1. b \in bucket /\ c \in bucket
    BY <1>1 DEF Accepted
  <2>2. b.upload = c.upload /\ b.part = p /\ c.part = q
    OBVIOUS
  <2> QED
    BY <2>1, <2>2 DEF RecorderInv, Store
<1>4. /\ o \in Seq(Data) /\ Len(o) = Cardinality(ps)
      /\ \A i \in 1..Cardinality(ps) : \E p \in ps : o[i] = p.data /\ Rank(p, ps) = i - 1
      /\ IsFiniteSet(ps) /\ Cardinality(ps) \in Nat
  BY <1>2, <1>3, AssembledByRank
<1>5. /\ row' \in [status : RowStatus, upload : Uploads \cup {0}] /\ row'.upload = row.upload
      /\ open' \subseteq Uploads
  BY <1>1 DEF RecorderInv, RecorderTypeOK, RowStatus
<1>6. /\ object' \in [Uploads -> Seq(Data)] /\ object'[u] = o
      /\ \A v \in Uploads \ {u} : object'[v] = object[v]
  BY <1>1, <1>2, <1>4 DEF RecorderInv, RecorderTypeOK
<1>7. StoreGoesOn
  <2>1. object[u] = <<>>
    BY <1>2 DEF RecorderInv, Store
  <2> QED
    BY <1>5, <1>6, <2>1 DEF StoreGoesOn, RecorderInv, RecorderTypeOK, Uploads
<1>8. Store'
  <2>1. \A v \in open' : v <= row'.upload
    BY <1>1, <1>5 DEF RecorderInv, Store
  <2>2. ASSUME NEW v \in Uploads, object'[v] # <<>>
        PROVE  v \notin open' /\ v <= row'.upload
    <3>1. CASE v = u
      BY <1>1, <1>2, <1>5, <3>1 DEF RecorderInv, Store
    <3>2. CASE v # u
      BY <1>1, <1>5, <1>6, <2>2, <3>2 DEF RecorderInv, Store
    <3> QED
      BY <3>1, <3>2
  <2> QED
    BY <1>1, <2>1, <2>2 DEF Store, RecorderInv, Uploads
<1>9. \A p \in ps : p.n \in Nat /\ p.data.by = r
  BY <1>2 DEF Part, TakeInv, Own
<1>10. ObjectsAreOneTake'
  <2> SUFFICES ASSUME NEW v \in Uploads, NEW i \in DOMAIN object'[v], i > 1,
                      ~late'[object'[v][i].by]
               PROVE  Follows(object'[v][i - 1], object'[v][i])
    BY DEF ObjectsAreOneTake, Follows, Uploads
  <2>1. CASE v # u
    <3>1. object'[v] = object[v]
      BY <1>6, <2>1
    <3> QED
      BY <3>1 DEF RecorderInv, ObjectsAreOneTake
  <2>2. CASE v = u
    <3>1. i \in 1..Cardinality(ps) /\ i - 1 \in 1..Cardinality(ps) /\ object'[v] = o
      BY <1>4, <1>6, <2>2
    <3>2. PICK p \in ps : o[i - 1] = p.data /\ Rank(p, ps) = (i - 1) - 1
      BY <1>4, <3>1
    <3>3. PICK q \in ps : o[i] = q.data /\ Rank(q, ps) = i - 1
      BY <1>4, <3>1
    <3>4. p.n < q.n
      <4>1. ~(q.n <= p.n)
        <5>1. ~(Rank(q, ps) <= Rank(p, ps))
          BY <3>1, <3>2, <3>3
        <5> QED
          BY <1>4, <1>9, <5>1, RankBelow
      <4> QED
        BY <1>9, <4>1
    <3>5. ~late[r]
      BY <1>9, <3>1, <3>3
    <3>6. InPlace(r, p) /\ InPlace(r, q) /\ Apart(p, q)
      BY <1>2, <3>5 DEF TakeInv, InOrder
    <3> QED
      BY <1>9, <3>1, <3>2, <3>3, <3>4, <3>6 DEF InPlace, Apart, Follows
  <2> QED
    BY <2>1, <2>2
<1>11. ASSUME ~late[r], ~error[r]
       PROVE  (\E v \in Uploads : Whole(object[v], r))'
  <2> DEFINE K == number[r] - 1
  <2>1. /\ Timely(r) /\ InOrder(r) /\ NoneLost(r) /\ Working(r) /\ status[r] = "uploading"
    BY <1>2, <1>11 DEF TakeInv, Place, Working
  <2>2. ps = Pieces(r) /\ cut[r] = captured[r]
    BY <2>1 DEF Timely, Pieces
  <2>3. K \in Nat /\ number[r] = K + 1 /\ \A n \in 1..K : \E p \in ps : p.n = n
    BY <1>11, <2>1, <2>2 DEF NoneLost, RecorderInv, RecorderTypeOK
  <2>4. \A p \in ps : p.n \in 1..K
    BY <1>2, <2>1, <2>2, <2>3 DEF InOrder, InPlace, Part
  <2> HIDE DEF K
  <2>5. Len(o) = K /\ \A i \in 1..K : \E p \in ps : o[i] = p.data /\ p.n = i
    <3>1. ps \in SUBSET Part /\ MaxSlices \in Nat
      BY <1>2
    <3>2. K \in Nat /\ \A n \in 1..K : \E p \in ps : p.n = n
      BY <2>3
    <3>3. Len(Assembled(ps)) = K /\ \A i \in 1..K : \E p \in ps : Assembled(ps)[i] = p.data /\ p.n = i
      BY <1>3, <2>4, <3>1, <3>2, AssembledByNumber
    <3> QED
      BY <3>3
  <2>6. K >= 1
    BY <1>2, <2>3, <2>4
  <2>7. o # <<>>
    BY <2>5, <2>6
  <2>8. o[1].by = r /\ o[1].take = take[r] /\ o[1].from = 1
    <3>1. 1 \in 1..K
      BY <2>3, <2>6
    <3>2. PICK p \in ps : o[1] = p.data /\ p.n = 1
      BY <2>5, <3>1
    <3> QED
      BY <1>9, <2>1, <2>2, <3>2 DEF InOrder, InPlace
  <2>9. o[Len(o)].to = captured[r]
    <3>1. PICK p \in ps : o[K] = p.data /\ p.n = K
      BY <2>3, <2>5, <2>6
    <3>2. p.n + 1 = number[r]
      BY <2>3, <3>1
    <3> QED
      BY <2>1, <2>2, <2>5, <3>1, <3>2 DEF InOrder, InPlace
  <2>10. ASSUME NEW i \in 2..Len(o)
         PROVE  o[i].from = o[i - 1].to + 1
    <3>1. i \in 1..K /\ i - 1 \in 1..K /\ (i - 1) + 1 = i
      BY <2>3, <2>5
    <3>2. PICK p \in ps : o[i - 1] = p.data /\ p.n = i - 1
      BY <2>5, <3>1
    <3>3. PICK q \in ps : o[i] = q.data /\ q.n = i
      BY <2>5, <3>1
    <3> QED
      BY <2>1, <2>2, <3>1, <3>2, <3>3 DEF InOrder, Apart
  <2>11. Whole(object[u], r)'
    BY <1>6, <2>7, <2>8, <2>9, <2>10 DEF Whole
  <2> QED
    BY <1>2, <2>11 DEF Uploads
<1> QED
  BY <1>1, <1>5, <1>6, <1>7, <1>8, <1>10, <1>11

LEMMA CompletedKeeps ==
  ASSUME RecorderInv, NEW r \in Recorders, Completed(r)
  PROVE  RecorderInv'
<1>1. /\ at[r] = "completing" /\ CompleteUpload(r)
      /\ UNCHANGED <<error, mr, take, captured, cut, number, parts, awaited, marked, late>>
      /\ UNCHANGED <<flights, faults>>
      /\ IF marked[r] THEN Goto(r, "chapters") /\ UNCHANGED status
                      ELSE Goto(r, "idle") /\ Show(r, "done")
  BY DEF Completed
<1>2. /\ row' \in [status : RowStatus, upload : Uploads \cup {0}] /\ row'.upload = row.upload
      /\ open' \subseteq Uploads /\ UNCHANGED bucket /\ object' \in [Uploads -> Seq(Data)]
      /\ Store' /\ StoreGoesOn /\ ObjectsAreOneTake'
      /\ ~late[r] /\ ~error[r] => (\E u \in Uploads : Whole(object[u], r))'
  BY <1>1, UploadCompletes
<1>3. TakeInv(r) /\ status[r] = "uploading"
  BY <1>1 DEF RecorderInv, TakeInv, Place
<1>4. /\ status' \in [Recorders -> Status] /\ at' \in [Recorders -> StartPC \cup StopPC \cup {"idle"}]
      /\ \A x \in Recorders \ {r} : status'[x] = status[x] /\ at'[x] = at[x]
      /\ \/ at'[r] = "chapters" /\ status'[r] = "uploading"
         \/ at'[r] = "idle" /\ status'[r] = "done"
  BY <1>1, <1>3 DEF RecorderInv, RecorderTypeOK, Goto, Show, Status, StopPC
<1>5. RecorderTypeOK'
  BY <1>1, <1>2, <1>4 DEF RecorderInv, RecorderTypeOK
<1>6. FinalFlight'
  <2>1. \A g \in flights : g.by \in Recorders /\ (g.final => g.by # r /\ at[g.by] = "flushing")
    BY <1>1 DEF FinalFlight, RecorderInv, RecorderTypeOK, Flight
  <2> QED
    BY <1>1, <1>4, <2>1 DEF FinalFlight, RecorderInv
<1>7. ASSUME NEW x \in Recorders
      PROVE  SameData(x) /\ (x # r => SameControl(x)) /\ Pieces(x)' = Pieces(x)
  BY <1>1, <1>4 DEF SameData, SameControl, Sent, Pieces, Piece
<1>8. ASSUME NEW x \in Recorders, x # r
      PROVE  TakeInv(x)'
  BY <1>2, <1>7, <1>8, OthersKeep DEF RecorderInv
<1>9. TakeInv(r)'
  <2>1. Place(r)'
    BY <1>1, <1>3, <1>4 DEF TakeInv, Place, StartPC
  <2>2. Bounds(r)'
    BY <1>1, <1>2, <1>3 DEF TakeInv, Bounds, Working
  <2>3. Own(r)'
    BY <1>3, <1>7 DEF TakeInv, Own
  <2>4. Stands(r)'
    BY <1>1, <1>2 DEF Stands
  <2>5. ASSUME ~late[r]
        PROVE  Timely(r)' /\ InOrder(r)' /\ NoneLost(r)'
    <3>1. Timely(r) /\ InOrder(r) /\ NoneLost(r)
      BY <1>3, <2>5 DEF TakeInv
    <3>2. Timely(r)'
      BY <1>3, <1>4, <1>7, <3>1 DEF Timely, SameData
    <3>3. InOrder(r)'
      BY <1>7, <3>1 DEF InOrder, InPlace, Apart, SameData
    <3>4. NoneLost(r)'
      BY <1>1, <1>3, <1>7, <3>1 DEF NoneLost, Working
    <3> QED
      BY <3>2, <3>3, <3>4
  <2> QED
    BY <1>1, <2>1, <2>2, <2>3, <2>4, <2>5 DEF TakeInv
<1> QED
  BY <1>2, <1>5, <1>6, <1>8, <1>9 DEF RecorderInv

\* The answer is lost, of a call that has changed the store.
LEMMA LostAnswerKeeps ==
  ASSUME RecorderInv, NEW r \in Recorders, at[r] \in {"initing", "completing"}, Fault, Fails(r),
         UNCHANGED <<mr, take, captured, cut, number, parts, awaited, marked, late, flights>>,
         \/ at[r] = "initing" /\ InitUpload
         \/ at[r] = "completing" /\ CompleteUpload(r)
  PROVE  RecorderInv'
<1>1. /\ row' \in [status : RowStatus, upload : Uploads \cup {0}]
      /\ open' \subseteq Uploads /\ UNCHANGED bucket /\ object' \in [Uploads -> Seq(Data)]
      /\ Store' /\ StoreGoesOn /\ ObjectsAreOneTake'
  BY UploadCompletes, UploadOpens DEF RecorderInv, RecorderTypeOK
<1>2. /\ status' \in [Recorders -> Status] /\ at' \in [Recorders -> StartPC \cup StopPC \cup {"idle"}]
      /\ error' \in [Recorders -> BOOLEAN] /\ faults' \in 0..MaxFaults
  BY RecorderAssumption DEF RecorderInv, RecorderTypeOK, Fails, Goto, Show, Status, Fault
<1>3. RecorderTypeOK'
  BY <1>1, <1>2 DEF RecorderInv, RecorderTypeOK
<1>4. \A x \in Recorders : SameData(x)
  BY DEF SameData, Sent
<1>5. TakeInv(r)' /\ \A x \in Recorders \ {r} : SameControl(x)
  BY <1>1, <1>4, FailsTake DEF RecorderInv, SameControl
<1>6. \A x \in Recorders \ {r} : TakeInv(x)'
  BY <1>1, <1>4, <1>5, OthersKeep DEF RecorderInv
<1>7. FinalFlight'
  <2>1. \A g \in flights : g.by \in Recorders /\ (g.final => g.by # r /\ at[g.by] = "flushing")
    BY DEF FinalFlight, RecorderInv, RecorderTypeOK, Flight
  <2> QED
    BY <1>5, <2>1 DEF FinalFlight, RecorderInv, SameControl
<1> QED
  BY <1>1, <1>3, <1>5, <1>6, <1>7 DEF RecorderInv

\* Calls that fail: the permission, the recording that is there already, the
\* list that does not fit, the chapters.
LEMMA CallsFailKeeps ==
  ASSUME RecorderInv, NEW r \in Recorders,
         Refused(r) \/ InitFails(r) \/ CompleteFails(r) \/ ChaptersFail(r)
  PROVE  RecorderInv'
<1>1. Fault => faults' \in 0..MaxFaults
  BY RecorderAssumption DEF Fault, RecorderInv, RecorderTypeOK
<1>2. UNCHANGED faults => faults' \in 0..MaxFaults
  BY DEF RecorderInv, RecorderTypeOK
<1>3. CASE Refused(r)
  BY <1>1, <1>3, FailsKeeps DEF Refused
<1>4. CASE InitFails(r)
  <2>1. CASE UNCHANGED server /\ faults' \in 0..MaxFaults
    BY <1>4, <2>1, FailsKeeps DEF InitFails
  <2>2. CASE Fault /\ InitUpload
    BY <1>4, <2>2, LostAnswerKeeps DEF InitFails
  <2> QED
    BY <1>1, <1>2, <1>4, <2>1, <2>2 DEF InitFails
<1>5. CASE CompleteFails(r)
  <2>1. CASE UNCHANGED server /\ faults' \in 0..MaxFaults
    BY <1>5, <2>1, FailsKeeps DEF CompleteFails
  <2>2. CASE Fault /\ CompleteUpload(r)
    BY <1>5, <2>2, LostAnswerKeeps DEF CompleteFails
  <2> QED
    BY <1>1, <1>2, <1>5, <2>1, <2>2 DEF CompleteFails
<1>6. CASE ChaptersFail(r)
  BY <1>1, <1>6, FailsKeeps DEF ChaptersFail
<1> QED
  BY <1>3, <1>4, <1>5, <1>6

-----------------------------------------------------------------------------
LEMMA RecorderBegins == RecorderInit => RecorderInv
<1> SUFFICES ASSUME RecorderInit PROVE RecorderInv
  OBVIOUS
<1>1. MaxUploads \in Nat /\ MaxSlices \in Nat /\ MaxFaults \in Nat /\ Slices \in [Recorders -> 0..MaxSlices]
  BY RecorderAssumption
<1>2. /\ row.status = "absent" /\ row.upload = 0 /\ bucket = {} /\ open = {} /\ flights = {} /\ faults = 0
      /\ row \in [status : RowStatus, upload : Uploads \cup {0}]
  BY DEF RecorderInit, RowStatus
<1>3. object \in [Uploads -> Seq(Data)] /\ \A u \in Uploads : object[u] = <<>>
  <2>1. <<>> \in Seq(Data)
    OBVIOUS
  <2> QED
    BY <2>1 DEF RecorderInit
<1>4. RecorderTypeOK
  BY <1>1, <1>2, <1>3 DEF RecorderInit, RecorderTypeOK, Status
<1>5. FinalFlight /\ Store /\ ObjectsAreOneTake
  BY <1>2, <1>3 DEF FinalFlight, Store, ObjectsAreOneTake
<1>6. ASSUME NEW r \in Recorders
      PROVE  TakeInv(r)
  <2>1. /\ status[r] = "idle" /\ at[r] = "idle" /\ mr[r] = "none" /\ take[r] = 0 /\ captured[r] = 0
        /\ cut[r] = 0 /\ number[r] = 1 /\ parts[r] = {} /\ Sent(r) = {}
    BY <1>2 DEF RecorderInit, Sent
  <2>2. Pieces(r) = {}
    BY <2>1 DEF Pieces
  <2>3. Place(r) /\ Own(r) /\ Stands(r)
    BY <2>1, <2>2 DEF Place, Own, Stands, Over, StartPC
  <2>4. Bounds(r)
    BY <1>1, <1>2, <2>1 DEF Bounds, Working
  <2>5. Timely(r) /\ InOrder(r) /\ NoneLost(r)
    BY <2>1, <2>2 DEF Timely, InOrder, NoneLost, Working
  <2> QED
    BY <2>3, <2>4, <2>5 DEF TakeInv
<1> QED
  BY <1>4, <1>5, <1>6 DEF RecorderInv

LEMMA RecorderInvGives == RecorderInv => RecorderTypeOK /\ ObjectsAreOneTake /\ DoneIsWhole
BY DEF RecorderInv, TakeInv, Stands, Over, DoneIsWhole

-----------------------------------------------------------------------------
(* The page: its types, who holds a device, and consent.                    *)

PageTypes ==
  /\ at_page \in [Recorders -> AtPage]
  /\ known \in [Recorders -> RowStatus]
  /\ processing \in [Recorders -> RowStatus \cup {Nothing}]
  /\ live \subseteq Tracks
  /\ stream \subseteq Tracks
  /\ webcam \in {Nothing, "preCam", "cam"}
  /\ asking \in BOOLEAN
  /\ onStage \subseteq Stage
  /\ enabled \in BOOLEAN
  /\ mixer \in [ctx : BOOLEAN, extra : [Stage -> Gain]]
  /\ recorded \in {Nothing, "mixer", "mic"}

\* Nothing captures before the pre-flight check.
Early == at_page[Watched] \in {"checking", "denied", "loading", "preflight"}
EarlyIsIdle ==
  Early => status[Watched] = "idle" /\ live = {} /\ stream = {} /\ webcam = Nothing /\ ~asking

\* What is published is so until END, or until start() has failed.
StreamHeld ==
  /\ stream \subseteq {"screen"} \cup Mics
  /\ stream # {} => at[Watched] = "initing" \/ status[Watched] = "recording"

\* The screen and a microphone of its own are held by the stream.
CaptureHeld ==
  /\ "screen" \in live => "screen" \in stream \/ at[Watched] = "miking"
  /\ "freshMic" \in live => "freshMic" \in stream

CameraHeld ==
  /\ asking => webcam = Nothing
  /\ "cam" \in live => webcam = "cam"

\* The pre-flight microphone goes with END, the camera with liveEnded.
PreflightStopped ==
  /\ status[Watched] \in {"stopping", "uploading", "done"} => "preMic" \notin live
  /\ status[Watched] = "done" /\ Here(Watched) => "preCam" \notin live

\* A page that was left shows nothing.
LeftShowsNothing == ~Here(Watched) => known[Watched] = "absent" /\ processing[Watched] = Nothing

Devices ==
  /\ EarlyIsIdle /\ StreamHeld /\ CaptureHeld /\ CameraHeld /\ PreflightStopped /\ LeftShowsNothing

\* Without an AudioContext nobody is in the mix.
Consent == ParticipantsConsent /\ (~mixer.ctx => \A p \in Stage : mixer.extra[p] = "out")

PageInv == RecorderInv /\ PageTypes /\ Devices /\ Consent

-----------------------------------------------------------------------------
(* The recorder of each page.                                               *)

LEMMA PagesKeepRecorder ==
  ASSUME RecorderInv, NEW r \in Recorders, PageStep(r)
  PROVE  RecorderInv'
<1>1. faults' \in 0..MaxFaults \/ ~(Fault \/ UNCHANGED faults)
  BY RecorderAssumption DEF RecorderInv, RecorderTypeOK, Fault
<1>2. CASE UNCHANGED <<recorder, flights, server>> /\ (Fault \/ UNCHANGED faults)
  BY <1>1, <1>2, StutterKeeps
<1>3. CASE Authorize(r) \/ Load(r) \/ Preflight(r) \/ Reload(r) \/ Poll(r)
  BY <1>2, <1>3 DEF Authorize, Load, Preflight, Reload, Poll, recorderVars, NoFault
<1>4. CASE StartLive(r) \/ EndLive(r) \/ Mark(r) \/ Leave(r) \/ GoLive(r)
  BY <1>4, StartKeeps, StopKeeps, MarkKeeps, UnmountKeeps, InitedKeeps
    DEF StartLive, EndLive, Mark, Leave, GoLive
<1>5. CASE PickScreen(r) \/ GetMic(r)
  BY <1>5, PickedKeeps, MikedKeeps DEF PickScreen, GetMic
<1>6. CASE StartFails(r)
  BY <1>6, CallsFailKeeps DEF StartFails
<1>7. CASE RecorderStep(r)
  BY <1>7, SliceKeeps, LastSliceKeeps, SettledKeeps, DrainedKeeps, CallsFailKeeps DEF RecorderStep
<1>8. CASE ShowDone(r)
  BY <1>8, CompletedKeeps, ChaptersSavedKeeps DEF ShowDone
<1>9. CASE PressRetry(r)
  BY <1>9, PipelineKeeps DEF PressRetry
<1> QED
  BY <1>3, <1>4, <1>5, <1>6, <1>7, <1>8, <1>9 DEF PageStep

LEMMA StepsKeepRecorder ==
  ASSUME RecorderInv, [Next]_vars
  PROVE  RecorderInv'
<1>1. UNCHANGED recorderVars => RecorderInv'
  BY StutterKeeps DEF recorderVars, RecorderInv, RecorderTypeOK
<1>2. CASE \E r \in Recorders : PageStep(r)
  BY <1>2, PagesKeepRecorder
<1>3. CASE \E f \in flights : FlightStep(f)
  BY <1>3, PartUrlKeeps, PutPartKeeps, PartFailsKeeps DEF FlightStep
<1>4. CASE DeviceStep
  BY <1>1, <1>4 DEF DeviceStep, SharingEnds, OpenWebcam, CameraAnswers, CloseWebcam,
                    ToggleParticipants, StageChanges
<1>5. CASE PipelineStep
  BY <1>5, PageAssumption, PipelineKeeps DEF PipelineStep
<1>6. CASE UNCHANGED vars
  BY <1>1, <1>6 DEF vars
<1> QED
  BY <1>2, <1>3, <1>4, <1>5, <1>6 DEF Next

-----------------------------------------------------------------------------
(* Types, and the mixer.                                                    *)

LEMMA PagesKeepTypes ==
  ASSUME PageInv, RecorderTypeOK', NEW r \in Recorders, PageStep(r)
  PROVE  PageTypes'
<1>1. PageTypes /\ row.status \in RowStatus /\ row'.status \in RowStatus
  BY DEF PageInv, RecorderInv, RecorderTypeOK
<1> USE DEF PageTypes, AtPage, RowStatus, Nothing
<1>2. CASE Authorize(r) \/ Load(r)
  BY <1>1, <1>2 DEF Authorize, Load, AtOf, PageGoto, Elsewhere, deviceVars, mixVars
<1>3. CASE Preflight(r)
  <2>1. /\ at_page' \in [Recorders -> AtPage] /\ live' \subseteq Tracks
        /\ UNCHANGED <<known, processing, stream, webcam, asking, onStage, enabled, recorded>>
    BY <1>1, <1>3 DEF Preflight, PageGoto, Tracks
  <2>2. mixer' \in [ctx : BOOLEAN, extra : [Stage -> Gain]]
    BY <1>1, <1>3 DEF Preflight
  <2> QED
    BY <1>1, <2>1, <2>2
<1>4. CASE StartLive(r) \/ RecorderStep(r) \/ Mark(r)
  BY <1>1, <1>4 DEF StartLive, RecorderStep, Mark, Elsewhere, pageVars, deviceVars, mixVars
<1>5. CASE PickScreen(r) \/ GetMic(r)
  BY <1>1, <1>5 DEF PickScreen, GetMic, Merge, Tracks, pageVars, mixVars
<1>6. CASE StartFails(r)
  BY <1>1, <1>6 DEF StartFails, Release, Tracks, pageVars, mixVars
<1>7. CASE GoLive(r)
  BY <1>1, <1>7 DEF GoLive, pageVars, deviceVars
<1>8. CASE EndLive(r)
  BY <1>1, <1>8 DEF EndLive, pageVars, mixVars
<1>9. CASE ShowDone(r)
  BY <1>1, <1>9 DEF ShowDone, Mop, mixVars
<1>10. CASE Reload(r) \/ Poll(r) \/ PressRetry(r)
  BY <1>1, <1>10 DEF Reload, Poll, PressRetry, Elsewhere, deviceVars, mixVars
<1>11. CASE Leave(r)
  <2>1. mixer' \in [ctx : BOOLEAN, extra : [Stage -> Gain]]
    BY <1>11 DEF Leave, Gain
  <2> QED
    BY <1>1, <1>11, <2>1 DEF Leave, PageGoto
<1> QED
  BY <1>2, <1>3, <1>4, <1>5, <1>6, <1>7, <1>8, <1>9, <1>10, <1>11 DEF PageStep

\* Sources are given the gain of the moment, and those that stay keep theirs.
LEMMA StageKeeps ==
  ASSUME PageTypes, Consent, NEW p \in Stage, StageChanges(p)
  PROVE  PageTypes' /\ Consent'
<1>1. /\ onStage' = SymDiff(onStage, {p})
      /\ UNCHANGED <<pageVars, deviceVars, enabled, recorded>>
  BY DEF StageChanges
<1>2. onStage' \subseteq Stage
  BY <1>1 DEF PageTypes, SymDiff
<1>3. CASE ~mixer.ctx
  <2>1. mixer' = mixer
    BY <1>3 DEF StageChanges
  <2> QED
    BY <1>1, <1>2, <1>3, <2>1 DEF PageTypes, pageVars, deviceVars, Consent, ParticipantsConsent
<1>4. CASE mixer.ctx
  <2> DEFINE extra == [q \in Stage |-> IF q \notin onStage' THEN "out"
                                       ELSE IF mixer.extra[q] = "out" THEN GainNow
                                       ELSE mixer.extra[q]]
  <2>1. mixer' = [mixer EXCEPT !.extra = extra]
    BY <1>4 DEF StageChanges
  <2>2. extra \in [Stage -> Gain]
    BY DEF PageTypes, Gain, GainNow
  <2>3. \A q \in Stage : /\ extra[q] = "heard" => enabled
                         /\ extra[q] # "out" => q \in onStage'
    BY DEF GainNow, Consent, ParticipantsConsent
  <2> HIDE DEF extra
  <2>4. /\ mixer' \in [ctx : BOOLEAN, extra : [Stage -> Gain]]
        /\ mixer'.ctx /\ mixer'.extra = extra
    BY <1>4, <2>1, <2>2 DEF PageTypes
  <2> QED
    BY <1>1, <1>2, <2>3, <2>4 DEF PageTypes, pageVars, deviceVars, Consent, ParticipantsConsent
<1> QED
  BY <1>3, <1>4

LEMMA ToggleKeeps ==
  ASSUME PageTypes, Consent, ToggleParticipants
  PROVE  PageTypes' /\ Consent'
<1> DEFINE extra == [q \in Stage |-> IF mixer.extra[q] = "out" THEN "out"
                                     ELSE IF enabled' THEN "heard" ELSE "silent"]
<1>1. /\ enabled' = ~enabled /\ mixer' = [mixer EXCEPT !.extra = extra]
      /\ UNCHANGED <<pageVars, deviceVars, onStage, recorded>>
  BY DEF ToggleParticipants
<1>2. extra \in [Stage -> Gain]
  BY DEF Gain
<1>3. \A q \in Stage : /\ extra[q] = "heard" => enabled'
                       /\ extra[q] # "out" => q \in onStage
                       /\ ~mixer.ctx => extra[q] = "out"
  BY DEF Consent, ParticipantsConsent
<1> HIDE DEF extra
<1>4. /\ mixer' \in [ctx : BOOLEAN, extra : [Stage -> Gain]]
      /\ mixer'.ctx = mixer.ctx /\ mixer'.extra = extra
  BY <1>1, <1>2 DEF PageTypes
<1>5. PageTypes'
  BY <1>1, <1>4 DEF PageTypes, pageVars, deviceVars
<1>6. Consent'
  BY <1>1, <1>3, <1>4 DEF Consent, ParticipantsConsent
<1> QED
  BY <1>5, <1>6

LEMMA StepsKeepTypes ==
  ASSUME PageInv, RecorderTypeOK', [Next]_vars
  PROVE  PageTypes'
<1>1. PageTypes
  BY DEF PageInv
<1>2. CASE \E r \in Recorders : PageStep(r)
  BY <1>2, PagesKeepTypes
<1>3. CASE UNCHANGED <<pageVars, deviceVars, mixVars>>
  BY <1>1, <1>3 DEF PageTypes, pageVars, deviceVars, mixVars
<1>4. CASE \E f \in flights : FlightStep(f)
  BY <1>3, <1>4 DEF FlightStep, Elsewhere
<1>5. CASE DeviceStep
  <2>1. CASE SharingEnds \/ OpenWebcam \/ CameraAnswers \/ CloseWebcam
    BY <1>1, <2>1 DEF SharingEnds, OpenWebcam, CameraAnswers, CloseWebcam, PageTypes, Tracks,
                      pageVars, deviceVars, mixVars
  <2>2. CASE ToggleParticipants
    BY <2>2, ToggleKeeps DEF PageInv
  <2>3. CASE \E p \in Stage : StageChanges(p)
    BY <2>3, StageKeeps DEF PageInv
  <2> QED
    BY <1>5, <2>1, <2>2, <2>3 DEF DeviceStep
<1>6. CASE PipelineStep \/ UNCHANGED vars
  BY <1>3, <1>6 DEF PipelineStep, vars
<1> QED
  BY <1>2, <1>4, <1>5, <1>6 DEF Next

LEMMA StepsKeepConsent ==
  ASSUME PageInv, [Next]_vars
  PROVE  Consent'
<1>1. Consent /\ PageTypes
  BY DEF PageInv
<1>2. CASE UNCHANGED <<onStage, enabled, mixer>>
  BY <1>1, <1>2 DEF Consent, ParticipantsConsent
<1>3. ASSUME NEW r \in Recorders, PageStep(r)
      PROVE  Consent'
  <2>1. CASE Preflight(r)
    <3>1. UNCHANGED <<onStage, enabled>> /\ mixer'.extra = mixer.extra /\ (mixer'.ctx \/ mixer'.ctx = mixer.ctx)
      BY <1>1, <2>1 DEF Preflight, PageTypes
    <3> QED
      BY <1>1, <3>1 DEF Consent, ParticipantsConsent
  <2>2. CASE Leave(r)
    BY <2>2 DEF Leave, Consent, ParticipantsConsent
  <2>3. CASE ~Preflight(r) /\ ~Leave(r)
    BY <1>2, <1>3, <2>3
      DEF PageStep, Authorize, Load, StartLive, PickScreen, GetMic, StartFails, GoLive, EndLive,
          RecorderStep, Mark, ShowDone, Reload, Poll, PressRetry, Elsewhere, mixVars
  <2> QED
    BY <2>1, <2>2, <2>3
<1>4. CASE \E f \in flights : FlightStep(f)
  BY <1>2, <1>4 DEF FlightStep, Elsewhere, mixVars
<1>5. CASE DeviceStep
  <2>1. CASE SharingEnds \/ OpenWebcam \/ CameraAnswers \/ CloseWebcam
    BY <1>2, <2>1 DEF SharingEnds, OpenWebcam, CameraAnswers, CloseWebcam, mixVars
  <2> QED
    BY <1>1, <1>5, <2>1, ToggleKeeps, StageKeeps DEF DeviceStep
<1>6. CASE PipelineStep \/ UNCHANGED vars
  BY <1>2, <1>6 DEF PipelineStep, vars, mixVars
<1> QED
  BY <1>3, <1>4, <1>5, <1>6 DEF Next

-----------------------------------------------------------------------------
(* The devices.                                                             *)

SameAt(w) == status'[w] = status[w] /\ at'[w] = at[w]
SamePage(w) ==
  at_page'[w] = at_page[w] /\ known'[w] = known[w] /\ processing'[w] = processing[w]

\* A step that leaves the devices alone: the recorder stands still, or goes on
\* where nothing is published, and not to "done".
LEMMA DevicesStay ==
  ASSUME Devices, UNCHANGED deviceVars,
         at_page'[Watched] = at_page[Watched] \/ (Early /\ Early'),
         ~Here(Watched) => SamePage(Watched),
         \/ SameAt(Watched)
         \/ /\ ~Early /\ at[Watched] \notin {"initing", "miking"} /\ status[Watched] # "recording"
            /\ status'[Watched] \in {"stopping", "uploading"} => status[Watched] \in {"stopping", "uploading"}
            /\ status'[Watched] # "done"
  PROVE  Devices'
<1>1. UNCHANGED <<live, stream, webcam, asking>>
  BY DEF deviceVars
<1>2. EarlyIsIdle'
  BY <1>1 DEF Devices, EarlyIsIdle, SameAt, Early
<1>3. StreamHeld' /\ CaptureHeld' /\ CameraHeld'
  BY <1>1 DEF Devices, StreamHeld, CaptureHeld, CameraHeld, SameAt
<1>4. PreflightStopped'
  BY <1>1 DEF Devices, PreflightStopped, SameAt, Here, AtOf, Early
<1>5. LeftShowsNothing'
  BY DEF Devices, LeftShowsNothing, Here, AtOf, Early, SamePage
<1> QED
  BY <1>2, <1>3, <1>4, <1>5 DEF Devices

\* The recorder of another page does nothing to the one that is watched.
LEMMA OthersElsewhere ==
  ASSUME RecorderTypeOK, PageTypes, NEW r \in Recorders, r # Watched, PageStep(r)
  PROVE  UNCHANGED deviceVars /\ SamePage(Watched) /\ SameAt(Watched)
<1> USE PageAssumption DEF RecorderTypeOK, PageTypes, SamePage, SameAt, deviceVars
<1>1. CASE Authorize(r) \/ Load(r) \/ Preflight(r) \/ Reload(r) \/ Poll(r) \/ PressRetry(r)
  BY <1>1 DEF Authorize, Load, Preflight, Reload, Poll, PressRetry, PageGoto, Elsewhere, recorderVars,
              recorder, Retry
<1>2. CASE StartLive(r) \/ Mark(r) \/ GoLive(r) \/ EndLive(r)
  BY <1>2 DEF StartLive, Start, Mark, MarkChapter, GoLive, Inited, EndLive, Stop, Show, Goto, Elsewhere, pageVars
<1>3. CASE PickScreen(r) \/ GetMic(r)
  BY <1>3 DEF PickScreen, Picked, GetMic, Miked, Merge, Goto, pageVars
<1>4. CASE StartFails(r)
  BY <1>4 DEF StartFails, Refused, InitFails, Fails, Release, Show, Goto, pageVars
<1>5. CASE RecorderStep(r)
  BY <1>5 DEF RecorderStep, Slice, LastSlice, Settled, Drained, CompleteFails, ChaptersFail, Fails, Show, Goto,
              Elsewhere, pageVars
<1>6. CASE ShowDone(r)
  BY <1>6 DEF ShowDone, Completed, ChaptersSaved, Mop, Show, Goto
<1>7. CASE Leave(r)
  BY <1>7 DEF Leave
<1> QED
  BY <1>1, <1>2, <1>3, <1>4, <1>5, <1>6, <1>7 DEF PageStep

LEMMA PlaceOfWatched ==
  RecorderInv => Place(Watched) /\ Watched \in Recorders /\ RecorderTypeOK
BY PageAssumption DEF RecorderInv, TakeInv

\* What the recorder does by itself takes no device, and ends in no "done".
LEMMA StepLeavesDevices ==
  ASSUME PageInv, NEW r \in Recorders, r = Watched, RecorderStep(r) \/ Mark(r) \/ StartLive(r)
  PROVE  Devices'
<1>1. Devices /\ Place(r) /\ RecorderTypeOK /\ UNCHANGED deviceVars /\ SamePage(r)
  BY PlaceOfWatched DEF PageInv, RecorderStep, Mark, StartLive, Elsewhere, pageVars, SamePage
<1>2. CASE Mark(r)
  BY <1>1, <1>2, DevicesStay DEF Mark, MarkChapter, SameAt, SamePage
<1>3. CASE StartLive(r)
  <2>1. at_page[r] = "ready" /\ status[r] \in {"idle", "error", "done"} /\ status'[r] = "starting"
    BY <1>1, <1>3 DEF StartLive, CanStartLive, ShowRecorder, AtOf, Start, Show, RecorderTypeOK
  <2>2. ~Early /\ at[r] \notin {"initing", "miking"}
    BY <1>1, <2>1 DEF Early, Place, StartPC
  <2> QED
    BY <1>1, <2>1, <2>2, DevicesStay DEF SamePage
<1>4. CASE Slice(r) \/ LastSlice(r)
  <2>1. SameAt(r)
    BY <1>4 DEF Slice, LastSlice, SameAt
  <2> QED
    BY <1>1, <2>1, DevicesStay DEF SamePage
<1>5. CASE Settled(r) \/ Drained(r) \/ CompleteFails(r) \/ ChaptersFail(r)
  <2>1. /\ at[r] \in StopPC /\ status[r] \in {"stopping", "uploading"}
        /\ status'[r] \in {"stopping", "uploading", "error"}
    <3>1. CASE Settled(r) \/ Drained(r)
      <4>1. at[r] \in {"settling", "draining"} /\ status[r] = "stopping"
        BY <1>1, <3>1 DEF Settled, Drained, Place
      <4>2. status'[r] \in {"stopping", "uploading"}
        <5>1. UNCHANGED status \/ status' = [status EXCEPT ![r] = "uploading"]
          BY <3>1 DEF Settled, Drained, Show
        <5> QED
          BY <1>1, <4>1, <5>1 DEF RecorderTypeOK
      <4> QED
        BY <4>1, <4>2 DEF StopPC
    <3>2. CASE CompleteFails(r) \/ ChaptersFail(r)
      <4>1. at[r] \in {"completing", "chapters"} /\ status[r] = "uploading"
        BY <1>1, <3>2 DEF CompleteFails, ChaptersFail, Place
      <4>2. status'[r] = "error"
        BY <1>1, <3>2 DEF CompleteFails, ChaptersFail, Fails, Show, RecorderTypeOK
      <4> QED
        BY <4>1, <4>2 DEF StopPC
    <3> QED
      BY <1>5, <3>1, <3>2
  <2>2. ~Early
    BY <1>1, <2>1 DEF Devices, EarlyIsIdle
  <2> QED
    BY <1>1, <2>1, <2>2, DevicesStay DEF SamePage, StopPC
<1> QED
  BY <1>2, <1>3, <1>4, <1>5 DEF RecorderStep

LEMMA FlightsLeaveDevices ==
  ASSUME PageInv, NEW f \in flights, FlightStep(f)
  PROVE  Devices'
<1>1. /\ Devices /\ Place(Watched) /\ RecorderTypeOK /\ UNCHANGED deviceVars /\ SamePage(Watched)
      /\ f.by \in Recorders /\ f.final => at[f.by] = "flushing"
  BY PlaceOfWatched DEF PageInv, FlightStep, Elsewhere, pageVars, SamePage, RecorderInv, RecorderTypeOK,
                        Flight, FinalFlight
<1>2. FinalFlight /\ Watched \in Recorders
  BY PageAssumption DEF PageInv, RecorderInv
<1>3. CASE ~f.final \/ f.by # Watched \/ PartUrl(f)
  <2>1. SameAt(Watched)
    BY <1>1, <1>2, <1>3 DEF FlightStep, PartUrl, PutPart, PartFails, Fails, Show, Goto, SameAt, recorder,
                            RecorderTypeOK
  <2> QED
    BY <1>1, <2>1, DevicesStay DEF SamePage
<1>4. CASE f.final /\ f.by = Watched /\ ~PartUrl(f)
  <2>1. at[Watched] = "flushing" /\ status[Watched] = "stopping"
    BY <1>1, <1>2, <1>4 DEF FinalFlight, Place
  <2>2. status'[Watched] \in {"uploading", "error"}
    BY <1>1, <1>2, <1>4 DEF FlightStep, PutPart, PartFails, Fails, Show, RecorderTypeOK
  <2>3. ~Early
    BY <1>1, <2>1 DEF Devices, EarlyIsIdle
  <2> QED
    BY <1>1, <2>1, <2>2, <2>3, DevicesStay DEF SamePage
<1> QED
  BY <1>3, <1>4

\* The way to the recorder, and what the page learns after END.
LEMMA LoadingLeavesDevices ==
  ASSUME PageInv, NEW r \in Recorders, r = Watched,
         Authorize(r) \/ Load(r) \/ Reload(r) \/ Poll(r) \/ PressRetry(r)
  PROVE  Devices'
<1>1. Devices /\ PageTypes /\ UNCHANGED deviceVars /\ SameAt(r)
  BY DEF PageInv, Authorize, Load, Reload, Poll, PressRetry, Elsewhere, recorderVars, recorder, Retry, SameAt
<1>2. CASE Authorize(r) \/ Load(r)
  <2>1. Early /\ Early' /\ Here(Watched)
    BY <1>1, <1>2 DEF Authorize, Load, AtOf, PageGoto, Early, Here, PageTypes
  <2> QED
    BY <1>1, <2>1, DevicesStay
<1>3. CASE Reload(r) \/ Poll(r) \/ PressRetry(r)
  <2>1. at_page' = at_page /\ Here(Watched)
    BY <1>3 DEF Reload, Poll, PressRetry, Followed
  <2> QED
    BY <1>1, <2>1, DevicesStay
<1> QED
  BY <1>2, <1>3

\* The pre-flight check gives the page its first tracks.
LEMMA PreflightDevices ==
  ASSUME PageInv, NEW r \in Recorders, r = Watched, Preflight(r)
  PROVE  Devices'
<1>1. /\ EarlyIsIdle /\ Early /\ RecorderTypeOK /\ PageTypes
      /\ UNCHANGED <<stream, webcam, asking>> /\ SameAt(r)
      /\ live' \subseteq {"preMic", "preCam"} /\ at_page'[r] = "ready"
  BY DEF PageInv, RecorderInv, Devices, Preflight, AtOf, Early, PageGoto, PageTypes, recorderVars, recorder, SameAt
<1>2. status[r] = "idle" /\ stream = {} /\ webcam = Nothing /\ ~asking
  BY <1>1 DEF EarlyIsIdle
<1> QED
  BY <1>1, <1>2 DEF Devices, EarlyIsIdle, Early, StreamHeld, CaptureHeld, CameraHeld, PreflightStopped,
                    LeftShowsNothing, Here, AtOf, SameAt

\* The screen and the microphone are merged, and published, at once; a screen
\* may have to wait for its microphone.
LEMMA MergeDevices ==
  ASSUME PageInv, NEW r \in Recorders, r = Watched, PickScreen(r) \/ GetMic(r)
  PROVE  Devices'
<1>1. /\ Devices /\ Place(r) /\ RecorderTypeOK /\ PageTypes
      /\ UNCHANGED <<webcam, asking>> /\ SamePage(r) /\ UNCHANGED status
      /\ at[r] \in {"picking", "miking"} /\ at'[r] \in {"initing", "miking"}
  BY PlaceOfWatched DEF PageInv, PickScreen, GetMic, Picked, Miked, Goto, RecorderTypeOK, pageVars, SamePage
<1>2. status[r] = "starting" /\ ~Early /\ stream = {}
  BY <1>1 DEF Place, StartPC, Devices, EarlyIsIdle, StreamHeld
<1>3. \/ \E mic \in Mics : live' = live \cup {"screen", mic} /\ stream' = {"screen", mic} /\ at'[r] = "initing"
      \/ live' = live \cup {"screen"} /\ stream' = {} /\ at'[r] = "miking"
  BY <1>1, <1>2 DEF PickScreen, GetMic, Picked, Miked, Merge, Mics, Goto, RecorderTypeOK
<1>4. "freshMic" \notin live /\ ("cam" \in live => webcam = "cam") /\ (asking => webcam = Nothing)
  BY <1>1, <1>2 DEF Devices, CaptureHeld, CameraHeld
<1> QED
  BY <1>1, <1>2, <1>3, <1>4
    DEF Devices, EarlyIsIdle, Early, StreamHeld, CaptureHeld, CameraHeld, PreflightStopped, LeftShowsNothing,
        Here, AtOf, SamePage, Mics

LEMMA StartFailsDevices ==
  ASSUME PageInv, NEW r \in Recorders, r = Watched, StartFails(r)
  PROVE  Devices'
<1>1. /\ Devices /\ Place(r) /\ RecorderTypeOK /\ PageTypes
      /\ UNCHANGED <<webcam, asking>> /\ SamePage(r) /\ at[r] \in StartPC
      /\ status'[r] = "error" /\ at'[r] = "idle" /\ stream' = {}
  BY PlaceOfWatched DEF PageInv, StartFails, Refused, InitFails, Fails, Show, Goto, RecorderTypeOK, pageVars,
                        SamePage, Release, StartPC
<1>2. status[r] = "starting" /\ ~Early
  BY <1>1 DEF Place, Devices, EarlyIsIdle
<1>3. live' \subseteq live \cup {"lostScreen"} /\ "screen" \notin live' /\ "freshMic" \notin live'
  <2>1. CASE at[r] = "miking"
    <3>1. stream = {} /\ live' = (live \ {"screen"}) \cup {"lostScreen"}
      BY <1>1, <1>2, <2>1 DEF StartFails, Release, Devices, StreamHeld
    <3> QED
      BY <1>1, <3>1 DEF Devices, CaptureHeld
  <2>2. CASE at[r] # "miking"
    <3>1. live' = live \ stream
      BY <2>2 DEF StartFails, Release
    <3> QED
      BY <1>1, <2>2, <3>1 DEF Devices, CaptureHeld
  <2> QED
    BY <2>1, <2>2
<1> QED
  BY <1>1, <1>2, <1>3
    DEF Devices, EarlyIsIdle, Early, StreamHeld, CaptureHeld, CameraHeld, PreflightStopped, LeftShowsNothing,
        Here, AtOf, SamePage

LEMMA LiveDevices ==
  ASSUME PageInv, NEW r \in Recorders, r = Watched, GoLive(r) \/ EndLive(r)
  PROVE  Devices'
<1>1. /\ Devices /\ Place(r) /\ RecorderTypeOK /\ PageTypes /\ UNCHANGED <<webcam, asking>> /\ SamePage(r)
  BY PlaceOfWatched DEF PageInv, GoLive, EndLive, pageVars, deviceVars, SamePage
<1>2. CASE GoLive(r)
  <2>1. /\ at[r] = "initing" /\ at'[r] = "idle" /\ status'[r] = "recording" /\ UNCHANGED <<live, stream>>
    BY <1>1, <1>2 DEF GoLive, Inited, Show, Goto, RecorderTypeOK, deviceVars
  <2>2. ~Early
    BY <1>1, <2>1 DEF Place, StartPC, Devices, EarlyIsIdle
  <2> QED
    BY <1>1, <2>1, <2>2
      DEF Devices, EarlyIsIdle, Early, StreamHeld, CaptureHeld, CameraHeld, PreflightStopped, LeftShowsNothing,
          Here, AtOf, SamePage
<1>3. CASE EndLive(r)
  <2>1. /\ status[r] = "recording" /\ status'[r] = "stopping" /\ at'[r] = "settling"
        /\ live' = live \ (stream \cup {"preMic"}) /\ stream' = {}
    BY <1>1, <1>3 DEF EndLive, Stop, Show, Goto, RecorderTypeOK, StoppedByEnd
  <2>2. ~Early /\ at[r] # "miking"
    BY <1>1, <2>1 DEF Place, StartPC, Devices, EarlyIsIdle
  <2> QED
    BY <1>1, <2>1, <2>2
      DEF Devices, EarlyIsIdle, Early, StreamHeld, CaptureHeld, CameraHeld, PreflightStopped, LeftShowsNothing,
          Here, AtOf, SamePage
<1> QED
  BY <1>2, <1>3

\* What stop() has left is stopped when the page learns that it is over.
LEMMA DoneDevices ==
  ASSUME PageInv, NEW r \in Recorders, r = Watched, ShowDone(r)
  PROVE  Devices'
<1>1. /\ Devices /\ Place(r) /\ RecorderTypeOK /\ PageTypes /\ UNCHANGED <<at_page, known, stream, asking>>
      /\ at[r] \in {"completing", "chapters"}
      /\ \/ status'[r] = "uploading" /\ at'[r] = "chapters"
         \/ status'[r] = "done" /\ at'[r] = "idle"
      /\ IF status'[r] = "done" /\ Here(r)
           THEN /\ processing' = [processing EXCEPT ![r] = "PROCESSING"]
                /\ live' = live \ {"preMic", "preCam", webcam} /\ webcam' = Nothing
           ELSE UNCHANGED <<processing, live, webcam>>
  BY PlaceOfWatched DEF PageInv, ShowDone, Completed, ChaptersSaved, Show, Goto, RecorderTypeOK, Mop, Mopped, Place
<1>2. status[r] = "uploading" /\ ~Early /\ stream = {} /\ at[r] # "miking"
  BY <1>1 DEF Place, Devices, EarlyIsIdle, StreamHeld
<1> QED
  BY <1>1, <1>2
    DEF Devices, EarlyIsIdle, Early, StreamHeld, CaptureHeld, CameraHeld, PreflightStopped, LeftShowsNothing,
        Here, AtOf

LEMMA LeaveDevices ==
  ASSUME PageInv, NEW r \in Recorders, Leave(r)
  PROVE  Devices'
<1>1. /\ Devices /\ PageTypes /\ r = Watched /\ Here(r) /\ UNCHANGED <<status, at, asking>>
      /\ live' = live \ (stream \cup {"preMic", webcam}) /\ stream' = {} /\ webcam' = Nothing
      /\ at_page' = [at_page EXCEPT ![r] = "left"] /\ known' = [known EXCEPT ![r] = "absent"]
      /\ processing' = [processing EXCEPT ![r] = Nothing]
  BY DEF PageInv, Leave, Unmount, PageGoto
<1>2. at_page'[r] = "left" /\ known'[r] = "absent" /\ processing'[r] = Nothing
  BY <1>1 DEF PageTypes
<1> QED
  BY <1>1, <1>2
    DEF Devices, EarlyIsIdle, Early, StreamHeld, CaptureHeld, CameraHeld, PreflightStopped, LeftShowsNothing,
        Here, AtOf

LEMMA CameraDevices ==
  ASSUME PageInv, SharingEnds \/ OpenWebcam \/ CameraAnswers \/ CloseWebcam
  PROVE  Devices'
<1>1. Devices /\ PageTypes /\ UNCHANGED <<status, at, at_page, known, processing, stream>>
  BY DEF PageInv, SharingEnds, OpenWebcam, CameraAnswers, CloseWebcam, recorderVars, recorder, pageVars
<1> USE DEF Devices, EarlyIsIdle, Early, StreamHeld, CaptureHeld, CameraHeld, PreflightStopped, LeftShowsNothing,
            Here, AtOf
<1>2. CASE SharingEnds
  BY <1>1, <1>2 DEF SharingEnds
<1>3. CASE OpenWebcam
  BY <1>1, <1>3 DEF OpenWebcam, Nothing
<1>4. CASE CameraAnswers
  BY <1>1, <1>4 DEF CameraAnswers
<1>5. CASE CloseWebcam
  BY <1>1, <1>5 DEF CloseWebcam
<1> QED
  BY <1>2, <1>3, <1>4, <1>5

LEMMA StepsKeepDevices ==
  ASSUME PageInv, [Next]_vars
  PROVE  Devices'
<1>1. Devices /\ RecorderTypeOK /\ PageTypes
  BY DEF PageInv, RecorderInv
<1>2. CASE UNCHANGED deviceVars /\ SamePage(Watched) /\ SameAt(Watched)
  BY <1>1, <1>2, DevicesStay DEF SamePage
<1>3. ASSUME NEW r \in Recorders, PageStep(r)
      PROVE  Devices'
  <2>1. CASE r # Watched
    BY <1>1, <1>2, <1>3, <2>1, OthersElsewhere
  <2>2. CASE r = Watched
    BY <1>3, <2>2, LoadingLeavesDevices, PreflightDevices, StepLeavesDevices, MergeDevices,
       StartFailsDevices, LiveDevices, DoneDevices, LeaveDevices DEF PageStep
  <2> QED
    BY <2>1, <2>2
<1>4. CASE \E f \in flights : FlightStep(f)
  BY <1>4, FlightsLeaveDevices
<1>5. CASE DeviceStep
  BY <1>2, <1>5, CameraDevices DEF DeviceStep, ToggleParticipants, StageChanges, recorderVars, recorder, pageVars,
                                   SamePage, SameAt
<1>6. CASE PipelineStep \/ UNCHANGED vars
  BY <1>2, <1>6 DEF PipelineStep, Process, vars, recorderVars, recorder, pageVars, SamePage, SameAt
<1> QED
  BY <1>3, <1>4, <1>5, <1>6 DEF Next

-----------------------------------------------------------------------------
LEMMA PageInvHolds == Spec => []PageInv
<1>1. Init => PageInv
  <2> SUFFICES ASSUME Init PROVE PageInv
    OBVIOUS
  <2>1. RecorderInv
    BY RecorderBegins DEF Init
  <2>2. PageTypes
    <3>1. mixer \in [ctx : BOOLEAN, extra : [Stage -> Gain]]
      BY DEF Init, Gain
    <3> QED
      BY <3>1 DEF Init, PageTypes, AtPage, RowStatus
  <2>3. Devices
    BY PageAssumption DEF Init, RecorderInit, Devices, EarlyIsIdle, StreamHeld, CaptureHeld, CameraHeld,
                          PreflightStopped, LeftShowsNothing, Here, AtOf
  <2>4. Consent
    BY DEF Init, Consent, ParticipantsConsent
  <2> QED
    BY <2>1, <2>2, <2>3, <2>4 DEF PageInv
<1>2. PageInv /\ [Next]_vars => PageInv'
  <2> SUFFICES ASSUME PageInv, [Next]_vars PROVE PageInv'
    OBVIOUS
  <2>1. RecorderInv'
    BY StepsKeepRecorder DEF PageInv
  <2>2. PageTypes'
    BY <2>1, StepsKeepTypes DEF RecorderInv
  <2> QED
    BY <2>1, <2>2, StepsKeepDevices, StepsKeepConsent DEF PageInv
<1> QED
  BY <1>1, <1>2, PTL DEF Spec

\* TypeOK: every variable of the pages and their recorders stays in its range;
\* the part numbers within the slices, and a take behind its upload.
THEOREM TypeCorrect == Spec => []TypeOK
<1>1. PageInv => TypeOK
  BY DEF PageInv, RecorderInv, PageTypes, TypeOK
<1> QED
  BY <1>1, PageInvHolds, PTL

\* ObjectsAreOneTake: what completeMultipart puts together holds the slices of
\* one take in order, whatever parts other recorders and earlier takes had in
\* flight, unless a slice came after stop() ceased to wait for it.
THEOREM ObjectsAreOneTakeAlways == Spec => []ObjectsAreOneTake
<1>1. PageInv => ObjectsAreOneTake
  BY DEF PageInv, RecorderInv
<1> QED
  BY <1>1, PageInvHolds, PTL

\* DoneIsWhole: a Recorder that shows "done" and no message has stored every
\* slice of its take.
THEOREM DoneIsWholeAlways == Spec => []DoneIsWhole
<1>1. PageInv => DoneIsWhole
  BY RecorderInvGives DEF PageInv
<1> QED
  BY <1>1, PageInvHolds, PTL

\* NothingCaptures: when the live phase is over for a page, nothing it holds
\* captures but the camera that was granted too late.
THEOREM NothingCapturesAlways == Spec => []NothingCaptures
<1>1. ASSUME PageInv PROVE NothingCaptures
  <2> SUFFICES ASSUME status[Watched] = "done", LiveEnded(Watched) PROVE live \subseteq {"lostScreen", webcam}
    BY DEF NothingCaptures
  <2>1. Devices /\ PageTypes /\ Place(Watched)
    BY <1>1, PlaceOfWatched DEF PageInv
  <2>2. Here(Watched)
    BY <2>1 DEF LiveEnded, Devices, LeftShowsNothing
  <2>3. stream = {} /\ at[Watched] # "miking"
    BY <2>1 DEF Devices, StreamHeld, Place, StartPC
  <2> QED
    BY <2>1, <2>2, <2>3 DEF Devices, PreflightStopped, CaptureHeld, CameraHeld, PageTypes, Tracks
<1> QED
  BY <1>1, PageInvHolds, PTL

\* ParticipantsConsent: useMixedAudio lets nobody be heard in the recording
\* whom the teacher has not asked for, and nobody who left the stage.
THEOREM ParticipantsConsentAlways == Spec => []ParticipantsConsent
<1>1. PageInv => ParticipantsConsent
  BY DEF PageInv, Consent
<1> QED
  BY <1>1, PageInvHolds, PTL
=============================================================================
