--------------------------- MODULE RoomFeedProofs ---------------------------
(***************************************************************************)
(* The list of questions is whole in every browser, for any browsers and   *)
(* questions, and any number of answers, lost connections and restarts.    *)
(*                                                                         *)
(* It is so because what a browser does not show yet is on its way to it:  *)
(* in its inbox, or in the backlog its join has read.  Why the backlog has *)
(* what was announced before the join: rows are never taken away.          *)
(***************************************************************************)
EXTENDS RoomFeed, FiniteSetTheorems, FunctionTheorems, TLAPS

\* No question twice.
Distinct(questions) ==
  \A k, n \in DOMAIN questions : questions[k].id = questions[n].id => k = n

\* Rows are inserted in order, and are there when their handlers announce them.
RowsOK ==
  /\ \A i, j \in Items : j < i /\ rows[i] # 0 => rows[j] # 0
  /\ \A i \in asks \cup posted : rows[i] # 0

\* Announcements carry one question, histories each question once.
BoxOK(box) ==
  \A k \in DOMAIN box :
    /\ Distinct(box[k].questions)
    /\ box[k].kind # "history" => Len(box[k].questions) = 1

ListsOK(v) ==
  /\ Distinct(backlog[v]) /\ Distinct(rest[v].questions) /\ BoxOK(inbox[v]) /\ Distinct(list[v])
  /\ seat[v] # "read" => backlog[v] = <<>>

FeedInv == TypeOK /\ RowsOK /\ \A v \in Viewers : ListsOK(v)

\* What is on its way in an inbox.
Carried(box) == UNION {Ids(box[k].questions) : k \in DOMAIN box}

\* The questions the room has been told of.
Announced == {i \in Items \ (posted \cup asks) : rows[i] # 0}

\* The limit on what a backlog takes is not reached.
BacklogSuffices == Cardinality(Items) <= HistoryLimit

\* From the reading of a backlog that suffices on, each of them is shown, on its way or in
\* the backlog.
Reaching(v) == Ids(list[v]) \cup Carried(inbox[v]) \cup Ids(backlog[v])
Covered(v) == BacklogSuffices /\ seat[v] \in {"read", "seated"} => Announced \subseteq Reaching(v)

-----------------------------------------------------------------------------
(* Lists.                                                                   *)

LEMMA BeforeCounts ==
  ASSUME NEW places \in SUBSET Nat, IsFiniteSet(places), NEW k \in places
  PROVE  /\ Before(k, places) \in 0..(Cardinality(places) - 1)
         /\ \A j \in places : k < j => Before(k, places) < Before(j, places)
<1> DEFINE Lower(x) == {j \in places : j < x}
<1>1. ASSUME NEW x \in places
      PROVE  /\ IsFiniteSet(Lower(x)) /\ Before(x, places) = Cardinality(Lower(x))
             /\ Before(x, places) \in Nat /\ x \notin Lower(x)
  <2>1. Lower(x) \in SUBSET places
    OBVIOUS
  <2>2. IsFiniteSet(Lower(x))
    BY <2>1, FS_Subset
  <2>3. x \notin Lower(x)
    OBVIOUS
  <2> QED
    BY <2>2, <2>3, FS_CardinalityType DEF Before
<1>2. Before(k, places) < Cardinality(places)
  <2>1. Lower(k) \in SUBSET places /\ Lower(k) # places
    BY <1>1
  <2>2. Cardinality(Lower(k)) <= Cardinality(places) /\ Cardinality(Lower(k)) # Cardinality(places)
    BY <2>1, FS_Subset
  <2>3. Cardinality(places) \in Nat
    BY FS_CardinalityType
  <2> QED
    BY <1>1, <2>2, <2>3
<1>3. ASSUME NEW j \in places, k < j
      PROVE  Before(k, places) < Before(j, places)
  <2>0. k \in Nat /\ j \in Nat /\ \A i \in places : i \in Nat
    OBVIOUS
  <2>1. k \in Lower(j) /\ k \notin Lower(k) /\ Lower(k) \in SUBSET Lower(j)
    <3>1. k \in Lower(j) /\ k \notin Lower(k)
      BY <1>3, <2>0
    <3>2. \A i \in places : i < k => i < j
      BY <1>3, <2>0
    <3> QED BY <3>1, <3>2
  <2>2. IsFiniteSet(Lower(j)) /\ Lower(k) # Lower(j)
    BY <1>1, <2>1
  <2>3. Cardinality(Lower(k)) <= Cardinality(Lower(j)) /\ Cardinality(Lower(k)) # Cardinality(Lower(j))
    BY <2>1, <2>2, FS_Subset
  <2>4. /\ Before(k, places) = Cardinality(Lower(k)) /\ Before(j, places) = Cardinality(Lower(j))
        /\ Before(k, places) \in Nat /\ Before(j, places) \in Nat
    BY <1>1
  <2> HIDE DEF Lower
  <2> QED
    BY <2>3, <2>4
<1>4. Before(k, places) \in Nat /\ Cardinality(places) \in Nat
  BY <1>1, FS_CardinalityType
<1> QED
  BY <1>2, <1>3, <1>4

\* What is picked from a list is what is at the places, each once.
LEMMA PickedOnce ==
  ASSUME NEW Q, NEW questions \in Seq(Q), NEW places \in SUBSET DOMAIN questions
  PROVE  /\ Pick(places, questions) \in Seq(Q)
         /\ \A n \in DOMAIN Pick(places, questions) : \E k \in places :
              Pick(places, questions)[n] = questions[k] /\ Before(k, places) = n - 1
         /\ \A k \in places : \E n \in DOMAIN Pick(places, questions) :
              Pick(places, questions)[n] = questions[k]
<1> DEFINE K == Cardinality(places)
           before == [k \in places |-> Before(k, places)]
<1>1. places \in SUBSET Nat /\ IsFiniteSet(places) /\ K \in Nat
  <2>1. DOMAIN questions = 1..Len(questions) /\ Len(questions) \in Nat
    OBVIOUS
  <2>2. IsFiniteSet(1..Len(questions))
    BY <2>1, FS_Interval
  <2>3. IsFiniteSet(places)
    BY <2>1, <2>2, FS_Subset
  <2> QED
    BY <2>1, <2>3, FS_CardinalityType
<1>2. before \in [places -> 0..(K - 1)]
  BY <1>1, BeforeCounts
<1>3. \A k, j \in places : before[k] = before[j] => k = j
  <2> SUFFICES ASSUME NEW k \in places, NEW j \in places, k # j
               PROVE  Before(k, places) # Before(j, places)
    OBVIOUS
  <2>1. k < j \/ j < k
    BY <1>1
  <2>2. Before(k, places) \in Nat /\ Before(j, places) \in Nat
    BY <1>1, BeforeCounts
  <2>3. Before(k, places) < Before(j, places) \/ Before(j, places) < Before(k, places)
    BY <1>1, <2>1, BeforeCounts
  <2> QED
    BY <2>2, <2>3
<1>4. \A i \in 0..(K - 1) : \E k \in places : before[k] = i
  <2> DEFINE T == 0..(K - 1)
  <2>1. IsFiniteSet(T) /\ Cardinality(T) = K
    <3> HIDE DEF K
    <3> QED BY <1>1, FS_Interval
  <2>2. before \in Injection(places, T)
    BY <1>2, <1>3, Fun_IsInj
  <2>3. before \in Surjection(places, T)
    BY <2>1, <2>2, FS_Injection
  <2> HIDE DEF before, T
  <2>4. \A i \in T : \E k \in places : before[k] = i
    BY <2>3, Fun_SurjectionProperties
  <2> QED
    BY <2>4 DEF T
<1>5. ASSUME NEW n \in 1..K
      PROVE  LET k == CHOOSE k \in places : Before(k, places) = n - 1
             IN  k \in places /\ Before(k, places) = n - 1
  <2>1. n - 1 \in 0..(K - 1)
    BY <1>1
  <2>2. \E k \in places : Before(k, places) = n - 1
    BY <1>4, <2>1
  <2> QED
    BY <2>2
<1>6. Pick(places, questions) \in [1..K -> Q]
  BY <1>5 DEF Pick
<1>7. Pick(places, questions) \in Seq(Q) /\ DOMAIN Pick(places, questions) = 1..K
  <2> HIDE DEF K
  <2> QED BY <1>1, <1>6
<1>8. \A n \in 1..K : \E k \in places :
        Pick(places, questions)[n] = questions[k] /\ Before(k, places) = n - 1
  BY <1>5 DEF Pick
<1>9. ASSUME NEW k \in places
      PROVE  \E n \in 1..K : Pick(places, questions)[n] = questions[k]
  <2>1. Before(k, places) \in 0..(K - 1)
    BY <1>1, BeforeCounts
  <2>2. Before(k, places) + 1 \in 1..K /\ (Before(k, places) + 1) - 1 = Before(k, places)
    BY <1>1, <2>1
  <2>3. PICK j \in places : /\ Pick(places, questions)[Before(k, places) + 1] = questions[j]
                            /\ Before(j, places) = Before(k, places)
    BY <1>8, <2>2
  <2>4. j = k
    BY <1>3, <2>3
  <2> QED
    BY <2>2, <2>3, <2>4
<1> QED
  BY <1>7, <1>8, <1>9

\* mergeById keeps every question and doubles none.
LEMMA MergeKeeps ==
  ASSUME NEW Q, NEW new \in Seq(Q), NEW old \in Seq(Q)
  PROVE  /\ MergeById(new, old) \in Seq(Q)
         /\ Ids(MergeById(new, old)) = Ids(new) \cup Ids(old)
         /\ Distinct(new) /\ Distinct(old) => Distinct(MergeById(new, old))
<1> DEFINE left == {k \in DOMAIN old : old[k].id \notin Ids(new)}
           rest_ == Pick(left, old)
           all == new \o rest_
<1>1. MergeById(new, old) = all
  BY DEF MergeById
<1>2. /\ rest_ \in Seq(Q)
      /\ \A n \in DOMAIN rest_ : \E k \in left : rest_[n] = old[k] /\ Before(k, left) = n - 1
      /\ \A k \in left : \E n \in DOMAIN rest_ : rest_[n] = old[k]
  <2>1. left \in SUBSET DOMAIN old
    OBVIOUS
  <2> HIDE DEF left
  <2> QED BY <2>1, PickedOnce
<1> HIDE DEF rest_
<1>3. /\ all \in Seq(Q) /\ Len(all) = Len(new) + Len(rest_)
      /\ Len(new) \in Nat /\ Len(rest_) \in Nat
      /\ DOMAIN new = 1..Len(new) /\ DOMAIN rest_ = 1..Len(rest_) /\ DOMAIN all = 1..Len(all)
      /\ \A k \in DOMAIN new : all[k] = new[k]
      /\ \A k \in DOMAIN rest_ : all[Len(new) + k] = rest_[k]
  BY <1>2
<1>4. ASSUME NEW k \in DOMAIN all
      PROVE  k \in DOMAIN new \/ \E n \in DOMAIN rest_ : k = Len(new) + n
  <2>1. CASE k <= Len(new)
    BY <1>3, <2>1
  <2>2. CASE k > Len(new)
    <3>1. k - Len(new) \in DOMAIN rest_ /\ k = Len(new) + (k - Len(new))
      BY <1>3, <2>2
    <3> QED BY <3>1
  <2> QED BY <1>3, <2>1, <2>2
<1>5. \A n \in DOMAIN rest_ : rest_[n].id \notin Ids(new) /\ rest_[n].id \in Ids(old)
  BY <1>2 DEF Ids
<1> HIDE DEF all
<1>6. Ids(all) \subseteq Ids(new) \cup Ids(old)
  <2> SUFFICES ASSUME NEW k \in DOMAIN all PROVE all[k].id \in Ids(new) \cup Ids(old)
    BY DEF Ids
  <2> QED BY <1>3, <1>4, <1>5 DEF Ids
<1>7. Ids(new) \subseteq Ids(all)
  <2> SUFFICES ASSUME NEW k \in DOMAIN new PROVE new[k].id \in Ids(all)
    BY DEF Ids
  <2>1. k \in DOMAIN all /\ all[k] = new[k]
    BY <1>3
  <2> QED BY <2>1 DEF Ids
<1>8. Ids(old) \subseteq Ids(all)
  <2> SUFFICES ASSUME NEW k \in DOMAIN old PROVE old[k].id \in Ids(all)
    BY DEF Ids
  <2>1. CASE k \in left
    <3>1. PICK n \in DOMAIN rest_ : rest_[n] = old[k]
      BY <1>2, <2>1
    <3>2. Len(new) + n \in DOMAIN all /\ all[Len(new) + n] = old[k]
      BY <1>3, <3>1
    <3> QED BY <3>2 DEF Ids
  <2>2. CASE k \notin left
    BY <1>7, <2>2
  <2> QED BY <2>1, <2>2
<1>9. ASSUME Distinct(new), Distinct(old) PROVE Distinct(all)
  <2>1. \A m, n \in DOMAIN rest_ : rest_[m].id = rest_[n].id => m = n
    <3> SUFFICES ASSUME NEW m \in DOMAIN rest_, NEW n \in DOMAIN rest_, rest_[m].id = rest_[n].id
                 PROVE  m = n
      OBVIOUS
    <3>1. PICK k \in left : rest_[m] = old[k] /\ Before(k, left) = m - 1
      BY <1>2
    <3>2. PICK j \in left : rest_[n] = old[j] /\ Before(j, left) = n - 1
      BY <1>2
    <3>3. k = j
      BY <1>9, <3>1, <3>2 DEF Distinct
    <3> QED BY <1>3, <3>1, <3>2, <3>3
  <2> SUFFICES ASSUME NEW k \in DOMAIN all, NEW n \in DOMAIN all, all[k].id = all[n].id
               PROVE  k = n
    BY DEF Distinct
  <2>2. CASE k \in DOMAIN new /\ n \in DOMAIN new
    BY <1>3, <1>9, <2>2 DEF Distinct
  <2>3. ASSUME NEW a \in DOMAIN new, NEW b \in DOMAIN rest_
        PROVE  all[a].id # all[Len(new) + b].id
    BY <1>3, <1>5 DEF Ids
  <2>4. ASSUME NEW a \in DOMAIN rest_, NEW b \in DOMAIN rest_,
               all[Len(new) + a].id = all[Len(new) + b].id
        PROVE  a = b
    BY <1>3, <2>1, <2>4
  <2> QED BY <1>4, <2>2, <2>3, <2>4
<1> QED
  BY <1>1, <1>3, <1>6, <1>7, <1>8, <1>9

LEMMA AddKeeps ==
  ASSUME NEW q \in Question, NEW shown \in Seq(Question)
  PROVE  /\ Add(q, shown) \in Seq(Question)
         /\ Ids(Add(q, shown)) = Ids(shown) \cup {q.id}
         /\ Distinct(shown) => Distinct(Add(q, shown))
<1>1. CASE q.id \in Ids(shown)
  BY <1>1 DEF Add
<1>2. CASE q.id \notin Ids(shown)
  <2>1. Add(q, shown) = Append(shown, q)
    BY <1>2 DEF Add
  <2>2. /\ Append(shown, q) \in Seq(Question)
        /\ DOMAIN Append(shown, q) = 1..(Len(shown) + 1) /\ DOMAIN shown = 1..Len(shown)
        /\ Len(shown) \in Nat
        /\ \A k \in DOMAIN shown : Append(shown, q)[k] = shown[k]
        /\ Append(shown, q)[Len(shown) + 1] = q
    OBVIOUS
  <2>3. Ids(Append(shown, q)) = Ids(shown) \cup {q.id}
    <3>1. \A k \in 1..(Len(shown) + 1) : k \in DOMAIN shown \/ k = Len(shown) + 1
      BY <2>2
    <3>2. Ids(shown) \subseteq Ids(Append(shown, q))
      <4> SUFFICES ASSUME NEW k \in DOMAIN shown PROVE shown[k].id \in Ids(Append(shown, q))
        BY DEF Ids
      <4>1. k \in DOMAIN Append(shown, q) /\ Append(shown, q)[k] = shown[k]
        BY <2>2
      <4> QED BY <4>1 DEF Ids
    <3>3. q.id \in Ids(Append(shown, q))
      <4>1. Len(shown) + 1 \in DOMAIN Append(shown, q)
        BY <2>2
      <4> QED BY <2>2, <4>1 DEF Ids
    <3>4. Ids(Append(shown, q)) \subseteq Ids(shown) \cup {q.id}
      BY <2>2, <3>1 DEF Ids
    <3> QED BY <3>2, <3>3, <3>4
  <2>4. ASSUME Distinct(shown) PROVE Distinct(Append(shown, q))
    <3> SUFFICES ASSUME NEW k \in 1..(Len(shown) + 1), NEW n \in 1..(Len(shown) + 1),
                        Append(shown, q)[k].id = Append(shown, q)[n].id
                 PROVE  k = n
      BY <2>2 DEF Distinct
    <3>1. \A i \in DOMAIN shown : shown[i].id # q.id
      BY <1>2 DEF Ids
    <3> QED BY <2>2, <2>4, <3>1 DEF Distinct
  <2> QED BY <2>1, <2>2, <2>3, <2>4
<1> QED BY <1>1, <1>2

LEMMA UpdateKeeps ==
  ASSUME NEW q \in Question, NEW shown \in Seq(Question)
  PROVE  /\ Update(q, shown) \in Seq(Question)
         /\ Ids(Update(q, shown)) = Ids(shown) \cup {q.id}
         /\ Distinct(shown) => Distinct(Update(q, shown))
<1>1. CASE q.id \in Ids(shown)
  <2>1. PICK new : new = [k \in DOMAIN shown |-> IF shown[k].id = q.id THEN q ELSE shown[k]]
    OBVIOUS
  <2>2. Update(q, shown) = new
    BY <1>1, <2>1 DEF Update
  <2>3. /\ DOMAIN new = DOMAIN shown /\ \A k \in DOMAIN shown : new[k] \in Question
        /\ \A k \in DOMAIN shown : new[k].id = shown[k].id
    BY <2>1
  <2>4. new \in Seq(Question)
    <3>1. DOMAIN shown = 1..Len(shown) /\ Len(shown) \in Nat
      OBVIOUS
    <3>2. new \in [1..Len(shown) -> Question]
      BY <2>1, <2>3, <3>1
    <3> QED BY <3>1, <3>2
  <2> QED BY <1>1, <2>2, <2>3, <2>4 DEF Ids, Distinct
<1>2. CASE q.id \notin Ids(shown)
  <2>1. Update(q, shown) = Add(q, shown)
    BY <1>2 DEF Update, Add
  <2> QED BY <2>1, AddKeeps
<1> QED BY <1>1, <1>2

\* An inbox takes a message behind the others, and gives the first.
LEMMA BoxTakes ==
  ASSUME NEW box \in Seq(Message), NEW m \in Message
  PROVE  /\ Append(box, m) \in Seq(Message)
         /\ Carried(Append(box, m)) = Carried(box) \cup Ids(m.questions)
         /\ BoxOK(box) /\ BoxOK(<<m>>) => BoxOK(Append(box, m))
<1>1. /\ Append(box, m) \in Seq(Message)
      /\ DOMAIN Append(box, m) = 1..(Len(box) + 1) /\ DOMAIN box = 1..Len(box)
      /\ Len(box) \in Nat
      /\ \A k \in DOMAIN box : Append(box, m)[k] = box[k]
      /\ Append(box, m)[Len(box) + 1] = m
  OBVIOUS
<1>2. /\ DOMAIN Append(box, m) = DOMAIN box \cup {Len(box) + 1}
  BY <1>1
<1>3. Carried(Append(box, m)) = Carried(box) \cup Ids(m.questions)
  BY <1>1, <1>2 DEF Carried
<1>4. DOMAIN <<m>> = {1} /\ <<m>>[1] = m
  OBVIOUS
<1>5. BoxOK(box) /\ BoxOK(<<m>>) => BoxOK(Append(box, m))
  BY <1>1, <1>2, <1>4 DEF BoxOK
<1> QED BY <1>1, <1>3, <1>5

LEMMA BoxGives ==
  ASSUME NEW box \in Seq(Message), box # <<>>
  PROVE  /\ Head(box) \in Message /\ Tail(box) \in Seq(Message)
         /\ Carried(box) = Carried(Tail(box)) \cup Ids(Head(box).questions)
         /\ BoxOK(box) => /\ BoxOK(Tail(box)) /\ Distinct(Head(box).questions)
                          /\ Head(box).kind # "history" => Len(Head(box).questions) = 1
<1>1. /\ Head(box) \in Message /\ Tail(box) \in Seq(Message) /\ Head(box) = box[1]
      /\ DOMAIN box = 1..Len(box) /\ Len(box) \in Nat /\ Len(box) >= 1
      /\ DOMAIN Tail(box) = 1..(Len(box) - 1)
      /\ \A k \in DOMAIN Tail(box) : Tail(box)[k] = box[k + 1]
  OBVIOUS
<1>2. /\ 1 \in DOMAIN box /\ \A k \in DOMAIN Tail(box) : k + 1 \in DOMAIN box
      /\ \A k \in DOMAIN box : k = 1 \/ (k - 1 \in DOMAIN Tail(box) /\ (k - 1) + 1 = k)
  BY <1>1
<1>3. Carried(Tail(box)) \cup Ids(Head(box).questions) \subseteq Carried(box)
  BY <1>1, <1>2 DEF Carried
<1>4. Carried(box) \subseteq Carried(Tail(box)) \cup Ids(Head(box).questions)
  <2> SUFFICES ASSUME NEW k \in DOMAIN box
               PROVE  Ids(box[k].questions) \subseteq Carried(Tail(box)) \cup Ids(Head(box).questions)
    BY DEF Carried
  <2>1. CASE k = 1
    BY <1>1, <2>1
  <2>2. CASE k - 1 \in DOMAIN Tail(box) /\ (k - 1) + 1 = k
    <3>1. Tail(box)[k - 1] = box[k]
      BY <1>1, <2>2
    <3> QED BY <2>2, <3>1 DEF Carried
  <2> QED BY <1>2, <2>1, <2>2
<1>5. BoxOK(box) => /\ BoxOK(Tail(box)) /\ Distinct(Head(box).questions)
                    /\ Head(box).kind # "history" => Len(Head(box).questions) = 1
  BY <1>1, <1>2 DEF BoxOK
<1> QED BY <1>1, <1>3, <1>4, <1>5

LEMMA EmptyLists ==
  /\ Distinct(<<>>) /\ BoxOK(<<>>) /\ Ids(<<>>) = {} /\ Carried(<<>>) = {}
  /\ \A q : Distinct(<<q>>) /\ Ids(<<q>>) = {q.id} /\ Len(<<q>>) = 1
<1>1. DOMAIN <<>> = {}
  OBVIOUS
<1>2. ASSUME NEW q PROVE Distinct(<<q>>) /\ Ids(<<q>>) = {q.id} /\ Len(<<q>>) = 1
  <2>1. DOMAIN <<q>> = {1} /\ <<q>>[1] = q /\ Len(<<q>>) = 1
    OBVIOUS
  <2> QED BY <2>1 DEF Distinct, Ids
<1> QED BY <1>1, <1>2 DEF Distinct, BoxOK, Ids, Carried

-----------------------------------------------------------------------------
(* The backlog.                                                             *)

LEMMA FirstNumbers ==
  ASSUME NEW N \in Nat, NEW K \in SUBSET (1..N),
         \A i \in K : \A j \in 1..N : j < i => j \in K
  PROVE  Cardinality(K) \in Nat /\ K = 1..Cardinality(K)
<1>1. IsFiniteSet(1..N) /\ IsFiniteSet(K) /\ Cardinality(K) \in Nat
  <2>1. IsFiniteSet(1..N)
    BY FS_Interval
  <2>2. IsFiniteSet(K)
    BY <2>1, FS_Subset
  <2> QED BY <2>1, <2>2, FS_CardinalityType
<1>2. ASSUME NEW i \in K PROVE i <= Cardinality(K)
  <2>1. i \in Nat /\ i >= 1 /\ i <= N
    OBVIOUS
  <2>2. (1..i) \in SUBSET K
    BY <2>1
  <2>3. Cardinality(1..i) = i
    BY <2>1, FS_Interval
  <2> QED BY <1>1, <2>2, <2>3, FS_Subset
<1>3. PICK c \in Nat : c = Cardinality(K)
  BY <1>1
<1>4. IsFiniteSet(1..c) /\ Cardinality(1..c) = c
  BY FS_Interval
<1>5. K \in SUBSET (1..c)
  BY <1>2, <1>3
<1>6. K = 1..c
  BY <1>3, <1>4, <1>5, FS_Subset
<1> QED BY <1>1, <1>3, <1>6

\* The rows read are different ones; and all of them, when the limit lets them.
LEMMA OldestRows ==
  ASSUME TypeOK, RowsOK
  PROVE  /\ Oldest \in Seq(Question) /\ Distinct(Oldest)
         /\ Cardinality(Items) <= HistoryLimit =>
              \A i \in Items : rows[i] # 0 => i \in Ids(Oldest)
<1>1. PICK N \in Nat : N = Cardinality(Items) /\ Items = 1..N
  BY FeedAssumption, FS_CardinalityType
<1>2. PICK known : known = {i \in Items : rows[i] # 0 /\ i <= HistoryLimit}
  OBVIOUS
<1>3. HistoryLimit \in Nat /\ known \in SUBSET (1..N)
  BY <1>1, <1>2, FeedAssumption
<1>4. ASSUME NEW i \in known, NEW j \in 1..N, j < i PROVE j \in known
  <2>1. rows[j] # 0
    BY <1>1, <1>2, <1>4 DEF RowsOK
  <2>2. j <= HistoryLimit
    BY <1>1, <1>2, <1>3, <1>4
  <2> QED BY <1>1, <1>2, <2>1, <2>2
<1>5. PICK c \in Nat : c = Cardinality(known) /\ known = 1..c
  BY <1>3, <1>4, FirstNumbers
<1>6. Oldest = [i \in 1..c |-> [id |-> i, version |-> rows[i]]]
  BY <1>2, <1>5 DEF Oldest
<1>7. \A i \in 1..c : i \in Items /\ rows[i] \in 1..(MaxAnswers + 1)
  <2> SUFFICES ASSUME NEW i \in known PROVE i \in Items /\ rows[i] \in 1..(MaxAnswers + 1)
    BY <1>5
  <2>1. i \in Items /\ rows[i] # 0
    BY <1>2
  <2>2. rows[i] \in 0..(MaxAnswers + 1) /\ MaxAnswers \in Nat
    BY <2>1, FeedAssumption DEF TypeOK
  <2> QED BY <2>1, <2>2
<1>8. Oldest \in [1..c -> Question]
  BY <1>6, <1>7 DEF Question
<1>9. Oldest \in Seq(Question) /\ DOMAIN Oldest = 1..c /\ \A i \in 1..c : Oldest[i].id = i
  BY <1>6, <1>8
<1>10. Distinct(Oldest)
  BY <1>9 DEF Distinct
<1>11. ASSUME Cardinality(Items) <= HistoryLimit, NEW i \in Items, rows[i] # 0
       PROVE  i \in Ids(Oldest)
  <2>1. i \in 1..c
    <3>1. i <= N /\ i \in Nat /\ N <= HistoryLimit
      <4>1. i \in 1..N
        BY <1>1
      <4>2. N <= HistoryLimit
        BY <1>1, <1>11
      <4> QED BY <4>1, <4>2
    <3>2. i <= HistoryLimit
      BY <1>3, <3>1
    <3> QED BY <1>2, <1>5, <1>11, <3>2
  <2> QED BY <1>9, <2>1 DEF Ids
<1> QED BY <1>9, <1>10, <1>11

-----------------------------------------------------------------------------
(* The steps of the server.                                                 *)

LEMMA FeedBegins == Init => FeedInv /\ \A v \in Viewers : Covered(v)
<1> SUFFICES ASSUME Init PROVE FeedInv /\ \A v \in Viewers : Covered(v)
  OBVIOUS
<1>1. TypeOK
  BY FeedAssumption DEF Init, TypeOK, Seat
<1>2. RowsOK
  BY DEF Init, RowsOK
<1>3. ASSUME NEW v \in Viewers PROVE ListsOK(v) /\ Covered(v)
  BY EmptyLists DEF Init, ListsOK, Covered
<1> QED BY <1>1, <1>2, <1>3 DEF FeedInv

LEMMA BroadcastReaches ==
  ASSUME FeedInv, NEW kind \in {"new", "answered"}, NEW q \in Question, Broadcast(kind, q)
  PROVE  /\ inbox' \in [Viewers -> Seq(Message)]
         /\ \A v \in Viewers :
              /\ BoxOK(inbox'[v])
              /\ Carried(inbox[v]) \subseteq Carried(inbox'[v])
              /\ InRoom(v) => q.id \in Carried(inbox'[v])
<1>1. PICK m : m = [kind |-> kind, questions |-> <<q>>]
  OBVIOUS
<1>2. m \in Message /\ BoxOK(<<m>>) /\ Ids(m.questions) = {q.id}
  <2>1. m \in Message /\ m.questions = <<q>> /\ Len(<<m>>) = 1
    BY <1>1 DEF Message
  <2>2. DOMAIN <<m>> = {1} /\ <<m>>[1] = m
    OBVIOUS
  <2> QED BY <2>1, <2>2, EmptyLists DEF BoxOK
<1>3. \A v \in Viewers : inbox'[v] = IF InRoom(v) THEN Append(inbox[v], m) ELSE inbox[v]
  BY <1>1 DEF Broadcast
<1>4. ASSUME NEW v \in Viewers
      PROVE  /\ inbox'[v] \in Seq(Message) /\ BoxOK(inbox'[v])
             /\ Carried(inbox[v]) \subseteq Carried(inbox'[v])
             /\ InRoom(v) => q.id \in Carried(inbox'[v])
  <2>1. inbox[v] \in Seq(Message) /\ BoxOK(inbox[v])
    BY DEF FeedInv, TypeOK, ListsOK
  <2> QED BY <1>2, <1>3, <2>1, BoxTakes
<1>5. inbox' \in [Viewers -> Seq(Message)]
  BY <1>1, <1>3, <1>4 DEF Broadcast
<1> QED BY <1>4, <1>5

\* A browser is covered as long as nothing is announced or lost.
LEMMA CoverStays ==
  ASSUME NEW v \in Viewers, Covered(v), Announced' \subseteq Announced,
         seat'[v] \in {"read", "seated"} => seat[v] \in {"read", "seated"},
         Reaching(v) \subseteq Reaching(v)'
  PROVE  Covered(v)'
BY DEF Covered

LEMMA QuestionSteps ==
  ASSUME FeedInv, \A v \in Viewers : Covered(v), NEW i \in Items, Ask(i) \/ Post(i) \/ Answer(i)
  PROVE  FeedInv' /\ \A v \in Viewers : Covered(v)'
<1>1. PICK n \in 1..(MaxAnswers + 1) :
        /\ rows' = [rows EXCEPT ![i] = n]
        /\ \A j \in Items : j < i => rows[j] # 0
        /\ rows[i] # 0 => i \notin asks' \ asks /\ i \notin posted' \ posted
        /\ rows[i] = 0 => i \in asks' \cup posted'
  <2>1. MaxAnswers \in Nat /\ rows[i] \in 0..(MaxAnswers + 1)
    BY FeedAssumption DEF FeedInv, TypeOK
  <2>2. CASE Ask(i) \/ Post(i)
    <3>1. 1 \in 1..(MaxAnswers + 1)
      BY <2>1
    <3> QED BY <2>2, <3>1 DEF Ask, Post, Youngest
  <2>3. CASE Answer(i)
    <3>1. rows[i] + 1 \in 1..(MaxAnswers + 1) /\ rows[i] # 0 /\ rows' = [rows EXCEPT ![i] = rows[i] + 1]
      BY <2>1, <2>3 DEF Answer
    <3>2. \A j \in Items : j < i => rows[j] # 0
      BY <3>1 DEF FeedInv, RowsOK
    <3> QED BY <2>3, <3>1, <3>2 DEF Answer
  <2> QED BY <2>2, <2>3
<1>2. /\ UNCHANGED <<seat, backlog, rest, inbox, list, faults>>
      /\ asks' \subseteq asks \cup {i} /\ posted' \subseteq posted \cup {i}
      /\ asks \subseteq asks' /\ posted \subseteq posted'
  BY DEF Ask, Post, Answer
<1>3. \A j \in Items : /\ j # i => rows'[j] = rows[j]
                       /\ rows'[i] = n
                       /\ n # 0
  BY <1>1 DEF FeedInv, TypeOK
<1>4. RowsOK'
  <2>1. \A j \in Items : rows[j] # 0 => rows'[j] # 0
    BY <1>3
  <2>2. ASSUME NEW k \in Items, NEW j \in Items, j < k, rows'[k] # 0 PROVE rows'[j] # 0
    BY <1>1, <1>3, <2>1, <2>2 DEF FeedInv, RowsOK
  <2>3. \A k \in asks' \cup posted' : rows'[k] # 0
    <3>1. asks \cup posted \subseteq Items
      BY DEF FeedInv, TypeOK
    <3> QED BY <1>2, <1>3, <2>1, <3>1 DEF FeedInv, RowsOK
  <2> QED BY <2>2, <2>3 DEF RowsOK
<1>5. TypeOK'
  <2>1. rows' \in [Items -> 0..(MaxAnswers + 1)]
    <3>1. n \in 0..(MaxAnswers + 1)
      BY <1>1, FeedAssumption
    <3> QED BY <1>1, <3>1 DEF FeedInv, TypeOK
  <2>2. posted' \subseteq Items /\ asks' \subseteq Items \ posted'
    <3>1. rows[i] = 0 => i \notin asks /\ i \notin posted
      BY DEF FeedInv, RowsOK
    <3> QED BY <3>1 DEF FeedInv, TypeOK, Ask, Post, Answer, Youngest
  <2>3. answers' \subseteq [id : Items, version : 2..(MaxAnswers + 1)]
    <3>1. CASE Answer(i)
      <4>1. rows[i] \in 1..MaxAnswers /\ MaxAnswers \in Nat
        BY <3>1, FeedAssumption DEF Answer
      <4>2. rows[i] + 1 \in 2..(MaxAnswers + 1)
        BY <4>1
      <4> QED BY <3>1, <4>2 DEF FeedInv, TypeOK, Answer
    <3> QED BY <3>1 DEF FeedInv, TypeOK, Ask, Post
  <2> QED BY <1>2, <2>1, <2>2, <2>3 DEF FeedInv, TypeOK
<1>6. Announced' \subseteq Announced
  <2> SUFFICES ASSUME NEW k \in Announced' PROVE k \in Announced
    OBVIOUS
  <2>1. k \in Items /\ k \notin asks' /\ k \notin posted' /\ rows'[k] # 0
    BY DEF Announced
  <2> QED BY <1>1, <1>2, <1>3, <2>1 DEF Announced
<1> QED BY <1>2, <1>4, <1>5, <1>6, CoverStays DEF FeedInv, ListsOK, Covered, Reaching

LEMMA AnnounceSteps ==
  ASSUME FeedInv, \A v \in Viewers : Covered(v),
         \/ \E i \in Items : Announce(i)
         \/ \E a \in answers : AnnounceAnswer(a)
  PROVE  FeedInv' /\ \A v \in Viewers : Covered(v)'
<1>1. PICK kind \in {"new", "answered"}, q \in Question :
        /\ Broadcast(kind, q)
        /\ asks' \subseteq asks /\ asks \subseteq asks' \cup {q.id} /\ answers' \subseteq answers
        /\ UNCHANGED <<rows, posted, seat, backlog, rest, list, faults>>
  <2>1. ASSUME NEW i \in Items, Announce(i)
        PROVE  \E q \in Question :
                 /\ Broadcast("new", q)
                 /\ asks' \subseteq asks /\ asks \subseteq asks' \cup {q.id} /\ answers' \subseteq answers
    <3>1. 1 \in 1..(MaxAnswers + 1)
      BY FeedAssumption
    <3>2. [id |-> i, version |-> 1] \in Question
      BY <3>1 DEF Question
    <3> QED BY <2>1, <3>2 DEF Announce
  <2>2. ASSUME NEW a \in answers, AnnounceAnswer(a)
        PROVE  \E q \in Question :
                 /\ Broadcast("answered", q)
                 /\ asks' \subseteq asks /\ asks \subseteq asks' \cup {q.id} /\ answers' \subseteq answers
    <3>1. a \in [id : Items, version : 2..(MaxAnswers + 1)] /\ MaxAnswers \in Nat
      BY FeedAssumption DEF FeedInv, TypeOK
    <3>2. a \in Question
      BY <3>1 DEF Question
    <3> QED BY <2>2, <3>2 DEF AnnounceAnswer
  <2> QED BY <2>1, <2>2 DEF Announce, AnnounceAnswer
<1>2. TypeOK'
  <2>1. inbox' \in [Viewers -> Seq(Message)]
    BY <1>1, BroadcastReaches
  <2> QED BY <1>1, <2>1 DEF FeedInv, TypeOK
<1>3. RowsOK'
  BY <1>1 DEF FeedInv, RowsOK
<1>4. ASSUME NEW v \in Viewers PROVE ListsOK(v)'
  BY <1>1, BroadcastReaches DEF FeedInv, ListsOK
<1>5. ASSUME NEW v \in Viewers PROVE Covered(v)'
  <2> SUFFICES ASSUME BacklogSuffices, seat[v] \in {"read", "seated"}, NEW i \in Announced'
               PROVE  i \in Reaching(v)'
    BY <1>1 DEF Covered
  <2>1. i \in Announced \/ i = q.id
    BY <1>1 DEF Announced
  <2>2. CASE i \in Announced
    BY <1>1, <2>2, BroadcastReaches DEF Covered, Reaching
  <2>3. CASE i = q.id
    <3>1. InRoom(v)
      BY DEF InRoom
    <3> QED BY <1>1, <2>3, <3>1, BroadcastReaches DEF Reaching
  <2> QED BY <2>1, <2>2, <2>3
<1> QED BY <1>2, <1>3, <1>4, <1>5 DEF FeedInv

LEMMA RestartSteps ==
  ASSUME FeedInv, Restart
  PROVE  FeedInv' /\ \A v \in Viewers : Covered(v)'
<1>1. TypeOK'
  BY DEF Restart, Fault, FeedInv, TypeOK, Seat
<1>2. RowsOK'
  BY DEF Restart, FeedInv, RowsOK
<1>3. ASSUME NEW v \in Viewers PROVE ListsOK(v)' /\ Covered(v)'
  BY EmptyLists DEF Restart, FeedInv, ListsOK, Covered
<1> QED BY <1>1, <1>2, <1>3 DEF FeedInv

-----------------------------------------------------------------------------
(* The steps of a browser's connection and page.                            *)

\* What such a step owes: it touches one browser, and takes nothing from it
\* but with its connection.
OneBrowser(v) ==
  /\ UNCHANGED <<rows, posted, asks, answers>> /\ faults' \in Nat
  /\ \A u \in Viewers \ {v} :
       /\ seat'[u] = seat[u] /\ backlog'[u] = backlog[u] /\ rest'[u] = rest[u]
       /\ inbox'[u] = inbox[u] /\ list'[u] = list[u]

BrowserTypes ==
  /\ seat \in [Viewers -> Seat]
  /\ backlog \in [Viewers -> Seq(Question)]
  /\ rest \in [Viewers -> [pc : {"new", "answered", "done"}, questions : Seq(Question)]]
  /\ inbox \in [Viewers -> Seq(Message)]
  /\ list \in [Viewers -> Seq(Question)]

LEMMA BrowserKeeps ==
  ASSUME FeedInv, \A u \in Viewers : Covered(u), NEW v \in Viewers,
         OneBrowser(v), BrowserTypes', ListsOK(v)', Covered(v)'
  PROVE  FeedInv' /\ \A u \in Viewers : Covered(u)'
<1>1. TypeOK' /\ RowsOK'
  BY DEF FeedInv, TypeOK, RowsOK, OneBrowser, BrowserTypes
<1>2. ASSUME NEW u \in Viewers PROVE ListsOK(u)' /\ Covered(u)'
  <2>1. CASE u # v
    BY <2>1 DEF OneBrowser, FeedInv, ListsOK, Covered, Reaching, Announced
  <2> QED BY <2>1
<1> QED BY <1>1, <1>2 DEF FeedInv

LEMMA BrowserTyped == FeedInv => BrowserTypes
BY DEF FeedInv, TypeOK, BrowserTypes

LEMMA ConnectionSteps ==
  ASSUME FeedInv, \A u \in Viewers : Covered(u), NEW v \in Viewers,
         Enter(v) \/ BacklogFails(v) \/ Drop(v) \/ RestRead(v) \/ RestFails(v)
  PROVE  FeedInv' /\ \A u \in Viewers : Covered(u)'
<1> USE BrowserTyped DEF BrowserTypes
<1>1. Oldest \in Seq(Question) /\ Distinct(Oldest)
  BY OldestRows DEF FeedInv
<1>2. faults \in Nat /\ ListsOK(v)
  BY DEF FeedInv, TypeOK
<1>3. OneBrowser(v)
  BY <1>2 DEF OneBrowser, Enter, BacklogFails, Drop, RestRead, RestFails, Fault
<1>4. BrowserTypes'
  <2>1. <<>> \in Seq(Question) /\ <<>> \in Seq(Message)
    OBVIOUS
  <2>2. CASE Enter(v)
    BY <2>2 DEF Enter, Seat
  <2>3. CASE BacklogFails(v)
    BY <2>3 DEF BacklogFails, Seat
  <2>4. CASE Drop(v)
    BY <2>1, <2>4 DEF Drop, Seat
  <2>5. CASE RestRead(v)
    BY <1>1, <2>5 DEF RestRead
  <2>6. CASE RestFails(v)
    BY <2>1, <2>6 DEF RestFails
  <2> QED BY <2>2, <2>3, <2>4, <2>5, <2>6
<1>5. ListsOK(v)'
  BY <1>1, <1>2, EmptyLists DEF Enter, BacklogFails, Drop, RestRead, RestFails, ListsOK
<1>6. CASE Enter(v) \/ BacklogFails(v) \/ Drop(v)
  <2>1. seat'[v] \notin {"read", "seated"}
    BY <1>6 DEF Enter, BacklogFails, Drop
  <2> QED BY <1>3, <1>4, <1>5, <2>1, BrowserKeeps DEF Covered
<1>7. CASE RestRead(v) \/ RestFails(v)
  <2>1. Covered(v)'
    BY <1>7 DEF RestRead, RestFails, Covered, Reaching, Announced
  <2> QED BY <1>3, <1>4, <1>5, <2>1, BrowserKeeps
<1> QED BY <1>6, <1>7

LEMMA BacklogSteps ==
  ASSUME FeedInv, \A u \in Viewers : Covered(u), NEW v \in Viewers,
         ReadBacklog(v) \/ PushBacklog(v)
  PROVE  FeedInv' /\ \A u \in Viewers : Covered(u)'
<1> USE BrowserTyped DEF BrowserTypes
<1>1. /\ Oldest \in Seq(Question) /\ Distinct(Oldest)
      /\ BacklogSuffices => Announced \subseteq Ids(Oldest)
  BY OldestRows DEF FeedInv, BacklogSuffices, Announced
<1>2. faults \in Nat /\ ListsOK(v)
  BY DEF FeedInv, TypeOK
<1>3. OneBrowser(v)
  BY <1>2 DEF OneBrowser, ReadBacklog, PushBacklog
<1>4. CASE ReadBacklog(v)
  <2>1. BrowserTypes' /\ ListsOK(v)'
    BY <1>1, <1>2, <1>4 DEF ReadBacklog, Seat, ListsOK
  <2>2. Covered(v)'
    BY <1>1, <1>4 DEF ReadBacklog, Covered, Reaching, Announced
  <2> QED BY <1>3, <2>1, <2>2, BrowserKeeps
<1>5. CASE PushBacklog(v)
  <2>1. PICK m : m = [kind |-> "history", questions |-> backlog[v]]
    OBVIOUS
  <2>2. m \in Message /\ BoxOK(<<m>>)
    <3>1. DOMAIN <<m>> = {1} /\ <<m>>[1] = m
      OBVIOUS
    <3> QED BY <1>2, <2>1, <3>1 DEF Message, ListsOK, BoxOK
  <2>3. inbox[v] \in Seq(Message) /\ inbox' = [inbox EXCEPT ![v] = Append(inbox[v], m)]
    BY <1>5, <2>1 DEF PushBacklog
  <2>4. /\ Append(inbox[v], m) \in Seq(Message) /\ BoxOK(Append(inbox[v], m))
        /\ Carried(Append(inbox[v], m)) = Carried(inbox[v]) \cup Ids(backlog[v])
    BY <1>2, <2>1, <2>2, <2>3, BoxTakes DEF ListsOK
  <2>5. BrowserTypes'
    BY <1>5, <2>3, <2>4 DEF PushBacklog, Seat
  <2>6. ListsOK(v)'
    BY <1>2, <1>5, <2>3, <2>4, EmptyLists DEF PushBacklog, ListsOK
  <2>7. Covered(v)'
    BY <1>5, <2>3, <2>4 DEF PushBacklog, Covered, Reaching, Announced
  <2> QED BY <1>3, <2>5, <2>6, <2>7, BrowserKeeps
<1> QED BY <1>4, <1>5

\* What is merged into a list, or added to it, is shown beside what was.
LEMMA ListSteps ==
  ASSUME FeedInv, \A u \in Viewers : Covered(u), NEW v \in Viewers,
         Receive(v) \/ RestArrives(v)
  PROVE  FeedInv' /\ \A u \in Viewers : Covered(u)'
<1> USE BrowserTyped DEF BrowserTypes
<1>1. faults \in Nat /\ ListsOK(v)
  BY DEF FeedInv, TypeOK
<1>2. OneBrowser(v)
  BY <1>1 DEF OneBrowser, Receive, RestArrives
<1>3. CASE Receive(v)
  <2>1. PICK m : m = Head(inbox[v])
    OBVIOUS
  <2>2. /\ m \in Message /\ Tail(inbox[v]) \in Seq(Message) /\ BoxOK(Tail(inbox[v]))
        /\ Carried(inbox[v]) = Carried(Tail(inbox[v])) \cup Ids(m.questions)
        /\ Distinct(m.questions)
        /\ m.kind # "history" => Len(m.questions) = 1
    <3>1. inbox[v] \in Seq(Message) /\ inbox[v] # <<>> /\ BoxOK(inbox[v])
      BY <1>1, <1>3 DEF Receive, ListsOK
    <3> QED BY <2>1, <3>1, BoxGives
  <2>3. PICK shown :
          /\ list' = [list EXCEPT ![v] = shown]
          /\ shown \in Seq(Question) /\ Distinct(shown)
          /\ Ids(shown) = Ids(list[v]) \cup Ids(m.questions)
    <3>1. list[v] \in Seq(Question) /\ Distinct(list[v]) /\ m.questions \in Seq(Question)
      BY <1>1, <2>2 DEF ListsOK, Message
    <3>2. m.kind \in {"new", "answered", "history"}
      BY <2>2 DEF Message
    <3>3. CASE m.kind = "history"
      <4>1. list' = [list EXCEPT ![v] = MergeById(m.questions, list[v])]
        BY <1>3, <2>1, <3>3 DEF Receive
      <4>2. PICK shown : shown = MergeById(m.questions, list[v])
        OBVIOUS
      <4>3. /\ shown \in Seq(Question) /\ Distinct(shown)
            /\ Ids(shown) = Ids(list[v]) \cup Ids(m.questions)
        BY <2>2, <3>1, <4>2, MergeKeeps
      <4> QED BY <4>1, <4>2, <4>3
    <3>4. CASE m.kind # "history"
      <4>1. Head(m.questions) \in Question /\ m.questions = <<Head(m.questions)>>
        <5>1. PICK qs \in Seq(Question) : qs = m.questions
          BY <3>1
        <5>2. Len(qs) = 1
          BY <2>2, <3>4, <5>1
        <5>3. DOMAIN qs = {1} /\ qs[1] = Head(qs) /\ Head(qs) \in Question
          <6>1. DOMAIN qs = 1..Len(qs) /\ \A k \in 1..Len(qs) : qs[k] \in Question
            BY <5>1
          <6>2. DOMAIN qs = {1} /\ qs[1] \in Question
            BY <5>2, <6>1
          <6>3. Head(qs) = qs[1]
            BY <5>1, <5>2
          <6> QED BY <6>2, <6>3
        <5>4. PICK q : q = Head(qs)
          OBVIOUS
        <5>5. <<q>> \in Seq(Question) /\ Len(<<q>>) = 1 /\ <<q>>[1] = q
          BY <5>3, <5>4
        <5>6. qs = <<q>>
          BY <5>2, <5>3, <5>4, <5>5
        <5> QED BY <5>1, <5>3, <5>4, <5>6
      <4>2. Ids(m.questions) = {Head(m.questions).id}
        <5>1. PICK q : q = Head(m.questions)
          OBVIOUS
        <5>2. m.questions = <<q>>
          BY <4>1, <5>1
        <5>3. Ids(<<q>>) = {q.id}
          BY EmptyLists
        <5> QED BY <5>1, <5>2, <5>3
      <4>3. \/ list' = [list EXCEPT ![v] = Add(Head(m.questions), list[v])]
            \/ list' = [list EXCEPT ![v] = Update(Head(m.questions), list[v])]
        BY <1>3, <2>1, <3>2, <3>4 DEF Receive
      <4> QED BY <3>1, <4>1, <4>2, <4>3, AddKeeps, UpdateKeeps
    <3> QED BY <3>3, <3>4
  <2>4. inbox' = [inbox EXCEPT ![v] = Tail(inbox[v])] /\ UNCHANGED <<rows, posted, asks, seat, backlog, rest>>
    BY <1>3 DEF Receive
  <2>5. BrowserTypes'
    BY <2>2, <2>3, <2>4
  <2>6. ListsOK(v)'
    BY <1>1, <2>2, <2>3, <2>4 DEF ListsOK
  <2>7. Covered(v)'
    BY <2>2, <2>3, <2>4 DEF Covered, Reaching, Announced
  <2> QED BY <1>2, <2>5, <2>6, <2>7, BrowserKeeps
<1>4. CASE RestArrives(v)
  <2>1. PICK shown :
          /\ list' = [list EXCEPT ![v] = shown]
          /\ shown \in Seq(Question) /\ Distinct(shown)
          /\ Ids(list[v]) \subseteq Ids(shown)
    <3>1. /\ list[v] \in Seq(Question) /\ rest[v].questions \in Seq(Question)
          /\ Distinct(list[v]) /\ Distinct(rest[v].questions)
      BY <1>1 DEF ListsOK
    <3>2. list' = [list EXCEPT ![v] = MergeById(rest[v].questions, list[v])]
      BY <1>4 DEF RestArrives
    <3>3. PICK shown : shown = MergeById(rest[v].questions, list[v])
      OBVIOUS
    <3>4. shown \in Seq(Question) /\ Distinct(shown) /\ Ids(list[v]) \subseteq Ids(shown)
      BY <3>1, <3>3, MergeKeeps
    <3> QED BY <3>2, <3>3, <3>4
  <2>2. /\ rest' = [rest EXCEPT ![v] = [pc |-> "done", questions |-> <<>>]]
        /\ UNCHANGED <<rows, posted, asks, seat, backlog, inbox>>
    BY <1>4 DEF RestArrives
  <2>3. BrowserTypes'
    BY <2>1, <2>2
  <2>4. ListsOK(v)'
    BY <1>1, <2>1, <2>2, EmptyLists DEF ListsOK
  <2>5. Covered(v)'
    BY <2>1, <2>2 DEF Covered, Reaching, Announced
  <2> QED BY <1>2, <2>3, <2>4, <2>5, BrowserKeeps
<1> QED BY <1>3, <1>4

-----------------------------------------------------------------------------
LEMMA FeedAlways == Spec => [](FeedInv /\ \A v \in Viewers : Covered(v))
<1> DEFINE Inv == FeedInv /\ \A v \in Viewers : Covered(v)
<1>1. Inv /\ [Next]_vars => Inv'
  <2> SUFFICES ASSUME Inv, [Next]_vars PROVE Inv'
    OBVIOUS
  <2>1. CASE ServerStep
    BY <2>1, QuestionSteps, AnnounceSteps, RestartSteps DEF ServerStep
  <2>2. ASSUME NEW v \in Viewers, ViewerStep(v) PROVE Inv'
    BY <2>2, ConnectionSteps, BacklogSteps, ListSteps DEF ViewerStep
  <2>3. CASE UNCHANGED vars
    BY <2>3 DEF vars, FeedInv, TypeOK, RowsOK, ListsOK, Covered, Reaching, Announced
  <2> QED BY <2>1, <2>2, <2>3 DEF Next
<1> QED BY FeedBegins, <1>1, PTL DEF Spec

\* Rows, handlers, connections and lists keep their types; the backlog and the
\* answer of the HTTP route are lists of rows that are there.
THEOREM TypeCorrect == Spec => []TypeOK
<1>1. FeedInv => TypeOK
  BY DEF FeedInv
<1> QED BY <1>1, FeedAlways, PTL

LEMMA DistinctIsOnce ==
  ASSUME NEW shown \in Seq(Question), Distinct(shown)
  PROVE  Cardinality(Ids(shown)) = Len(shown)
<1>1. PICK n \in Nat : n = Len(shown) /\ DOMAIN shown = 1..n
  OBVIOUS
<1>2. PICK f : f = [k \in 1..n |-> shown[k].id]
  OBVIOUS
<1>3. f \in Bijection(1..n, Ids(shown))
  <2>1. f \in [1..n -> Ids(shown)]
    BY <1>1, <1>2 DEF Ids
  <2>2. \A k, m \in 1..n : f[k] = f[m] => k = m
    BY <1>1, <1>2 DEF Distinct
  <2>3. \A i \in Ids(shown) : \E k \in 1..n : f[k] = i
    BY <1>1, <1>2 DEF Ids
  <2> QED BY <2>1, <2>2, <2>3, Fun_IsBij
<1>4. IsFiniteSet(1..n) /\ Cardinality(1..n) = n
  BY FS_Interval
<1>5. Cardinality(Ids(shown)) = n
  BY <1>3, <1>4, FS_Bijection DEF ExistsBijection
<1> QED BY <1>1, <1>5

\* A browser shows no question twice, whichever of the four ways brought it and
\* however short the backlog is cut.
THEOREM NoDuplicatesAlways == Spec => []NoDuplicates
<1>1. FeedInv => NoDuplicates
  BY DistinctIsOnce DEF FeedInv, TypeOK, ListsOK, NoDuplicates
<1> QED BY <1>1, FeedAlways, PTL

\* The list is whole, as long as the backlog takes all questions: once what was
\* announced has arrived, a browser shows each question that was asked in the
\* room, and once.
THEOREM ListIsWholeAlways == ASSUME BacklogSuffices PROVE Spec => []ListIsWhole
<1>1. FeedInv => NoDuplicates
  BY DistinctIsOnce DEF FeedInv, TypeOK, ListsOK, NoDuplicates
<1>2. ASSUME FeedInv, \A v \in Viewers : Covered(v) PROVE NothingMissed
  <2> SUFFICES ASSUME NEW v \in Viewers, seat[v] = "seated", inbox[v] = <<>>, asks = {},
                      NEW i \in Items \ posted, rows[i] # 0
               PROVE  i \in Ids(list[v])
    BY DEF NothingMissed
  <2>1. i \in Reaching(v)
    BY <1>2 DEF Covered, Announced
  <2>2. backlog[v] = <<>>
    BY <1>2 DEF FeedInv, ListsOK
  <2> QED BY <2>1, <2>2, EmptyLists DEF Reaching
<1> QED BY <1>1, <1>2, FeedAlways, PTL DEF ListIsWhole
=============================================================================
