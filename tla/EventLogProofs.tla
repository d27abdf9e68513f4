---------------------------- MODULE EventLogProofs ----------------------------
(***************************************************************************)
(* For any number of runs and events, and whatever is cut off, rotated,    *)
(* removed, copied or rewritten: a verified log has no gap above an event  *)
(* of a run that stands as it was written, and a log that nobody forged,   *)
(* written by one run after the other, is never called broken.  And a run  *)
(* that gets through tells of everything once.                             *)
(***************************************************************************)
EXTENDS EventLog, FiniteSetTheorems, SequenceTheorems, WellFoundedInduction, TLAPS

Entry == [id : Nat, prev : Int, rev : Nat]

\* What a run has written.
His(w, r) == {n \in DOMAIN w : w[n].run = r}

IsOpen(r) == state[r] = "open"

IsIdle(r) == state[r] = "idle"

Typed ==
    /\ log \in Seq(Entry)
    /\ \E S : wrote \in Seq(S)
    /\ state \in [Run -> {"idle", "open", "done", "failed"}]
    /\ hash \in [Run -> Int]
    /\ cut \in BOOLEAN /\ (cut => log # <<>>)
    /\ alone \in BOOLEAN /\ touched \in BOOLEAN /\ faults \in Nat

\* Whatever is in the file was written once.
Known == \A i \in DOMAIN log : IsEvent(log[i]) => log[i].id \in DOMAIN wrote

\* It stands in the order of writing, unless somebody has been at it.
InOrder ==
    ~touched => \A i, j \in DOMAIN log :
        i < j /\ IsEvent(log[i]) /\ IsEvent(log[j]) => log[i].id < log[j].id

\* An event is chained to the one its run wrote before it, if there is one.
Chained(w, line) ==
    /\ line.prev < line.id /\ line.prev # Misshapen
    /\ \A a \in His(w, w[line.id].run) : a < line.id =>
          line.prev \in His(w, w[line.id].run) /\ a <= line.prev

Linked == \A i \in DOMAIN log : AsWritten(log[i]) => Chained(wrote, log[i])

\* A writer knows the hash of the last event it wrote.
Remembers ==
    \A r \in Run :
        /\ hash[r] <= Len(wrote) /\ hash[r] # Misshapen
        /\ IsIdle(r) => His(wrote, r) = {}
        /\ IsOpen(r) => \A a \in His(wrote, r) : hash[r] \in His(wrote, r) /\ a <= hash[r]

GapInv == Typed /\ Known /\ InOrder /\ Linked /\ Remembers

-----------------------------------------------------------------------------
(* What the file and the history are after a step.                         *)

LEMMA GarbageType == Garbage \in Entry /\ Garbage.id = 0 /\ Garbage.prev = 0 /\ Garbage.rev = 0
BY DEF Garbage, Entry, NoHash

\* A line is added, or runs into the one that has no end.
LEMMA PutPlaces ==
    ASSUME Typed, NEW line \in Entry
    PROVE  /\ Put(line) \in Seq(Entry) /\ Put(line) # <<>>
           /\ Len(Put(line)) = IF cut THEN Len(log) ELSE Len(log) + 1
           /\ \A i \in 1 .. (Len(Put(line)) - 1) : i \in DOMAIN log /\ Put(line)[i] = log[i]
           /\ Put(line)[Len(Put(line))] = IF cut THEN Garbage ELSE line
<1>1. CASE cut
  <2>1. log \in Seq(Entry) /\ log # <<>> /\ Len(log) \in Nat /\ Len(log) > 0
    BY <1>1 DEF Typed
  <2>2. /\ Front(log) \in Seq(Entry) /\ Len(Front(log)) = Len(log) - 1
        /\ \A i \in 1 .. (Len(log) - 1) : Front(log)[i] = log[i]
    <3>1. Front(log) = SubSeq(log, 1, Len(log) - 1)
      BY DEF Front
    <3>2. ASSUME NEW m \in 0 .. Len(log)
          PROVE  /\ SubSeq(log, 1, m) \in Seq(Entry) /\ Len(SubSeq(log, 1, m)) = m
                 /\ \A i \in 1 .. m : SubSeq(log, 1, m)[i] = log[i]
      BY <2>1
    <3>3. Len(log) - 1 \in 0 .. Len(log)
      BY <2>1
    <3> QED
      BY <3>1, <3>2, <3>3
  <2>3. Put(line) = Append(Front(log), Garbage)
    BY <1>1 DEF Put
  <2> QED
    BY <2>1, <2>2, <2>3, <1>1, GarbageType
<1>2. CASE ~cut
  <2>1. Put(line) = Append(log, line) /\ log \in Seq(Entry)
    BY <1>2 DEF Put, Typed
  <2> QED
    BY <2>1, <1>2
<1> QED
  BY <1>1, <1>2

LEMMA RemovePlaces ==
    ASSUME NEW s \in Seq(Entry), NEW i \in DOMAIN s
    PROVE  /\ RemoveAt(s, i) \in Seq(Entry) /\ Len(RemoveAt(s, i)) = Len(s) - 1
           /\ \A k \in 1 .. (Len(s) - 1) :
                 RemoveAt(s, i)[k] = IF k < i THEN s[k] ELSE s[k + 1]
<1>1. i \in 1 .. Len(s) /\ Len(s) \in Nat
  OBVIOUS
<1> DEFINE a == SubSeq(s, 1, i - 1)
           b == SubSeq(s, i + 1, Len(s))
<1>2. a \in Seq(Entry) /\ Len(a) = i - 1 /\ \A k \in 1 .. (i - 1) : a[k] = s[k]
  BY <1>1
<1>3. b \in Seq(Entry) /\ Len(b) = Len(s) - i /\ \A k \in 1 .. (Len(s) - i) : b[k] = s[i + k]
  BY <1>1
<1>4. RemoveAt(s, i) = a \o b
  BY <1>1 DEF RemoveAt
<1> HIDE DEF a, b
<1>5. Len(a \o b) = Len(s) - 1 /\ a \o b \in Seq(Entry)
  BY <1>1, <1>2, <1>3
<1>6. ASSUME NEW k \in 1 .. (Len(s) - 1)
      PROVE  (a \o b)[k] = IF k < i THEN s[k] ELSE s[k + 1]
  <2>1. CASE k < i
    BY <1>1, <1>2, <1>3, <2>1
  <2>2. CASE k >= i
    <3>1. (a \o b)[k] = b[k - (i - 1)] /\ k - (i - 1) \in 1 .. (Len(s) - i)
      BY <1>1, <1>2, <1>3, <2>2
    <3> QED
      BY <1>1, <1>3, <2>2, <3>1
  <2>3. k < i \/ k >= i
    BY <1>1
  <2> QED
    BY <2>1, <2>2, <2>3
<1> QED
  BY <1>4, <1>5, <1>6

\* One more event in the history.
Tells1(r) == wrote' = Append(wrote, Told(r))

LEMMA HistoryGrowsBy ==
    ASSUME Typed, NEW r \in Run, Tells1(r)
    PROVE  /\ \E S : wrote' \in Seq(S)
           /\ Len(wrote) \in Nat /\ Len(wrote') = Len(wrote) + 1
           /\ DOMAIN wrote = 1 .. Len(wrote) /\ DOMAIN wrote' = 1 .. (Len(wrote) + 1)
           /\ \A n \in DOMAIN wrote : wrote'[n] = wrote[n]
           /\ wrote'[Len(wrote) + 1].run = r
           /\ His(wrote', r) = His(wrote, r) \cup {Len(wrote) + 1}
           /\ \A q \in Run : q # r => His(wrote', q) = His(wrote, q)
<1>1. PICK S : wrote \in Seq(S)
  BY DEF Typed
<1> DEFINE e == Told(r)
<1>2. e.run = r
  BY DEF Told
<1> HIDE DEF e
<1>3. wrote' = Append(wrote, e)
  BY DEF Tells1, e
<1>4. wrote \in Seq(S \cup {e}) /\ wrote' \in Seq(S \cup {e})
  BY <1>1, <1>3
<1>5. /\ Len(wrote) \in Nat /\ Len(wrote') = Len(wrote) + 1
      /\ DOMAIN wrote = 1 .. Len(wrote) /\ DOMAIN wrote' = 1 .. (Len(wrote) + 1)
      /\ \A n \in DOMAIN wrote : wrote'[n] = wrote[n]
      /\ wrote'[Len(wrote) + 1] = e
  BY <1>3, <1>4
<1>6. /\ His(wrote', r) = His(wrote, r) \cup {Len(wrote) + 1}
      /\ \A q \in Run : q # r => His(wrote', q) = His(wrote, q)
  BY <1>2, <1>5 DEF His
<1> QED
  BY <1>2, <1>4, <1>5, <1>6

-----------------------------------------------------------------------------
(* The file: order and links.                                              *)

FileInv == Known /\ InOrder /\ Linked

LEMMA LineType ==
    ASSUME Typed, Remembers, NEW r \in Run
    PROVE  /\ Line(r) \in Entry /\ Line(r).id = Len(wrote) + 1 /\ Line(r).prev = hash[r]
           /\ Line(r).rev = 0 /\ IsEvent(Line(r)) /\ Len(wrote) \in Nat
<1>1. PICK S : wrote \in Seq(S)
  BY DEF Typed
<1>2. Len(wrote) \in Nat /\ hash[r] \in Int
  BY <1>1 DEF Typed
<1>3. Line(r).id # Garbage.id
  BY <1>2, GarbageType DEF Line
<1> QED
  BY <1>2, <1>3 DEF Line, Entry, IsEvent

LEMMA FileAfterGarbage ==
    ASSUME Typed, FileInv, log' = Put(Garbage), UNCHANGED <<wrote, touched>>
    PROVE  FileInv'
<1> DEFINE m == Len(log')
<1>1. /\ log' \in Seq(Entry) /\ log \in Seq(Entry) /\ m \in Nat /\ DOMAIN log' = 1 .. m
      /\ \A i \in 1 .. (m - 1) : i \in DOMAIN log /\ log'[i] = log[i]
      /\ log'[m] = Garbage
  <2>1. Garbage \in Entry /\ log \in Seq(Entry)
    BY GarbageType DEF Typed
  <2> DEFINE put == Put(Garbage)
  <2>2. /\ put \in Seq(Entry) /\ put[Len(put)] = Garbage
        /\ \A i \in 1 .. (Len(put) - 1) : i \in DOMAIN log /\ put[i] = log[i]
    BY <2>1, PutPlaces
  <2>3. log' = put
    OBVIOUS
  <2> HIDE DEF put
  <2> QED
    BY <2>1, <2>2, <2>3
<1> HIDE DEF m
<1>2. ASSUME NEW i \in DOMAIN log', IsEvent(log'[i])
      PROVE  i \in DOMAIN log /\ i \in Int /\ log'[i] = log[i]
  BY <1>1, <1>2 DEF IsEvent
<1>4. Known'
  BY <1>2 DEF FileInv, Known
<1>5. InOrder'
  BY <1>2 DEF FileInv, InOrder
<1>6. Linked'
  BY <1>2 DEF FileInv, Linked, AsWritten
<1> QED
  BY <1>4, <1>5, <1>6 DEF FileInv

\* What was linked stays linked when the history grows.
LEMMA OldEntry ==
    ASSUME Typed, FileInv, NEW r \in Run, Tells1(r), NEW i \in DOMAIN log, IsEvent(log[i])
    PROVE  /\ log[i].id \in DOMAIN wrote'
           /\ log[i].id \in Int /\ log[i].id <= Len(wrote)
           /\ AsWritten(log[i]) => Chained(wrote', log[i])
<1> DEFINE line == log[i]
<1>1. line \in Entry
  BY DEF Typed
<1>2. line.id \in DOMAIN wrote /\ (AsWritten(line) => Chained(wrote, line))
  BY DEF FileInv, Known, Linked
<1> HIDE DEF line
<1>3. /\ DOMAIN wrote' = 1 .. (Len(wrote) + 1) /\ DOMAIN wrote = 1 .. Len(wrote)
      /\ \A k \in DOMAIN wrote : wrote'[k] = wrote[k]
      /\ Len(wrote) \in Nat
  BY HistoryGrowsBy
<1>4. line.id \in DOMAIN wrote' /\ line.id \in Int /\ line.id <= Len(wrote)
  BY <1>2, <1>3
<1>5. PICK q : q = wrote[line.id].run /\ q = wrote'[line.id].run
  BY <1>2, <1>3
<1>6. ASSUME NEW a \in His(wrote', q), a < line.id
      PROVE  a \in His(wrote, q)
  <2>1. a \in 1 .. (Len(wrote) + 1) /\ a < Len(wrote) + 1
    BY <1>3, <1>4, <1>6 DEF His
  <2>2. a \in DOMAIN wrote
    BY <1>3, <2>1
  <2> QED
    BY <1>3, <1>6, <2>2 DEF His
<1>7. His(wrote, q) \subseteq His(wrote', q)
  BY <1>3 DEF His
<1>8. AsWritten(line) => Chained(wrote', line)
  BY <1>2, <1>5, <1>6, <1>7 DEF Chained
<1> QED
  BY <1>4, <1>8 DEF line

LEMMA FileAfterLine ==
    ASSUME GapInv, NEW r \in Run, IsOpen(r), log' = Put(Line(r)), Tells1(r), touched' = touched
    PROVE  FileInv'
<1> DEFINE m == Len(log')
<1>1. Typed /\ FileInv /\ Remembers
  BY DEF GapInv, FileInv
<1>2. /\ log' \in Seq(Entry) /\ log \in Seq(Entry) /\ m \in Nat /\ DOMAIN log' = 1 .. m
      /\ \A i \in 1 .. (m - 1) : i \in DOMAIN log /\ log'[i] = log[i]
      /\ log'[m] = Garbage \/ log'[m] = Line(r)
  <2>1. Line(r) \in Entry /\ log \in Seq(Entry)
    BY <1>1, LineType DEF Typed
  <2> DEFINE put == Put(Line(r))
  <2>2. /\ put \in Seq(Entry) /\ put[Len(put)] \in {Garbage, Line(r)}
        /\ \A i \in 1 .. (Len(put) - 1) : i \in DOMAIN log /\ put[i] = log[i]
    BY <1>1, <2>1, PutPlaces
  <2>3. log' = put
    OBVIOUS
  <2> HIDE DEF put
  <2> QED
    BY <2>1, <2>2, <2>3
<1> HIDE DEF m
<1>3. /\ Line(r).id = Len(wrote) + 1 /\ Line(r).prev = hash[r] /\ Len(wrote) \in Nat
      /\ hash[r] \in Int /\ hash[r] <= Len(wrote) /\ hash[r] # Misshapen
  BY <1>1, LineType DEF Typed, Remembers
<1>4. ASSUME NEW i \in DOMAIN log', IsEvent(log'[i]), i < m
      PROVE  /\ i \in DOMAIN log /\ i \in Int /\ log'[i] = log[i] /\ IsEvent(log[i])
             /\ log'[i].id \in Int /\ log'[i].id <= Len(wrote)
  <2>1. i \in 1 .. (m - 1)
    BY <1>2, <1>4
  <2> QED
    BY <1>1, <1>2, <1>4, <2>1, OldEntry
<1>5. ASSUME NEW i \in DOMAIN log', IsEvent(log'[i]), ~(i < m)
      PROVE  i = m /\ log'[i] = Line(r)
  BY <1>2, <1>5 DEF IsEvent
<1>6. Known'
  <2> SUFFICES ASSUME NEW i \in DOMAIN log', IsEvent(log'[i]) PROVE log'[i].id \in DOMAIN wrote'
    BY DEF Known
  <2>1. CASE i < m
    BY <1>1, <1>4, <2>1, OldEntry
  <2>2. CASE ~(i < m)
    BY <1>1, <1>3, <1>5, <2>2, HistoryGrowsBy
  <2> QED
    BY <2>1, <2>2
<1>7. InOrder'
  <2> SUFFICES ASSUME NEW i \in DOMAIN log', NEW j \in DOMAIN log', i < j,
                      IsEvent(log'[i]), IsEvent(log'[j]), ~touched
               PROVE  log'[i].id < log'[j].id
    BY DEF InOrder
  <2>1. i < m
    BY <1>2
  <2>2. CASE j < m
    BY <1>1, <1>4, <2>1, <2>2 DEF FileInv, InOrder
  <2>3. CASE ~(j < m)
    BY <1>3, <1>4, <1>5, <2>1, <2>3
  <2> QED
    BY <2>2, <2>3
<1>8. Linked'
  <2> SUFFICES ASSUME NEW i \in DOMAIN log', IsEvent(log'[i]), AsWritten(log'[i])
               PROVE  Chained(wrote', log'[i])
    BY DEF Linked, AsWritten
  <2>1. CASE i < m
    BY <1>1, <1>4, <2>1, OldEntry
  <2>2. CASE ~(i < m)
    <3>1. log'[i].id = Len(wrote) + 1 /\ log'[i].prev = hash[r]
      BY <1>3, <1>5, <2>2
    <3>2. wrote'[Len(wrote) + 1].run = r /\ His(wrote', r) = His(wrote, r) \cup {Len(wrote) + 1}
      BY <1>1, HistoryGrowsBy
    <3>3. \A a \in His(wrote, r) : hash[r] \in His(wrote, r) /\ a <= hash[r]
      BY <1>1 DEF Remembers
    <3>4. ASSUME NEW a \in His(wrote', r), a < Len(wrote) + 1
          PROVE  hash[r] \in His(wrote', r) /\ a <= hash[r]
      <4>1. a \in His(wrote, r)
        BY <1>3, <3>2, <3>4
      <4> QED
        BY <3>2, <3>3, <4>1
    <3>5. hash[r] < Len(wrote) + 1
      BY <1>3
    <3>6. hash[r] # Misshapen
      BY <1>3
    <3> QED
      BY <3>1, <3>2, <3>4, <3>5, <3>6 DEF Chained
  <2> QED
    BY <2>1, <2>2
<1> QED
  BY <1>6, <1>7, <1>8 DEF FileInv

LEMMA InsertPlaces ==
    ASSUME NEW s \in Seq(Entry), NEW i \in DOMAIN s, NEW e \in Entry
    PROVE  /\ InsertAt(s, i, e) \in Seq(Entry)
           /\ \A k \in DOMAIN InsertAt(s, i, e) :
                 InsertAt(s, i, e)[k] = e \/ \E m \in DOMAIN s : InsertAt(s, i, e)[k] = s[m]
<1>1. i \in 1 .. Len(s) /\ Len(s) \in Nat
  OBVIOUS
<1> DEFINE a == SubSeq(s, 1, i - 1)
           b == SubSeq(s, i, Len(s))
<1>2. a \in Seq(Entry) /\ \A k \in 1 .. Len(a) : \E m \in DOMAIN s : a[k] = s[m]
  <2>1. a \in Seq(Entry) /\ Len(a) = i - 1 /\ \A k \in 1 .. (i - 1) : a[k] = s[k]
    BY <1>1
  <2>2. \A k \in 1 .. (i - 1) : k \in DOMAIN s
    BY <1>1
  <2> HIDE DEF a
  <2> QED
    BY <2>1, <2>2
<1>3. b \in Seq(Entry) /\ \A k \in 1 .. Len(b) : \E m \in DOMAIN s : b[k] = s[m]
  <2>1. b \in Seq(Entry) /\ Len(b) = Len(s) - i + 1
        /\ \A k \in 1 .. (Len(s) - i + 1) : b[k] = s[i + k - 1]
    BY <1>1
  <2>2. \A k \in 1 .. (Len(s) - i + 1) : i + k - 1 \in DOMAIN s
    BY <1>1
  <2> HIDE DEF b
  <2> QED
    BY <2>1, <2>2
<1> HIDE DEF a, b
<1> DEFINE u == a \o <<e>>
<1>4. u \in Seq(Entry) /\ Len(u) = Len(a) + 1 /\ u[Len(a) + 1] = e
      /\ \A k \in 1 .. Len(a) : u[k] = a[k]
  BY <1>2
<1>5. InsertAt(s, i, e) = u \o b
  BY DEF InsertAt, a, b
<1> HIDE DEF u
<1>6. u \o b \in Seq(Entry) /\ Len(u \o b) = Len(u) + Len(b) /\ DOMAIN (u \o b) = 1 .. (Len(u) + Len(b))
      /\ \A k \in 1 .. (Len(u) + Len(b)) : (u \o b)[k] = IF k <= Len(u) THEN u[k] ELSE b[k - Len(u)]
  <2>1. u \in Seq(Entry) /\ b \in Seq(Entry)
    BY <1>3, <1>4
  <2>2. u \o b \in Seq(Entry) /\ Len(u \o b) = Len(u) + Len(b)
    BY <2>1
  <2>3. DOMAIN (u \o b) = 1 .. (Len(u) + Len(b))
    BY <2>2
  <2> QED
    BY <2>1, <2>2, <2>3
<1>7. ASSUME NEW k \in 1 .. (Len(u) + Len(b))
      PROVE  (u \o b)[k] = e \/ \E m \in DOMAIN s : (u \o b)[k] = s[m]
  <2>1. Len(a) \in Nat /\ Len(b) \in Nat /\ Len(u) = Len(a) + 1
    BY <1>2, <1>3, <1>4
  <2>2. CASE k <= Len(a)
    <3>1. k \in 1 .. Len(a) /\ (u \o b)[k] = a[k]
      BY <1>4, <1>6, <2>1, <2>2
    <3> QED
      BY <1>2, <3>1
  <2>3. CASE k = Len(a) + 1
    BY <1>4, <1>6, <2>1, <2>3
  <2>4. CASE k > Len(a) + 1
    <3>1. k - Len(u) \in 1 .. Len(b) /\ (u \o b)[k] = b[k - Len(u)]
      BY <1>6, <2>1, <2>4
    <3> QED
      BY <1>3, <3>1
  <2> QED
    BY <2>1, <2>2, <2>3, <2>4
<1> QED
  BY <1>5, <1>6, <1>7

\* What a line of a touched file is: one that was there, no event, or a rewritten one.
Descends(line) ==
    \/ \E m \in DOMAIN log : line = log[m]
    \/ line = Garbage
    \/ line.rev # 0 /\ \E m \in DOMAIN log : IsEvent(log[m]) /\ line.id = log[m].id

LEMMA TouchedLines ==
    ASSUME Typed, Touch
    PROVE  log' \in Seq(Entry) /\ \A k \in DOMAIN log' : Descends(log'[k])
<1>1. log \in Seq(Entry) /\ Len(log) \in Nat /\ DOMAIN log = 1 .. Len(log) /\ faults \in Nat
  BY DEF Typed
<1>2. PICK i \in DOMAIN log :
         \/ log' = RemoveAt(log, i)
         \/ \E k \in DOMAIN log : log' = InsertAt(log, k, log[i])
         \/ IsEvent(log[i]) /\ \E line \in Forged(log[i]) : log' = [log EXCEPT ![i] = line]
  BY DEF Touch
<1>3. log[i] \in Entry
  BY <1>1
<1>4. CASE log' = RemoveAt(log, i)
  <2>1. /\ log' \in Seq(Entry) /\ DOMAIN log' = 1 .. (Len(log) - 1)
        /\ \A k \in DOMAIN log' : log'[k] = IF k < i THEN log[k] ELSE log[k + 1]
    <3> DEFINE s == RemoveAt(log, i)
    <3>1. /\ s \in Seq(Entry) /\ Len(s) = Len(log) - 1
          /\ \A k \in 1 .. (Len(log) - 1) : s[k] = IF k < i THEN log[k] ELSE log[k + 1]
      BY <1>1, RemovePlaces
    <3>2. log' = s
      BY <1>4
    <3> HIDE DEF s
    <3>3. DOMAIN s = 1 .. (Len(log) - 1)
      BY <3>1
    <3> QED
      BY <3>1, <3>2, <3>3
  <2>2. \A k \in 1 .. (Len(log) - 1) : k \in DOMAIN log /\ k + 1 \in DOMAIN log
    BY <1>1
  <2> QED
    BY <2>1, <2>2 DEF Descends
<1>5. CASE \E k \in DOMAIN log : log' = InsertAt(log, k, log[i])
  <2>1. PICK k \in DOMAIN log : log' = InsertAt(log, k, log[i])
    BY <1>5
  <2>2. /\ log' \in Seq(Entry)
        /\ \A j \in DOMAIN log' : log'[j] = log[i] \/ \E m \in DOMAIN log : log'[j] = log[m]
    BY <1>1, <1>3, <2>1, InsertPlaces
  <2> QED
    BY <2>2 DEF Descends
<1>6. ASSUME IsEvent(log[i]), NEW line \in Forged(log[i]), log' = [log EXCEPT ![i] = line]
      PROVE  log' \in Seq(Entry) /\ \A k \in DOMAIN log' : Descends(log'[k])
  <2>1. line \in Entry /\ (line = Garbage \/ (line.rev # 0 /\ line.id = log[i].id))
    <3>1. CASE line = Garbage
      BY <3>1, GarbageType
    <3>2. CASE line # Garbage
      <4>1. ASSUME NEW k \in DOMAIN log PROVE Hash(log[k]) \in Int
        <5>1. log[k] \in Entry
          BY <1>1
        <5> QED
          BY <5>1 DEF Entry, Hash, Misshapen
      <4>2. line \in [id : {log[i].id}, rev : {faults + 1},
                      prev : {log[i].prev, NoHash, Misshapen} \cup {Hash(log[k]) : k \in DOMAIN log}]
        BY <1>6, <3>2 DEF Forged
      <4>3. /\ line.id = log[i].id /\ line.rev = faults + 1
            /\ line = [id |-> line.id, prev |-> line.prev, rev |-> line.rev]
            /\ line.prev \in {log[i].prev, NoHash, Misshapen} \cup {Hash(log[k]) : k \in DOMAIN log}
        BY <4>2
      <4>4. line.prev \in Int
        BY <1>3, <4>1, <4>3 DEF Entry, NoHash, Misshapen
      <4>5. line.id \in Nat /\ line.rev \in Nat /\ line.rev # 0
        <5>1. log[i].id \in Nat
          BY <1>3 DEF Entry
        <5>2. faults + 1 \in Nat /\ faults + 1 # 0
          BY <1>1
        <5> QED
          BY <4>3, <5>1, <5>2
      <4> QED
        BY <4>3, <4>4, <4>5 DEF Entry
    <3> QED
      BY <3>1, <3>2
  <2>2. log' \in Seq(Entry) /\ DOMAIN log' = DOMAIN log
        /\ log'[i] = line /\ \A k \in DOMAIN log : k # i => log'[k] = log[k]
    BY <1>1, <1>6, <2>1
  <2> QED
    BY <1>6, <2>1, <2>2 DEF Descends
<1> QED
  BY <1>2, <1>4, <1>5, <1>6

LEMMA FileAfterTouch ==
    ASSUME Typed, FileInv, Touch
    PROVE  FileInv' /\ log' \in Seq(Entry)
<1>1. log' \in Seq(Entry) /\ \A k \in DOMAIN log' : Descends(log'[k])
  BY TouchedLines
<1>2. wrote' = wrote /\ touched'
  BY DEF Touch
<1>3. Known'
  BY <1>1, <1>2 DEF FileInv, Known, Descends, IsEvent
<1>4. InOrder'
  BY <1>2 DEF InOrder
<1>5. Linked'
  BY <1>1, <1>2 DEF FileInv, Linked, Descends, AsWritten, IsEvent
<1> QED
  BY <1>1, <1>3, <1>4, <1>5 DEF FileInv

-----------------------------------------------------------------------------
(* The actions.                                                            *)

\* What an action does to the file and the history.
LogSteps(r) ==
    \/ UNCHANGED <<log, wrote>>
    \/ log' = Put(Garbage) /\ UNCHANGED wrote
    \/ IsOpen(r) /\ log' = Put(Line(r)) /\ Tells1(r)

LEMMA FileAfterStep ==
    ASSUME GapInv, NEW r \in Run, LogSteps(r), touched' = touched
    PROVE  FileInv' /\ log' \in Seq(Entry) /\ (log' # <<>> \/ log' = log) /\ \E S : wrote' \in Seq(S)
<1>1. Typed /\ FileInv /\ Remembers
  BY DEF GapInv, FileInv
<1>2. CASE UNCHANGED <<log, wrote>>
  <2>1. Known' /\ InOrder' /\ Linked'
    BY <1>1, <1>2 DEF FileInv, Known, InOrder, Linked
  <2> QED
    BY <1>1, <1>2, <2>1 DEF FileInv, Typed
<1>3. CASE log' = Put(Garbage) /\ UNCHANGED wrote
  <2>1. FileInv'
    BY <1>1, <1>3, FileAfterGarbage
  <2> QED
    BY <1>1, <1>3, <2>1, GarbageType, PutPlaces DEF Typed
<1>4. CASE IsOpen(r) /\ log' = Put(Line(r)) /\ Tells1(r)
  <2>1. FileInv'
    BY <1>4, FileAfterLine
  <2> QED
    BY <1>1, <1>4, <2>1, LineType, PutPlaces, HistoryGrowsBy
<1> QED
  BY <1>2, <1>3, <1>4 DEF LogSteps

\* What it does to the writers: one is opened, goes on, or is closed.
Opened(r) ==
    /\ IsIdle(r) /\ UNCHANGED <<log, wrote>>
    /\ alone' = (alone /\ \A q \in Run : ~IsOpen(q))
    /\ state' = [state EXCEPT ![r] = "open"]
    /\ hash' = [hash EXCEPT ![r] = TailHash(log)]

WentOn(r) ==
    /\ IsOpen(r) /\ log' = Put(Line(r)) /\ Tells1(r) /\ state' = state /\ alone' = alone
    /\ hash' = [hash EXCEPT ![r] = Len(wrote) + 1]

Closed(r) ==
    /\ IsOpen(r) /\ (wrote' = wrote \/ Tells1(r)) /\ alone' = alone
    /\ \E s \in {"done", "failed"} : state' = [state EXCEPT ![r] = s]
    /\ hash' = [hash EXCEPT ![r] = NoHash]

LEMMA TailHashBound ==
    ASSUME Typed, Known
    PROVE  /\ TailHash(log) \in Int /\ TailHash(log) <= Len(wrote) /\ Len(wrote) \in Nat
           /\ TailHash(log) # Misshapen
<1>1. PICK S : wrote \in Seq(S)
  BY DEF Typed
<1>2. Len(wrote) \in Nat /\ DOMAIN wrote = 1 .. Len(wrote)
  BY <1>1
<1>3. CASE log # <<>> /\ IsEvent(Last(log))
  <2>1. log \in Seq(Entry) /\ Len(log) \in DOMAIN log /\ Last(log) = log[Len(log)]
    BY <1>3 DEF Typed, Last
  <2>2. Last(log).id \in DOMAIN wrote
    BY <1>3, <2>1 DEF Known
  <2>3. Last(log).rev \in Nat
    <3>1. Last(log) \in Entry
      BY <2>1
    <3> QED
      BY <3>1 DEF Entry
  <2>4. TailHash(log) = Last(log).id \/ (Last(log).rev # 0 /\ TailHash(log) = -1 - Last(log).rev)
    BY <1>3 DEF TailHash, Hash, Misshapen
  <2> QED
    BY <1>2, <2>2, <2>3, <2>4 DEF Misshapen
<1>4. CASE ~(log # <<>> /\ IsEvent(Last(log)))
  BY <1>2, <1>4 DEF TailHash, NoHash, Misshapen
<1> QED
  BY <1>3, <1>4

LEMMA StateKinds ==
    ASSUME NEW s \in {"idle", "open", "done", "failed"}
    PROVE  /\ ~(s = "idle" /\ s = "open")
           /\ s \in {"done", "failed"} => s # "idle" /\ s # "open"
OBVIOUS

\* Only r's writer changes.
LEMMA OthersStay ==
    ASSUME Typed, NEW r \in Run, Opened(r) \/ WentOn(r) \/ Closed(r),
           NEW q \in Run, q # r
    PROVE  /\ IsOpen(q)' = IsOpen(q) /\ IsIdle(q)' = IsIdle(q)
           /\ hash'[q] = hash[q]
           /\ wrote' = wrote \/ Tells1(r)
<1>1. state'[q] = state[q] /\ hash'[q] = hash[q]
  BY DEF Typed, Opened, WentOn, Closed
<1> QED
  BY <1>1 DEF IsOpen, IsIdle, Opened, WentOn, Closed

LEMMA WriterAfterStep ==
    ASSUME Typed, Known, Remembers, NEW r \in Run, Opened(r) \/ WentOn(r) \/ Closed(r)
    PROVE  /\ Remembers'
           /\ state' \in [Run -> {"idle", "open", "done", "failed"}]
           /\ hash' \in [Run -> Int]
<1>1. PICK S : wrote \in Seq(S)
  BY DEF Typed
<1>2. Len(wrote) \in Nat /\ state \in [Run -> {"idle", "open", "done", "failed"}] /\ hash \in [Run -> Int]
  BY <1>1 DEF Typed
<1>3. Len(wrote') \in Nat /\ Len(wrote) <= Len(wrote')
  <2>1. CASE wrote' = wrote
    BY <1>2, <2>1
  <2>2. CASE Tells1(r)
    BY <1>2, <2>2, HistoryGrowsBy
  <2> QED
    BY <2>1, <2>2 DEF Opened, WentOn, Closed
<1>4. state' \in [Run -> {"idle", "open", "done", "failed"}]
  BY <1>2 DEF Opened, WentOn, Closed
<1>5. hash' \in [Run -> Int]
  <2>1. CASE Opened(r)
    BY <1>2, <2>1, TailHashBound DEF Opened
  <2>2. CASE WentOn(r)
    <3>1. Len(wrote) + 1 \in Int
      BY <1>2
    <3> QED
      BY <1>2, <2>2, <3>1 DEF WentOn
  <2>3. CASE Closed(r)
    <3>1. NoHash \in Int
      BY DEF NoHash
    <3> QED
      BY <1>2, <2>3, <3>1 DEF Closed
  <2> QED
    BY <2>1, <2>2, <2>3
<1>6. ASSUME NEW q \in Run, q # r
      PROVE  /\ hash'[q] <= Len(wrote') /\ hash'[q] # Misshapen
             /\ IsIdle(q)' => His(wrote', q) = {}
             /\ IsOpen(q)' => \A a \in His(wrote', q) : hash'[q] \in His(wrote', q) /\ a <= hash'[q]
  <2>1. /\ IsOpen(q)' = IsOpen(q) /\ IsIdle(q)' = IsIdle(q) /\ hash'[q] = hash[q]
        /\ wrote' = wrote \/ Tells1(r)
    BY <1>6, OthersStay
  <2>2. His(wrote', q) = His(wrote, q)
    BY <1>6, <2>1, HistoryGrowsBy
  <2>3. /\ hash[q] <= Len(wrote) /\ hash[q] \in Int /\ hash[q] # Misshapen
        /\ IsIdle(q) => His(wrote, q) = {}
        /\ IsOpen(q) => \A a \in His(wrote, q) : hash[q] \in His(wrote, q) /\ a <= hash[q]
    BY <1>2 DEF Remembers
  <2>4. hash[q] <= Len(wrote')
    BY <1>2, <1>3, <2>3
  <2> QED
    BY <2>1, <2>2, <2>3, <2>4
<1>7. /\ hash'[r] <= Len(wrote') /\ hash'[r] # Misshapen
      /\ IsIdle(r)' => His(wrote', r) = {}
      /\ IsOpen(r)' => \A a \in His(wrote', r) : hash'[r] \in His(wrote', r) /\ a <= hash'[r]
  <2>1. CASE Opened(r)
    <3>1. hash'[r] = TailHash(log) /\ wrote' = wrote /\ His(wrote, r) = {}
      BY <1>2, <2>1 DEF Opened, Remembers
    <3> QED
      BY <3>1, TailHashBound
  <2>2. CASE WentOn(r)
    <3>1. hash'[r] = Len(wrote) + 1 /\ Len(wrote') = Len(wrote) + 1
      BY <1>2, <2>2, HistoryGrowsBy DEF WentOn
    <3>2. His(wrote', r) = His(wrote, r) \cup {Len(wrote) + 1}
      BY <2>2, HistoryGrowsBy DEF WentOn
    <3>3. \A a \in His(wrote, r) : a \in Int /\ a <= Len(wrote)
      BY <1>1, <1>2 DEF His
    <3>4. ~IsIdle(r)'
      BY <2>2, StateKinds DEF WentOn, IsOpen, IsIdle
    <3>5. \A a \in His(wrote', r) : hash'[r] \in His(wrote', r) /\ a <= hash'[r]
      BY <1>2, <3>1, <3>2, <3>3
    <3>6. hash'[r] <= Len(wrote') /\ hash'[r] # Misshapen
      BY <1>2, <3>1 DEF Misshapen
    <3> QED
      BY <3>4, <3>5, <3>6
  <2>3. CASE Closed(r)
    <3>1. PICK s \in {"done", "failed"} : state' = [state EXCEPT ![r] = s]
      BY <2>3 DEF Closed
    <3>2. ~IsIdle(r)' /\ ~IsOpen(r)'
      BY <1>2, <3>1 DEF IsOpen, IsIdle
    <3>3. hash'[r] = 0
      BY <1>2, <2>3 DEF Closed, NoHash
    <3> QED
      BY <1>3, <3>2, <3>3 DEF Misshapen
  <2> QED
    BY <2>1, <2>2, <2>3
<1>8. Remembers'
  <2> SUFFICES ASSUME NEW q \in Run
               PROVE  /\ hash'[q] <= Len(wrote') /\ hash'[q] # Misshapen
                      /\ IsIdle(q)' => His(wrote', q) = {}
                      /\ IsOpen(q)' => \A a \in His(wrote', q) : hash'[q] \in His(wrote', q) /\ a <= hash'[q]
    BY DEF Remembers
  <2> QED
    BY <1>6, <1>7
<1> QED
  BY <1>4, <1>5, <1>8

LEMMA RunSteps ==
    ASSUME NEW r \in Run, (\E asked \in Asked : Open(r, asked)) \/ Write(r) \/ WriteFails(r) \/ Stop(r),
           Typed
    PROVE  /\ LogSteps(r)
           /\ Opened(r) \/ WentOn(r) \/ Closed(r)
           /\ cut' \in BOOLEAN /\ (cut' => cut \/ log' # log)
           /\ alone' \in BOOLEAN /\ touched' = touched /\ faults' \in Nat
<1>1. CASE \E asked \in Asked : Open(r, asked)
  BY <1>1 DEF Open, LogSteps, Opened, IsIdle, IsOpen, Typed
<1>2. CASE Write(r)
  <2>1. Line(r).id = Len(wrote) + 1
    BY DEF Line
  <2> QED
    BY <1>2, <2>1 DEF Write, LogSteps, WentOn, IsOpen, Tells1, Typed
<1>3. CASE WriteFails(r)
  <2>1. Closed(r)
    BY <1>3 DEF WriteFails, Closed, IsOpen, Tells1
  <2>2. \/ UNCHANGED <<log, cut, wrote>>
        \/ log' = Put(Garbage) /\ cut' = TRUE /\ UNCHANGED wrote
        \/ log' = Put(Line(r)) /\ cut' = TRUE /\ Tells1(r)
    BY <1>3 DEF WriteFails, Tells1
  <2>3. alone' = alone /\ touched' = touched /\ IsOpen(r) /\ faults' \in Nat
    BY <1>3 DEF WriteFails, IsOpen, Typed
  <2>4. ASSUME cut', ~cut PROVE log' # log
    <3>1. log' = Put(Garbage) \/ log' = Put(Line(r))
      BY <2>2, <2>4
    <3>2. log \in Seq(Entry) /\ Put(Garbage) = Append(log, Garbage) /\ Put(Line(r)) = Append(log, Line(r))
      BY <2>4 DEF Put, Typed
    <3>3. \A e : Append(log, e) # log
      <4> SUFFICES ASSUME NEW e, Append(log, e) = log PROVE FALSE
        OBVIOUS
      <4>1. log \in Seq(Entry \cup {e}) /\ Len(log) \in Nat
        BY <3>2
      <4>2. Len(Append(log, e)) = Len(log) + 1
        BY <4>1
      <4> QED
        BY <4>1, <4>2
    <3> QED
      BY <3>1, <3>2, <3>3
  <2> QED
    BY <2>1, <2>2, <2>3, <2>4 DEF LogSteps, Typed
<1>4. CASE Stop(r)
  <2>1. Closed(r)
    <3>1. PICK s \in {"done", "failed"} : state' = [state EXCEPT ![r] = s]
      BY <1>4 DEF Stop
    <3> QED
      BY <1>4, <3>1 DEF Stop, Closed, IsOpen
  <2> QED
    BY <1>4, <2>1 DEF Stop, LogSteps, Typed
<1> QED
  BY <1>1, <1>2, <1>3, <1>4

LEMMA InitGap == Init => GapInv
<1> SUFFICES ASSUME Init PROVE GapInv
  OBVIOUS
<1>1. log = <<>> /\ wrote = <<>> /\ Len(wrote) = 0 /\ hash = [r \in Run |-> 0]
  BY DEF Init, NoHash
<1>2. <<>> \in Seq(Entry) /\ <<>> \in Seq({})
  OBVIOUS
<1>3. Typed
  <2>1. \E S : wrote \in Seq(S)
    BY <1>1, <1>2
  <2>2. state \in [Run -> {"idle", "open", "done", "failed"}] /\ hash \in [Run -> Int]
    BY <1>1 DEF Init
  <2> QED
    BY <1>1, <1>2, <2>1, <2>2 DEF Init, Typed
<1>4. \A r : His(wrote, r) = {}
  BY <1>1 DEF His
<1> QED
  BY <1>1, <1>3, <1>4 DEF GapInv, Known, InOrder, Linked, Remembers, Misshapen

LEMMA NextGap == GapInv /\ [Next]_vars => GapInv'
<1> SUFFICES ASSUME GapInv, [Next]_vars PROVE GapInv'
  OBVIOUS
<1>0. Typed /\ Known /\ Remembers /\ FileInv
  BY DEF GapInv, FileInv
<1>1. ASSUME NEW r \in Run, (\E asked \in Asked : Open(r, asked)) \/ Write(r) \/ WriteFails(r) \/ Stop(r)
      PROVE  GapInv'
  <2>1. LogSteps(r) /\ (Opened(r) \/ WentOn(r) \/ Closed(r)) /\ touched' = touched
    BY <1>0, <1>1, RunSteps
  <2>2. FileInv' /\ log' \in Seq(Entry) /\ (log' # <<>> \/ log' = log) /\ \E S : wrote' \in Seq(S)
    BY <2>1, FileAfterStep
  <2>3. /\ Remembers'
        /\ state' \in [Run -> {"idle", "open", "done", "failed"}]
        /\ hash' \in [Run -> Int]
    BY <1>0, <2>1, WriterAfterStep
  <2>4. /\ cut' \in BOOLEAN /\ (cut' => cut \/ log' # log)
        /\ alone' \in BOOLEAN /\ touched' = touched /\ faults' \in Nat
    BY <1>0, <1>1, RunSteps
  <2>5. Typed'
    BY <1>0, <2>2, <2>3, <2>4 DEF Typed
  <2> QED
    BY <2>2, <2>3, <2>5 DEF GapInv, FileInv
<1>2. CASE Rotate
  <2>1. /\ log' = <<>> /\ cut' = FALSE /\ UNCHANGED <<wrote, state, hash, alone, touched>>
        /\ faults' \in Nat
    BY <1>0, <1>2 DEF Rotate, Typed
  <2>2. <<>> \in Seq(Entry) /\ DOMAIN log' = {}
    BY <2>1
  <2>3. Typed'
    BY <1>0, <2>1, <2>2 DEF Typed
  <2>4. Known' /\ InOrder' /\ Linked'
    BY <2>2 DEF Known, InOrder, Linked
  <2>5. Remembers'
    BY <1>0, <2>1 DEF Remembers, IsIdle, IsOpen
  <2> QED
    BY <2>3, <2>4, <2>5 DEF GapInv
<1>3. CASE Touch
  <2>1. FileInv' /\ log' \in Seq(Entry)
    BY <1>0, <1>3, FileAfterTouch
  <2>2. /\ touched' = TRUE /\ cut' \in BOOLEAN /\ (cut' => log' # <<>>)
        /\ faults' \in Nat /\ UNCHANGED <<wrote, state, hash, alone>>
    <3>1. /\ faults' = faults + 1 /\ touched' = TRUE /\ UNCHANGED <<wrote, state, hash, alone>>
          /\ cut' \in IF cut /\ log' # <<>> THEN BOOLEAN ELSE {FALSE}
      BY <1>3 DEF Touch
    <3>2. cut' \in BOOLEAN /\ (cut' => log' # <<>>)
      BY <3>1
    <3>3. faults' \in Nat
      BY <1>0, <3>1 DEF Typed
    <3> QED
      BY <3>1, <3>2, <3>3
  <2>3. Typed'
    BY <1>0, <2>1, <2>2 DEF Typed
  <2>4. Remembers'
    BY <1>0, <2>2 DEF Remembers, IsIdle, IsOpen
  <2> QED
    BY <2>1, <2>3, <2>4 DEF GapInv, FileInv
<1>4. CASE UNCHANGED vars
  <2>1. UNCHANGED <<log, wrote, state, hash, cut, alone, touched, faults>>
    BY <1>4 DEF vars
  <2>2. Typed'
    BY <1>0, <2>1 DEF Typed
  <2>3. Known' /\ InOrder' /\ Linked' /\ Remembers'
    BY <1>0, <2>1 DEF FileInv, Known, InOrder, Linked, Remembers, IsIdle, IsOpen
  <2> QED
    BY <2>2, <2>3 DEF GapInv
<1> QED
  BY <1>1, <1>2, <1>3, <1>4 DEF Next

LEMMA GapInvariance == Spec => []GapInv
<1> QED
  BY InitGap, NextGap, PTL DEF Spec

-----------------------------------------------------------------------------
(* A verified log has no gap.                                              *)

LEMMA Least ==
    ASSUME NEW T, T \subseteq Nat, T # {} PROVE \E x \in T : \A y \in T : x <= y
<1>1. PICK x \in T : \A y \in T : ~(<<y, x>> \in OpToRel(<, Nat))
  BY NatLessThanWellFounded, WFMin
<1>2. \A y \in T : ~(y < x)
  BY <1>1 DEF OpToRel
<1> QED
  BY <1>2

\* "Tamper-evident" (EventLog: VerifiedHasNoGap): whatever was removed, copied,
\* rewritten, chained anew, cut off or rotated, and however many runs wrote at the
\* same time, in a log that agentstack reports as SHA-256 nothing of a run is
\* missing or changed from any of its lines on to one that is as it was written.
THEOREM AVerifiedLogHasNoGap == Spec => []VerifiedHasNoGap
<1>1. GapInv => VerifiedHasNoGap
  <2> SUFFICES ASSUME GapInv, eventStreamFindings(log) = "SHA-256",
                      NEW i \in DOMAIN log, NEW j \in DOMAIN log, i < j, AsWritten(log[j]),
                      log[i].id \in His(wrote, wrote[log[j].id].run)
               PROVE  \A n \in His(wrote, wrote[log[j].id].run) :
                         log[i].id <= n /\ n <= log[j].id =>
                            \E k \in i .. j : AsWritten(log[k]) /\ log[k].id = n
    BY Zenon DEF VerifiedHasNoGap, His
  <2> DEFINE r == wrote[log[j].id].run
             H == His(wrote, r)
             Stands(n, k) == \E m \in k .. j : AsWritten(log[m]) /\ log[m].id = n
             Reaches(k) == /\ k \in i .. j /\ AsWritten(log[k])
                           /\ log[k].id \in H /\ log[k].id <= log[j].id
                           /\ \A n \in H : log[k].id <= n /\ n <= log[j].id => Stands(n, k)
             S == {k \in Nat : Reaches(k)}
  <2>1. log \in Seq(Entry) /\ Len(log) \in Nat /\ DOMAIN log = 1 .. Len(log)
    BY DEF GapInv, Typed
  <2>2. i \in Nat /\ j \in Nat /\ 0 < i
    BY <2>1
  <2>3. \A k \in DOMAIN log : IsEvent(log[k])
    BY DEF eventStreamFindings, Malformed
  <2>4. DOMAIN wrote \subseteq Nat /\ (\A n \in DOMAIN wrote : 0 < n)
    <3>1. PICK T : wrote \in Seq(T)
      BY DEF GapInv, Typed
    <3> QED
      BY <3>1
  <2>5. H \subseteq DOMAIN wrote /\ \A n \in H : n \in Nat /\ 0 < n
    BY <2>4 DEF His
  <2>6. log[j].id \in H
    <3>1. log[j].id \in DOMAIN wrote
      BY <2>3 DEF GapInv, Known
    <3> QED
      BY <3>1 DEF His
  <2>7. j \in S
    <3>1. \A n \in H : log[j].id <= n /\ n <= log[j].id => n = log[j].id
      BY <2>5, <2>6
    <3>2. j \in i .. j /\ j \in j .. j
      BY <2>2
    <3>3. Stands(log[j].id, j)
      BY <3>2
    <3>4. log[j].id <= log[j].id
      BY <2>5, <2>6
    <3> QED
      BY <2>2, <2>6, <3>1, <3>2, <3>3, <3>4
  <2>8. PICK k \in S : \A m \in S : k <= m
    <3>1. S \subseteq Nat
      OBVIOUS
    <3> HIDE DEF S
    <3> QED
      BY <2>7, <3>1, Least
  <2> DEFINE c == log[k].id
  <2>9. Reaches(k) /\ k \in Nat
    OBVIOUS
  <2>10. k \in DOMAIN log /\ i <= k /\ k <= j /\ c \in H /\ c \in Nat
    BY <2>1, <2>2, <2>5, <2>9
  <2>11. ASSUME ~(c <= log[i].id) PROVE FALSE
    <3>1. wrote[c].run = r
      BY <2>10 DEF His
    <3>2. log[i].id \in Nat /\ log[i].id < c
      BY <2>5, <2>10, <2>11
    <3> DEFINE p == log[k].prev
    <3>3. /\ p \in H /\ log[i].id <= p /\ p < c
          /\ \A n \in H : n < c => n <= p
      <4>1. Chained(wrote, log[k])
        BY <2>9, <2>10 DEF GapInv, Linked
      <4> QED
        BY <3>1, <3>2, <4>1 DEF Chained
    <3>4. k # i
      BY <3>2
    <3>5. k \in 2 .. Len(log) /\ k - 1 \in DOMAIN log /\ k - 1 \in i .. j /\ k - 1 \in Nat
      BY <2>1, <2>2, <2>10, <3>4
    <3>6. p = Hash(log[k - 1])
      <4>1. p # NoHash
        BY <2>5, <3>3 DEF NoHash
      <4>2. Breaks(log) = {}
        BY DEF eventStreamFindings
      <4> QED
        BY <2>3, <2>10, <3>5, <4>1, <4>2 DEF Breaks
    <3>7. log[k - 1].rev = 0 /\ log[k - 1].id = p
      <4>1. log[k - 1].rev \in Nat
        <5>1. log[k - 1] \in Entry
          BY <2>1, <3>5
        <5> QED
          BY <5>1 DEF Entry
      <4>2. p \in Nat /\ 0 < p
        BY <2>5, <3>3
      <4> QED
        BY <3>6, <4>1, <4>2 DEF Hash, Misshapen
    <3>8. AsWritten(log[k - 1])
      BY <2>3, <3>5, <3>7 DEF AsWritten
    <3> HIDE DEF p
    <3>9. ASSUME NEW n \in H, p <= n, n <= log[j].id PROVE Stands(n, k - 1)
      <4>1. CASE n < c
        <5>1. n = p
          BY <2>5, <3>3, <3>9, <4>1
        <5>2. k - 1 \in (k - 1) .. j
          BY <2>2, <3>5
        <5> QED
          BY <3>7, <3>8, <5>1, <5>2
      <4>2. CASE c <= n
        <5>1. PICK m \in k .. j : AsWritten(log[m]) /\ log[m].id = n
          BY <2>9, <3>9, <4>2
        <5>2. m \in (k - 1) .. j
          BY <2>2, <2>10
        <5> QED
          BY <5>1, <5>2
      <4> QED
        BY <2>5, <2>10, <4>1, <4>2
    <3>10. p <= log[j].id
      BY <2>5, <2>6, <2>9, <2>10, <3>3
    <3>11. k - 1 \in S
      BY <3>3, <3>5, <3>7, <3>8, <3>9, <3>10
    <3>12. k <= k - 1
      <4> HIDE DEF S
      <4> QED
        BY <2>8, <3>11
    <3> QED
      BY <2>9, <3>12
  <2>12. ASSUME NEW n \in H, log[i].id <= n, n <= log[j].id
         PROVE  \E m \in i .. j : AsWritten(log[m]) /\ log[m].id = n
    <3>1. c <= n
      BY <2>5, <2>10, <2>11, <2>12
    <3>2. PICK m \in k .. j : AsWritten(log[m]) /\ log[m].id = n
      BY <2>9, <2>12, <3>1
    <3>3. m \in i .. j
      BY <2>2, <2>10
    <3> QED
      BY <3>2, <3>3
  <2> QED
    BY <2>12
<1> QED
  BY <1>1, GapInvariance, PTL

-----------------------------------------------------------------------------
(* An honest log is never broken.                                          *)

Honest == alone /\ ~touched

OneWriter == alone => \A q, r \in Run : IsOpen(q) /\ IsOpen(r) => q = r

Unedited == \A i \in DOMAIN log : log[i].rev = 0

Unbroken ==
    \A i \in DOMAIN log :
        i > 1 /\ IsEvent(log[i]) /\ IsEvent(log[i - 1]) /\ log[i].prev # 0 =>
            log[i].prev = log[i - 1].id

Unforked ==
    \A i, j \in DOMAIN log :
        IsEvent(log[i]) /\ IsEvent(log[j]) /\ log[i].prev # 0 /\ log[i].prev = log[j].prev => i = j

\* The open writer goes on from the end of the file.
GoesOn ==
    \A r \in Run : IsOpen(r) /\ hash[r] # 0 =>
        /\ log # <<>> /\ IsEvent(log[Len(log)]) => log[Len(log)].id = hash[r]
        /\ \A i \in DOMAIN log : IsEvent(log[i]) => log[i].id <= hash[r]

HonestInv == OneWriter /\ (Honest => Unedited /\ Unbroken /\ Unforked /\ GoesOn)

LEMMA OneWriterAfter ==
    ASSUME Typed, OneWriter, NEW r \in Run, Opened(r) \/ WentOn(r) \/ Closed(r)
    PROVE  OneWriter' /\ (alone' => alone)
<1>1. \A q \in Run : q # r => IsOpen(q)' = IsOpen(q)
  BY OthersStay
<1>2. CASE Opened(r)
  BY <1>1, <1>2 DEF OneWriter, Opened
<1>3. CASE WentOn(r)
  BY <1>3 DEF OneWriter, WentOn, IsOpen
<1>4. CASE Closed(r)
  BY <1>1, <1>4 DEF OneWriter, Closed
<1> QED
  BY <1>2, <1>3, <1>4

LEMMA LinesAfter ==
    ASSUME GapInv, NEW r \in Run, LogSteps(r), Unedited, Unbroken, Unforked, GoesOn
    PROVE  Unedited' /\ Unbroken' /\ Unforked'
<1>0. Typed /\ Remembers /\ Linked
  BY DEF GapInv
<1>1. CASE UNCHANGED <<log, wrote>>
  BY <1>1 DEF Unedited, Unbroken, Unforked
<1>2. ASSUME NEW line \in Entry, log' = Put(line), line.rev = 0,
             line = Garbage \/ (IsOpen(r) /\ line.prev = hash[r])
      PROVE  Unedited' /\ Unbroken' /\ Unforked'
  <2> DEFINE m == Len(log')
  <2>1. /\ log' \in Seq(Entry) /\ log \in Seq(Entry) /\ m \in Nat /\ DOMAIN log' = 1 .. m
        /\ Len(log) \in Nat /\ DOMAIN log = 1 .. Len(log)
        /\ \A i \in 1 .. (m - 1) : i \in DOMAIN log /\ log'[i] = log[i]
        /\ log'[m] = Garbage \/ (log'[m] = line /\ m = Len(log) + 1)
    <3>1. log \in Seq(Entry) /\ Len(log) \in Nat /\ DOMAIN log = 1 .. Len(log)
      BY <1>0 DEF Typed
    <3> DEFINE put == Put(line)
    <3>2. /\ put \in Seq(Entry)
          /\ put[Len(put)] = Garbage \/ (put[Len(put)] = line /\ Len(put) = Len(log) + 1)
          /\ \A i \in 1 .. (Len(put) - 1) : i \in DOMAIN log /\ put[i] = log[i]
      BY <1>0, PutPlaces
    <3>3. log' = put
      BY <1>2
    <3> HIDE DEF put
    <3> QED
      BY <3>1, <3>2, <3>3
  <2> HIDE DEF m
  <2>2. \A i \in DOMAIN log' : i = m \/ i \in 1 .. (m - 1)
    <3>1. \A i \in 1 .. m : i = m \/ i \in 1 .. (m - 1)
      BY <2>1
    <3> QED
      BY <2>1, <3>1
  <2>3. Unedited'
    BY <1>2, <2>1, <2>2, GarbageType DEF Unedited
  <2>4. ASSUME IsEvent(log'[m])
        PROVE  IsOpen(r) /\ log'[m].prev = hash[r] /\ m = Len(log) + 1
    BY <1>2, <2>1, <2>4 DEF IsEvent
  <2>5. Unbroken'
    <3> SUFFICES ASSUME NEW i \in DOMAIN log', i > 1, IsEvent(log'[i]), IsEvent(log'[i - 1]),
                        log'[i].prev # 0
                 PROVE  log'[i].prev = log'[i - 1].id
      BY DEF Unbroken
    <3>1. i - 1 \in 1 .. (m - 1) /\ log'[i - 1] = log[i - 1] /\ i - 1 \in DOMAIN log
      BY <2>1
    <3>2. CASE i \in 1 .. (m - 1)
      <4>1. log'[i] = log[i] /\ i \in DOMAIN log
        BY <2>1, <3>2
      <4> QED
        BY <3>1, <4>1 DEF Unbroken
    <3>3. CASE i = m
      <4>1. i - 1 = Len(log) /\ IsOpen(r) /\ log'[i].prev = hash[r]
        BY <2>1, <2>4, <3>3
      <4>2. log # <<>>
        BY <3>1
      <4> QED
        BY <3>1, <4>1, <4>2 DEF GoesOn
    <3> QED
      BY <2>2, <3>2, <3>3
  <2>6. ASSUME NEW i \in 1 .. (m - 1), IsEvent(log'[i]), IsEvent(log'[m]), log'[m].prev # 0
        PROVE  log'[i].prev # log'[m].prev
    <3>1. log'[i] = log[i] /\ i \in DOMAIN log /\ log[i] \in Entry /\ log[i].prev < log[i].id
      BY <1>0, <2>1, <2>6 DEF Linked, Chained, AsWritten, Unedited
    <3>2. log[i].id <= hash[r] /\ log'[m].prev = hash[r]
      BY <2>4, <2>6, <3>1 DEF GoesOn
    <3>3. hash[r] \in Int /\ log[i].prev \in Int /\ log[i].id \in Int
      BY <1>0, <3>1 DEF Typed, Entry
    <3> QED
      BY <3>1, <3>2, <3>3
  <2>7. Unforked'
    <3> SUFFICES ASSUME NEW i \in DOMAIN log', NEW j \in DOMAIN log',
                        IsEvent(log'[i]), IsEvent(log'[j]), log'[i].prev # 0,
                        log'[i].prev = log'[j].prev
                 PROVE  i = j
      BY DEF Unforked
    <3>1. CASE i = m \/ j = m
      BY <2>2, <2>6, <3>1
    <3>2. CASE i \in 1 .. (m - 1) /\ j \in 1 .. (m - 1)
      BY <2>1, <3>2 DEF Unforked
    <3> QED
      BY <2>2, <3>1, <3>2
  <2> QED
    BY <2>3, <2>5, <2>7
<1>3. CASE log' = Put(Garbage) /\ UNCHANGED wrote
  BY <1>2, <1>3, GarbageType
<1>4. CASE IsOpen(r) /\ log' = Put(Line(r)) /\ Tells1(r)
  BY <1>0, <1>2, <1>4, LineType
<1> QED
  BY <1>1, <1>3, <1>4 DEF LogSteps

LEMMA GoesOnAfter ==
    ASSUME GapInv, Known', OneWriter, OneWriter', alone', ~touched, Unedited, GoesOn,
           NEW r \in Run, Opened(r) \/ WentOn(r) \/ Closed(r)
    PROVE  GoesOn'
<1>0. /\ Typed /\ Remembers /\ Known /\ InOrder /\ (alone' => alone)
      /\ log \in Seq(Entry) /\ Len(log) \in Nat /\ DOMAIN log = 1 .. Len(log)
  BY OneWriterAfter DEF GapInv, Typed
<1> SUFFICES ASSUME NEW q \in Run, IsOpen(q)', hash'[q] # 0
             PROVE  /\ log' # <<>> /\ IsEvent(log'[Len(log')]) => log'[Len(log')].id = hash'[q]
                    /\ \A i \in DOMAIN log' : IsEvent(log'[i]) => log'[i].id <= hash'[q]
  BY DEF GoesOn
<1>1. CASE Opened(r)
  <2>1. q = r
    BY <1>0, <1>1, OthersStay DEF Opened
  <2>2. hash'[q] = TailHash(log) /\ log' = log
    BY <1>0, <1>1, <2>1 DEF Opened, Typed
  <2>3. log # <<>> /\ IsEvent(Last(log)) /\ hash'[q] = Hash(Last(log))
    BY <2>2 DEF TailHash, NoHash
  <2>4. Len(log) \in DOMAIN log /\ Last(log) = log[Len(log)]
    BY <1>0, <2>3 DEF Last
  <2>5. hash'[q] = log[Len(log)].id
    BY <2>3, <2>4 DEF Hash, Unedited
  <2>6. ASSUME NEW i \in DOMAIN log, IsEvent(log[i]) PROVE log[i].id <= log[Len(log)].id
    <3>1. log[i].id \in Int
      <4>1. log[i] \in Entry
        BY <1>0
      <4> QED
        BY <4>1 DEF Entry
    <3>2. CASE i = Len(log)
      BY <3>1, <3>2
    <3>3. CASE i < Len(log)
      <4>1. log[i].id < log[Len(log)].id
        BY <1>0, <2>3, <2>4, <2>6, <3>3 DEF InOrder
      <4>2. log[Len(log)].id \in Int
        <5>1. log[Len(log)] \in Entry
          BY <1>0, <2>4
        <5> QED
          BY <5>1 DEF Entry
      <4> QED
        BY <3>1, <4>1, <4>2
    <3> QED
      BY <1>0, <3>2, <3>3
  <2> QED
    BY <2>2, <2>5, <2>6
<1>2. CASE WentOn(r)
  <2>1. q = r
    BY <1>0, <1>2, OthersStay DEF WentOn, OneWriter, IsOpen
  <2>2. hash'[q] = Len(wrote) + 1 /\ log' = Put(Line(r)) /\ Tells1(r)
    BY <1>0, <1>2, <2>1 DEF WentOn, Typed
  <2>3. Line(r) \in Entry /\ Line(r).id = Len(wrote) + 1 /\ Len(wrote) \in Nat
    BY <1>0, LineType
  <2>4. log'[Len(log')] = Garbage \/ log'[Len(log')] = Line(r)
    BY <1>0, <2>2, <2>3, PutPlaces
  <2>5. IsEvent(log'[Len(log')]) => log'[Len(log')].id = hash'[q]
    BY <2>2, <2>3, <2>4 DEF IsEvent
  <2>6. \A i \in DOMAIN log' : IsEvent(log'[i]) => log'[i].id \in 1 .. (Len(wrote) + 1)
    BY <1>0, <2>2, HistoryGrowsBy DEF Known
  <2> QED
    BY <2>2, <2>3, <2>5, <2>6
<1>3. CASE Closed(r)
  <2>1. PICK s \in {"done", "failed"} : state' = [state EXCEPT ![r] = s]
    BY <1>3 DEF Closed
  <2>2. q # r
    BY <1>0, <2>1 DEF Typed, IsOpen
  <2>3. IsOpen(q) /\ IsOpen(r) /\ alone
    BY <1>0, <1>3, <2>2, OthersStay DEF Closed
  <2> QED
    BY <2>2, <2>3 DEF OneWriter
<1> QED
  BY <1>1, <1>2, <1>3

LEMMA InitHonest == Init => HonestInv
BY DEF Init, HonestInv, OneWriter, IsOpen, Unedited, Unbroken, Unforked, GoesOn

LEMMA NextHonest == GapInv /\ GapInv' /\ HonestInv /\ [Next]_vars => HonestInv'
<1> SUFFICES ASSUME GapInv, GapInv', HonestInv, [Next]_vars PROVE HonestInv'
  OBVIOUS
<1>0. Typed /\ OneWriter /\ Known'
  BY DEF GapInv, HonestInv
<1>1. ASSUME NEW r \in Run, (\E asked \in Asked : Open(r, asked)) \/ Write(r) \/ WriteFails(r) \/ Stop(r)
      PROVE  HonestInv'
  <2>1. /\ LogSteps(r) /\ (Opened(r) \/ WentOn(r) \/ Closed(r))
        /\ touched' = touched
    BY <1>0, <1>1, RunSteps
  <2>2. OneWriter' /\ (alone' => alone)
    BY <1>0, <2>1, OneWriterAfter
  <2>3. ASSUME Honest' PROVE Unedited' /\ Unbroken' /\ Unforked' /\ GoesOn'
    <3>1. Unedited /\ Unbroken /\ Unforked /\ GoesOn /\ alone' /\ ~touched
      BY <2>1, <2>2, <2>3 DEF Honest, HonestInv
    <3> QED
      BY <1>0, <2>1, <2>2, <3>1, LinesAfter, GoesOnAfter
  <2> QED
    BY <2>2, <2>3 DEF HonestInv
<1>2. CASE Rotate
  <2>1. log' = <<>> /\ DOMAIN log' = {} /\ UNCHANGED <<state, alone>>
    BY <1>2 DEF Rotate
  <2> QED
    BY <1>0, <2>1 DEF HonestInv, OneWriter, IsOpen, Unedited, Unbroken, Unforked, GoesOn
<1>3. CASE Touch
  <2>1. ~Honest' /\ UNCHANGED <<state, alone>>
    BY <1>3 DEF Touch, Honest
  <2> QED
    BY <1>0, <2>1 DEF HonestInv, OneWriter, IsOpen
<1>4. CASE UNCHANGED vars
  BY <1>4 DEF vars, HonestInv, Honest, OneWriter, IsOpen, Unedited, Unbroken, Unforked, GoesOn
<1> QED
  BY <1>1, <1>2, <1>3, <1>4 DEF Next

LEMMA HonestInvariance == Spec => []HonestInv
<1> QED
  BY InitHonest, NextHonest, GapInvariance, PTL DEF Spec

\* exporter.New's promise that a restarted run continues the chain, and what
\* agentstack makes of it (EventLog: HonestNeverBroken): one run after the
\* other, killed, cut short or over a rotated log, and no line touched, is
\* never called broken.
THEOREM AnHonestLogIsNeverBroken == Spec => []HonestNeverBroken
<1>1. GapInv /\ HonestInv => HonestNeverBroken
  <2> SUFFICES ASSUME GapInv, HonestInv, Honest
               PROVE  /\ eventStreamFindings(log) # "hash-chain-broken"
                      /\ eventStreamFindings(log) = "no-hash-chain" =>
                            \A i \in DOMAIN log : log[i].prev = NoHash
                      /\ eventStreamFindings(log) = "hash-chain-unverifiable" => Malformed(log) # {}
    BY DEF HonestNeverBroken, Honest
  <2>1. Unedited /\ Unbroken /\ Unforked
    BY DEF HonestInv
  <2>2. DOMAIN log = 1 .. Len(log) /\ Len(log) \in Nat
    BY DEF GapInv, Typed
  <2>3. Breaks(log) = {}
    <3> SUFFICES ASSUME NEW i \in 2 .. Len(log), IsEvent(log[i]), IsEvent(log[i - 1]),
                        log[i].prev # NoHash
                 PROVE  log[i].prev = Hash(log[i - 1])
      BY DEF Breaks
    <3>1. i \in DOMAIN log /\ i > 1 /\ i - 1 \in DOMAIN log
      BY <2>2
    <3> QED
      BY <2>1, <3>1 DEF Unbroken, Unedited, Hash, NoHash
  <2>4. \A i, j \in Links(log) : log[i].prev = log[j].prev => i = j
    BY <2>1 DEF Links, parseEvents, Unforked, NoHash
  <2>5. ASSUME ~LooksChained(log) PROVE \A i \in DOMAIN log : log[i].prev = NoHash
    <3>1. Links(log) = {} /\ \A i \in parseEvents(log) : log[i].prev # Misshapen
      <4>1. \A i \in parseEvents(log) : log[i].prev # Misshapen
        BY <2>1 DEF GapInv, Linked, Chained, AsWritten, Unedited, parseEvents
      <4> QED
        BY <2>4, <2>5, <4>1 DEF LooksChained
    <3>2. \A i \in DOMAIN log : IsEvent(log[i]) => log[i].prev = NoHash
      BY <3>1 DEF Links, parseEvents
    <3> QED
      BY <3>2 DEF IsEvent, Garbage
  <2>6. eventStreamFindings(log) = "no-hash-chain" => ~LooksChained(log)
    BY DEF eventStreamFindings
  <2>7. eventStreamFindings(log) # "hash-chain-broken"
    BY <2>3 DEF eventStreamFindings
  <2>8. eventStreamFindings(log) = "hash-chain-unverifiable" => Malformed(log) # {}
    BY DEF eventStreamFindings
  <2> QED
    BY <2>5, <2>6, <2>7, <2>8
<1> QED
  BY <1>1, GapInvariance, HonestInvariance, PTL

-----------------------------------------------------------------------------
(* How many things there are is how far they can be numbered.              *)

\* f numbers the elements of S from 1 to n.
Numbers(f, n, S) ==
    /\ f \in [1 .. n -> S]
    /\ \A i, j \in 1 .. n : f[i] = f[j] => i = j
    /\ \A x \in S : \E i \in 1 .. n : f[i] = x

LEMMA NumbersNone == \E f : Numbers(f, 0, {})
<1> DEFINE f == [i \in 1 .. 0 |-> i]
<1>1. f \in [1 .. 0 -> {}]
  OBVIOUS
<1>2. Numbers(f, 0, {})
  BY <1>1 DEF Numbers
<1> QED
  BY <1>1, <1>2

\* One more element gets the next number.
With(f, n, x) == [i \in 1 .. (n + 1) |-> IF i = n + 1 THEN x ELSE f[i]]

LEMMA WithIs ==
    ASSUME NEW n \in Nat, NEW f, NEW x
    PROVE  With(f, n, x)[n + 1] = x /\ \A i \in 1 .. n : With(f, n, x)[i] = f[i]
BY DEF With

LEMMA NumbersMore ==
    ASSUME NEW n \in Nat, NEW S, NEW f, Numbers(f, n, S), NEW x, x \notin S
    PROVE  Numbers(With(f, n, x), n + 1, S \cup {x})
<1> DEFINE g == With(f, n, x)
<1>1. /\ f \in [1 .. n -> S]
      /\ \A i, j \in 1 .. n : f[i] = f[j] => i = j
      /\ \A y \in S : \E i \in 1 .. n : f[i] = y
  BY DEF Numbers
<1>2. 1 .. (n + 1) = (1 .. n) \cup {n + 1} /\ n + 1 \notin 1 .. n
  OBVIOUS
<1>3. g[n + 1] = x /\ \A i \in 1 .. n : g[i] = f[i]
  BY WithIs
<1>4. g \in [1 .. (n + 1) -> S \cup {x}]
  BY <1>1, <1>2 DEF With
<1> HIDE DEF g
<1>5. \A i, j \in 1 .. (n + 1) : g[i] = g[j] => i = j
  BY <1>1, <1>2, <1>3
<1>6. \A y \in S \cup {x} : \E i \in 1 .. (n + 1) : g[i] = y
  BY <1>1, <1>2, <1>3
<1> QED
  BY <1>4, <1>5, <1>6 DEF Numbers, g

\* A part of what is numbered has as many elements as it has numbers.
LEMMA NumbersCount ==
    ASSUME NEW n \in Nat, NEW S, NEW f, Numbers(f, n, S), NEW P, P \subseteq S
    PROVE  Cardinality(P) = Cardinality({i \in 1 .. n : f[i] \in P})
<1> DEFINE Q == {i \in 1 .. n : f[i] \in P}
           h == [i \in Q |-> f[i]]
<1>1. IsFiniteSet(Q)
  <2>1. IsFiniteSet(1 .. n)
    BY FS_Interval
  <2>2. Q \in SUBSET (1 .. n)
    OBVIOUS
  <2> HIDE DEF Q
  <2> QED
    BY <2>1, <2>2, FS_Subset
<1>2. h \in [Q -> P]
  OBVIOUS
<1>3. \A i, j \in Q : h[i] = h[j] => i = j
  BY DEF Numbers
<1>4. \A x \in P : \E i \in Q : h[i] = x
  BY DEF Numbers
<1> HIDE DEF Q, h
<1>5. ExistsBijection(Q, P)
  BY <1>2, <1>3, <1>4 DEF ExistsBijection, Bijection, Injection, Surjection, IsInjective
<1> QED
  BY <1>1, <1>5, FS_Bijection DEF Q

-----------------------------------------------------------------------------
(* What the loop of Emit writes.                                           *)

Types == {"crypto_finding", "crypto_drift", "evidence_signed", "policy_violation"}

Subjects == {Findings[n].agent : n \in 1 .. Len(Findings)} \cup {Nodes[n].agent : n \in 1 .. Len(Nodes)}

Event == [type : Types, agent : Subjects]

\* What one call writes: an event of its type for each place in I.
Writes(t, type, things, I) ==
    /\ t \in Seq(Event)
    /\ \A i \in 1 .. Len(t) : t[i].type = type
    /\ \E f : /\ Numbers(f, Len(t), I)
              /\ \A i \in 1 .. Len(t) : t[i] = [type |-> type, agent |-> things[f[i]].agent]

EmitsTo(e, m, type, things, I) ==
    e = [n \in 0 .. m |->
            IF n = 0 THEN <<>>
            ELSE IF n \in I THEN Append(e[n - 1], [type |-> type, agent |-> things[n].agent])
                            ELSE e[n - 1]]

LEMMA EmitsExist ==
    ASSUME NEW k \in Nat, NEW type, NEW things, NEW I
    PROVE  \E e : EmitsTo(e, k, type, things, I)
<1> DEFINE Bad == {m \in Nat : \A e : ~EmitsTo(e, m, type, things, I)}
<1>1. ASSUME Bad # {} PROVE FALSE
  <2>1. PICK m \in Bad : \A y \in Bad : m <= y
    <3>1. Bad \subseteq Nat
      OBVIOUS
    <3> HIDE DEF Bad
    <3> QED
      BY <1>1, <3>1, Least
  <2>2. CASE m = 0
    <3> DEFINE e == [n \in 0 .. 0 |-> <<>>]
    <3>1. EmitsTo(e, 0, type, things, I)
      BY DEF EmitsTo
    <3> QED
      BY <2>1, <2>2, <3>1
  <2>3. CASE m # 0
    <3>1. m \in Nat /\ m - 1 \in Nat /\ m - 1 \notin Bad
      <4>1. m \in Nat
        OBVIOUS
      <4> HIDE DEF Bad
      <4> QED
        BY <2>1, <2>3, <4>1
    <3>2. PICK f : EmitsTo(f, m - 1, type, things, I)
      BY <3>1
    <3> DEFINE new(b) == Append(b, [type |-> type, agent |-> things[m].agent])
               last == IF m \in I THEN new(f[m - 1]) ELSE f[m - 1]
               e == [n \in 0 .. m |-> IF n = m THEN last ELSE f[n]]
    <3>3. \A n \in 0 .. (m - 1) :
            f[n] = IF n = 0 THEN <<>>
                   ELSE IF n \in I THEN Append(f[n - 1], [type |-> type, agent |-> things[n].agent])
                                   ELSE f[n - 1]
      BY <3>2 DEF EmitsTo
    <3>4. e = [n \in 0 .. m |-> e[n]] /\ e[m] = last /\ \A n \in 0 .. (m - 1) : e[n] = f[n]
      BY <3>1
    <3> HIDE DEF e
    <3>5. e[m] = IF m \in I THEN Append(e[m - 1], [type |-> type, agent |-> things[m].agent])
                 ELSE e[m - 1]
      <4>1. m - 1 \in 0 .. (m - 1)
        BY <3>1
      <4>2. e[m - 1] = f[m - 1]
        BY <3>4, <4>1
      <4> QED
        BY <3>4, <4>2
    <3>6. ASSUME NEW n \in 0 .. m
          PROVE  e[n] = IF n = 0 THEN <<>>
                        ELSE IF n \in I
                               THEN Append(e[n - 1], [type |-> type, agent |-> things[n].agent])
                               ELSE e[n - 1]
      <4>1. CASE n = m
        BY <2>3, <3>5, <4>1
      <4>2. CASE n = 0
        BY <3>1, <3>3, <3>4, <4>2
      <4>3. CASE n \in 1 .. (m - 1)
        <5>1. n \in 0 .. (m - 1) /\ n - 1 \in 0 .. (m - 1) /\ n # 0
          BY <3>1, <4>3
        <5>2. e[n] = f[n] /\ e[n - 1] = f[n - 1]
          BY <3>4, <5>1
        <5> QED
          BY <3>3, <5>1, <5>2
      <4> QED
        BY <3>1, <4>1, <4>2, <4>3
    <3>7. EmitsTo(e, m, type, things, I)
      BY <3>4, <3>6 DEF EmitsTo
    <3> QED
      BY <2>1, <3>7
  <2> QED
    BY <2>2, <2>3
<1> QED
  BY <1>1

\* An event for each place in I, in the order of the places.
LEMMA EmitNumbers ==
    ASSUME NEW type \in Types, NEW things, NEW I, Len(things) \in Nat,
           I \subseteq 1 .. Len(things), \A n \in 1 .. Len(things) : things[n].agent \in Subjects
    PROVE  Writes(Emit(type, things, I), type, things, I)
<1> DEFINE m == Len(things)
           E == CHOOSE e : EmitsTo(e, m, type, things, I)
           about(n) == [type |-> type, agent |-> things[n].agent]
           Lists(t, n) ==
               /\ t \in Seq(Event)
               /\ \E f : /\ Numbers(f, Len(t), I \cap 1 .. n)
                         /\ \A i \in 1 .. Len(t) : t[i] = about(f[i])
<1>1. EmitsTo(E, m, type, things, I)
  BY EmitsExist
<1>2. Emit(type, things, I) = E[m]
  BY DEF Emit, EmitsTo
<1> HIDE DEF E
<1>3. \A n \in 0 .. m : E[n] = IF n = 0 THEN <<>> ELSE IF n \in I THEN Append(E[n - 1], about(n))
                                                            ELSE E[n - 1]
  BY <1>1 DEF EmitsTo
<1> DEFINE Bad == {n \in 0 .. m : ~Lists(E[n], n)}
<1>4. Lists(E[0], 0)
  <2>1. E[0] = <<>>
    <3>1. 0 \in 0 .. m
      OBVIOUS
    <3> HIDE DEF m, about
    <3> QED
      BY <1>3, <3>1
  <2>2. I \cap 1 .. 0 = {} /\ <<>> \in Seq(Event) /\ Len(<<>>) = 0
    OBVIOUS
  <2>3. PICK f : Numbers(f, 0, {})
    BY NumbersNone
  <2> QED
    BY <2>1, <2>2, <2>3
<1>5. ASSUME NEW n \in 1 .. m, Lists(E[n - 1], n - 1) PROVE Lists(E[n], n)
  <2> DEFINE t == E[n - 1]
  <2>1. t \in Seq(Event) /\ Len(t) \in Nat /\ about(n) \in Event
    BY <1>5 DEF Event
  <2>2. PICK f :
           /\ Numbers(f, Len(t), I \cap 1 .. (n - 1))
           /\ \A i \in 1 .. Len(t) : t[i] = about(f[i])
    BY <1>5
  <2>3. E[n] = IF n \in I THEN Append(t, about(n)) ELSE t
    BY <1>3
  <2> HIDE DEF t, about
  <2>4. CASE n \in I
    <3>1. (I \cap 1 .. (n - 1)) \cup {n} = I \cap 1 .. n /\ n \notin I \cap 1 .. (n - 1)
      BY <2>4
    <3> DEFINE g == With(f, Len(t), n)
    <3>2. /\ Numbers(g, Len(t) + 1, I \cap 1 .. n)
          /\ g[Len(t) + 1] = n /\ \A i \in 1 .. Len(t) : g[i] = f[i]
      <4> DEFINE P == I \cap 1 .. (n - 1)
                 k == Len(t)
      <4>1. k \in Nat /\ Numbers(f, k, P) /\ n \notin P
        BY <2>1, <2>2, <3>1
      <4> HIDE DEF P, k
      <4>2. Numbers(With(f, k, n), k + 1, P \cup {n})
        BY <4>1, NumbersMore
      <4>3. With(f, k, n)[k + 1] = n /\ \A i \in 1 .. k : With(f, k, n)[i] = f[i]
        BY <4>1, WithIs
      <4> QED
        BY <3>1, <4>2, <4>3 DEF P, k
    <3> HIDE DEF g
    <3>3. /\ Append(t, about(n)) \in Seq(Event) /\ Len(Append(t, about(n))) = Len(t) + 1
          /\ Append(t, about(n))[Len(t) + 1] = about(n)
          /\ \A i \in 1 .. Len(t) : Append(t, about(n))[i] = t[i]
      BY <2>1
    <3>4. \A i \in 1 .. (Len(t) + 1) : Append(t, about(n))[i] = about(g[i])
      BY <2>1, <2>2, <3>2, <3>3
    <3>5. Lists(Append(t, about(n)), n)
      BY <3>2, <3>3, <3>4
    <3> QED
      BY <2>3, <2>4, <3>5
  <2>5. CASE n \notin I
    <3>1. I \cap 1 .. (n - 1) = I \cap 1 .. n
      BY <2>5
    <3> QED
      BY <2>1, <2>2, <2>3, <2>5, <3>1
  <2> QED
    BY <2>4, <2>5
<1> HIDE DEF Lists
<1>6. ASSUME Bad # {} PROVE FALSE
  <2>1. PICK n \in Bad : \A y \in Bad : n <= y
    <3>1. Bad \subseteq Nat
      OBVIOUS
    <3> HIDE DEF Bad
    <3> QED
      BY <1>6, <3>1, Least
  <2>2. n # 0 /\ n \in 0 .. m /\ ~Lists(E[n], n)
    BY <1>4
  <2>3. n \in 1 .. m /\ n - 1 \in 0 .. m /\ n - 1 \notin Bad
    <3> HIDE DEF Bad
    <3> QED
      BY <2>1, <2>2
  <2> QED
    BY <1>5, <2>2, <2>3
<1>7. Lists(E[m], m)
  BY <1>6
<1>8. I \cap 1 .. m = I
  OBVIOUS
<1>9. Lists(Emit(type, things, I), m)
  BY <1>2, <1>7
<1> DEFINE t == Emit(type, things, I)
<1>10. PICK f : Numbers(f, Len(t), I) /\ \A i \in 1 .. Len(t) : t[i] = about(f[i])
  BY <1>8, <1>9 DEF Lists
<1>11. t \in Seq(Event)
  BY <1>9 DEF Lists
<1> HIDE DEF t
<1>12. \A i \in 1 .. Len(t) : t[i].type = type
  <2>1. \A n \in 1 .. m : about(n).type = type
    OBVIOUS
  <2>2. \A i \in 1 .. Len(t) : t[i] = about(f[i]) /\ f[i] \in 1 .. m
    BY <1>10 DEF Numbers
  <2> HIDE DEF about, m
  <2> QED
    BY <2>1, <2>2
<1> QED
  BY <1>10, <1>11, <1>12 DEF Writes, t

-----------------------------------------------------------------------------
(* What a run has to tell.                                                 *)

\* The findings about an agent.
Has(a) == {i \in DOMAIN Scanned : Scanned[i].method # "stream" /\ Scanned[i].id = a}

LEMMA FindingsAre ==
    /\ Len(Scanned) \in Nat /\ Len(Findings) = Len(Scanned)
    /\ DOMAIN Scanned = 1 .. Len(Scanned) /\ DOMAIN Findings = 1 .. Len(Scanned)
    /\ \A i \in 1 .. Len(Scanned) : Findings[i].agent = findingTags(Scanned[i])
    /\ \A a \in Agent : Has(a) = {i \in WithAgent(Findings) : Findings[i].agent = a}
<1> DEFINE n == Len(Scanned)
           about(i) == [agent |-> findingTags(Scanned[i]), alg |-> Algorithm(Scanned[i].method)]
           S == {about(i) : i \in 1 .. n}
<1>1. n \in Nat /\ DOMAIN Scanned = 1 .. n
  BY EventLogAssumption
<1>2. Findings = [i \in 1 .. n |-> about(i)]
  BY <1>1 DEF Findings
<1>3. \A i \in 1 .. n : about(i).agent = findingTags(Scanned[i])
  OBVIOUS
<1> HIDE DEF n, about
<1>4. Findings \in [1 .. n -> S]
  BY <1>2
<1>5. Len(Findings) = n
  <2> HIDE DEF S
  <2> QED
    BY <1>1, <1>4
<1>6. ASSUME NEW a \in Agent
      PROVE  Has(a) = {i \in WithAgent(Findings) : Findings[i].agent = a}
  <2>1. NoAgent # a
    BY EventLogAssumption
  <2>2. \A i \in 1 .. n : Findings[i].agent = findingTags(Scanned[i])
    BY <1>2, <1>3
  <2>3. DOMAIN Findings = 1 .. n
    BY <1>2
  <2> QED
    BY <1>1, <2>1, <2>2, <2>3 DEF Has, WithAgent, findingTags
<1> QED
  BY <1>1, <1>2, <1>3, <1>5, <1>6 DEF n

\* Build numbers its nodes.
LEMMA NodesAreSequence == Len(Nodes) \in Nat /\ DOMAIN Nodes = 1 .. Len(Nodes)
<1> DEFINE Algs == {Findings[i].alg : i \in DOMAIN Findings}
           latest(a) == CHOOSE i \in DOMAIN Findings :
                      /\ Findings[i].alg = a
                      /\ \A j \in DOMAIN Findings : Findings[j].alg = a => j <= i
           X == {Findings[latest(a)] : a \in Algs}
<1>1. Nodes = SetToSeq(X)
  BY DEF Nodes
<1> HIDE DEF latest
<1>2. IsFiniteSet(X)
  <2> DEFINE n == Len(Scanned)
             g == [i \in 1 .. n |-> Findings[latest(Findings[i].alg)]]
  <2>1. n \in Nat /\ DOMAIN Findings = 1 .. n
    BY FindingsAre
  <2> HIDE DEF n
  <2>2. g \in [1 .. n -> X]
    BY <2>1
  <2>3. \A x \in X : \E i \in 1 .. n : g[i] = x
    BY <2>1
  <2> HIDE DEF g, X
  <2>4. ExistsSurjection(1 .. n, X)
    BY <2>2, <2>3 DEF ExistsSurjection, Surjection
  <2> QED
    BY <2>1, <2>4, FS_NatSurjection
<1> HIDE DEF X
<1> DEFINE m == Cardinality(X)
<1>3. m \in Nat /\ ExistsBijection(1 .. m, X)
  BY <1>2, FS_CardinalityType
<1>4. \E f \in [1 .. m -> X] : IsInjective(f)
  BY <1>3 DEF ExistsBijection, Bijection, Injection
<1>5. SetToSeq(X) \in [1 .. m -> X]
  BY <1>4 DEF SetToSeq
<1>6. Len(SetToSeq(X)) = m /\ DOMAIN SetToSeq(X) = 1 .. m
  <2> HIDE DEF m
  <2> QED
    BY <1>3, <1>5
<1> QED
  BY <1>1, <1>3, <1>6

LEMMA Joined ==
    ASSUME NEW S, NEW a \in Seq(S), NEW b \in Seq(S)
    PROVE  /\ a \o b \in Seq(S) /\ Len(a) \in Nat /\ Len(b) \in Nat
           /\ Len(a \o b) = Len(a) + Len(b)
           /\ \A i \in 1 .. Len(a) : (a \o b)[i] = a[i]
           /\ \A i \in 1 .. Len(b) : (a \o b)[Len(a) + i] = b[i]
OBVIOUS

\* The events of each call, in the events of all four.
Parts(t, a, b, c, d) ==
    LET m == Len(a) + Len(b)
    IN  /\ t \in Seq(Event) /\ m \in Nat /\ Len(a) \in Nat /\ Len(b) \in Nat
        /\ Len(c) \in Nat /\ Len(d) \in Nat /\ Len(t) = m + Len(c) + Len(d)
        /\ \A i \in 1 .. Len(a) : t[i] = a[i]
        /\ \A i \in 1 .. Len(b) : t[Len(a) + i] = b[i]
        /\ \A i \in 1 .. Len(c) : t[m + i] = c[i]
        /\ \A i \in 1 .. Len(d) : t[m + Len(c) + i] = d[i]

LEMMA PartsOf ==
    ASSUME NEW a \in Seq(Event), NEW b \in Seq(Event), NEW c \in Seq(Event), NEW d \in Seq(Event)
    PROVE  Parts(a \o b \o c \o d, a, b, c, d)
<1> DEFINE ab == a \o b
           abc == ab \o c
           t == abc \o d
<1>0. ab \in Seq(Event) /\ abc \in Seq(Event)
  OBVIOUS
<1>1. /\ Len(a) \in Nat /\ Len(b) \in Nat /\ Len(ab) = Len(a) + Len(b)
      /\ \A i \in 1 .. Len(a) : ab[i] = a[i]
      /\ \A i \in 1 .. Len(b) : ab[Len(a) + i] = b[i]
  BY Joined
<1> HIDE DEF ab
<1>2. /\ Len(c) \in Nat /\ Len(abc) = Len(ab) + Len(c)
      /\ \A i \in 1 .. Len(ab) : abc[i] = ab[i]
      /\ \A i \in 1 .. Len(c) : abc[Len(ab) + i] = c[i]
  BY <1>0, Joined
<1> HIDE DEF abc
<1>3. /\ t \in Seq(Event) /\ Len(d) \in Nat /\ Len(t) = Len(abc) + Len(d)
      /\ \A i \in 1 .. Len(abc) : t[i] = abc[i]
      /\ \A i \in 1 .. Len(d) : t[Len(abc) + i] = d[i]
  BY <1>0, Joined
<1> HIDE DEF t
<1>4. \A i \in 1 .. Len(a) : t[i] = a[i]
  BY <1>1, <1>2, <1>3
<1>5. ASSUME NEW i \in 1 .. Len(b) PROVE t[Len(a) + i] = b[i]
  <2>1. Len(a) + i \in 1 .. Len(ab) /\ Len(a) + i \in 1 .. Len(abc)
    BY <1>1, <1>2
  <2> QED
    BY <1>1, <1>2, <1>3, <2>1
<1>6. \A i \in 1 .. Len(c) : t[Len(ab) + i] = c[i]
  BY <1>1, <1>2, <1>3
<1>7. /\ Len(t) = Len(a) + Len(b) + Len(c) + Len(d)
      /\ \A i \in 1 .. Len(c) : t[Len(a) + Len(b) + i] = c[i]
      /\ \A i \in 1 .. Len(d) : t[Len(a) + Len(b) + Len(c) + i] = d[i]
  BY <1>1, <1>2, <1>3, <1>6
<1> QED
  BY <1>1, <1>2, <1>3, <1>4, <1>5, <1>7 DEF Parts, t, abc, ab

\* A place among the four is a place in one of them.
LEMMA FourParts ==
    ASSUME NEW a \in Nat, NEW b \in Nat, NEW c \in Nat, NEW d \in Nat,
           NEW i \in 1 .. (a + b + c + d)
    PROVE  \/ i \in 1 .. a
           \/ \E j \in 1 .. b : i = a + j
           \/ \E j \in 1 .. c : i = a + b + j
           \/ \E j \in 1 .. d : i = a + b + c + j
<1>1. CASE i <= a
  BY <1>1
<1>2. CASE a < i /\ i <= a + b
  <2>1. i - a \in 1 .. b /\ i = a + (i - a)
    BY <1>2
  <2> QED
    BY <2>1
<1>3. CASE a + b < i /\ i <= a + b + c
  <2>1. i - (a + b) \in 1 .. c /\ i = a + b + (i - (a + b))
    BY <1>3
  <2> QED
    BY <2>1
<1>4. CASE a + b + c < i
  <2>1. i - (a + b + c) \in 1 .. d /\ i = a + b + c + (i - (a + b + c))
    BY <1>4
  <2> QED
    BY <2>1
<1> QED
  BY <1>1, <1>2, <1>3, <1>4

LEMMA EmitWrites ==
    ASSUME NEW type \in Types, NEW things, things = Findings \/ things = Nodes,
           NEW I, I \subseteq 1 .. Len(things)
    PROVE  Writes(Emit(type, things, I), type, things, I)
<1>1. Len(things) \in Nat
  BY FindingsAre, NodesAreSequence
<1>2. \A n \in 1 .. Len(things) : things[n].agent \in Subjects
  BY DEF Subjects
<1> QED
  BY <1>1, <1>2, EmitNumbers

First(i) == \A j \in 1 .. (i - 1) : Findings[j].agent # Findings[i].agent

DriftTold(o)  == IF "drift" \in o THEN EmitDrift(Nodes) ELSE <<>>
SignedTold(o) == IF "sign" \in o THEN EmitEvidenceSigned(Findings) ELSE <<>>
BrokenTold(o) == IF "policy" \in o THEN EmitViolations(Nodes) ELSE <<>>

LEMMA TellsIs ==
    ASSUME NEW o
    PROVE  /\ Tells(o) = EmitFindings \o DriftTold(o) \o SignedTold(o) \o BrokenTold(o)
           /\ Writes(EmitFindings, "crypto_finding", Findings, WithAgent(Findings))
           /\ DriftTold(o) \in Seq(Event)
           /\ \A i \in 1 .. Len(DriftTold(o)) : DriftTold(o)[i].type = "crypto_drift"
           /\ IF "sign" \in o
                THEN Writes(SignedTold(o), "evidence_signed", Findings,
                            {i \in WithAgent(Findings) : First(i)})
                ELSE SignedTold(o) = <<>>
           /\ SignedTold(o) \in Seq(Event)
           /\ \A i \in 1 .. Len(SignedTold(o)) : SignedTold(o)[i].type = "evidence_signed"
           /\ BrokenTold(o) \in Seq(Event)
           /\ \A i \in 1 .. Len(BrokenTold(o)) : BrokenTold(o)[i].type = "policy_violation"
<1> DEFINE J == {i \in WithAgent(Nodes) : Nodes[i].alg \in Forbidden}
           F == {i \in WithAgent(Findings) : First(i)}
<1>1. /\ WithAgent(Findings) \subseteq 1 .. Len(Findings)
      /\ F \subseteq 1 .. Len(Findings)
  BY FindingsAre DEF WithAgent
<1>2. /\ WithAgent(Nodes) \subseteq 1 .. Len(Nodes)
      /\ J \subseteq 1 .. Len(Nodes)
  BY NodesAreSequence DEF WithAgent
<1>3. Writes(EmitFindings, "crypto_finding", Findings, WithAgent(Findings))
  BY <1>1, EmitWrites DEF EmitFindings, Types
<1>4. Writes(EmitDrift(Nodes), "crypto_drift", Nodes, WithAgent(Nodes))
  BY <1>2, EmitWrites DEF EmitDrift, Types
<1>5. Writes(EmitEvidenceSigned(Findings), "evidence_signed", Findings, F)
  BY <1>1, EmitWrites DEF EmitEvidenceSigned, First, Types
<1>6. Writes(EmitViolations(Nodes), "policy_violation", Nodes, J)
  BY <1>2, EmitWrites DEF EmitViolations, Types
<1>7. Tells(o) = EmitFindings \o DriftTold(o) \o SignedTold(o) \o BrokenTold(o)
  BY DEF Tells, DriftTold, SignedTold, BrokenTold
<1>8. <<>> \in Seq(Event) /\ Len(<<>>) = 0 /\ 1 .. 0 = {}
  OBVIOUS
<1>9. DriftTold(o) \in Seq(Event)
      /\ \A i \in 1 .. Len(DriftTold(o)) : DriftTold(o)[i].type = "crypto_drift"
  BY <1>4, <1>8 DEF Writes, DriftTold
<1>10. BrokenTold(o) \in Seq(Event)
       /\ \A i \in 1 .. Len(BrokenTold(o)) : BrokenTold(o)[i].type = "policy_violation"
  BY <1>6, <1>8 DEF Writes, BrokenTold
<1>11. IF "sign" \in o THEN Writes(SignedTold(o), "evidence_signed", Findings, F)
                       ELSE SignedTold(o) = <<>>
  BY <1>5 DEF SignedTold
<1>12. SignedTold(o) \in Seq(Event)
       /\ \A i \in 1 .. Len(SignedTold(o)) : SignedTold(o)[i].type = "evidence_signed"
  BY <1>5, <1>8 DEF Writes, SignedTold
<1> QED
  BY <1>3, <1>7, <1>9, <1>10, <1>11, <1>12

-----------------------------------------------------------------------------

\* How often a run has to say one thing to one agent.
Times(o, type, a) ==
    Cardinality({i \in 1 .. Len(Tells(o)) : Tells(o)[i] = [type |-> type, agent |-> a]})

LEMMA TellsTyped ==
    ASSUME NEW o PROVE Tells(o) \in Seq(Event)
<1> DEFINE s1 == EmitFindings
           s2 == DriftTold(o)
           s3 == SignedTold(o)
           s4 == BrokenTold(o)
<1>1. Tells(o) = s1 \o s2 \o s3 \o s4
  BY TellsIs
<1>2. s1 \in Seq(Event) /\ s2 \in Seq(Event) /\ s4 \in Seq(Event)
  BY TellsIs DEF Writes
<1>3. s3 \in Seq(Event)
  BY TellsIs
<1> HIDE DEF s1, s2, s3, s4
<1> QED
  BY <1>1, <1>2, <1>3

\* Where the four calls put the events of a type.
LEMMA PlacesOf ==
    ASSUME NEW o
    PROVE  LET D == Tells(o)
               s == EmitFindings
               c == SignedTold(o)
               m == Len(EmitFindings) + Len(DriftTold(o))
           IN  /\ Len(s) \in Nat /\ Len(c) \in Nat /\ m \in Nat /\ Len(D) \in Nat
               /\ \A i \in 1 .. Len(s) : i \in 1 .. Len(D) /\ D[i] = s[i]
               /\ \A j \in 1 .. Len(c) : m + j \in 1 .. Len(D) /\ D[m + j] = c[j]
               /\ \A i \in 1 .. Len(D) : D[i].type = "crypto_finding" => i \in 1 .. Len(s)
               /\ \A i \in 1 .. Len(D) : D[i].type = "evidence_signed" =>
                       \E j \in 1 .. Len(c) : i = m + j
<1> DEFINE D == Tells(o)
           s == EmitFindings
           b == DriftTold(o)
           c == SignedTold(o)
           d == BrokenTold(o)
           m == Len(s) + Len(b)
<1>1. D = s \o b \o c \o d
  BY TellsIs
<1>2. s \in Seq(Event) /\ b \in Seq(Event) /\ d \in Seq(Event)
  BY TellsIs DEF Writes
<1>3. c \in Seq(Event)
  BY TellsIs
<1>4. /\ \A i \in 1 .. Len(s) : s[i].type = "crypto_finding"
      /\ \A i \in 1 .. Len(b) : b[i].type = "crypto_drift"
      /\ \A i \in 1 .. Len(d) : d[i].type = "policy_violation"
  BY TellsIs DEF Writes
<1>5. \A i \in 1 .. Len(c) : c[i].type = "evidence_signed"
  BY TellsIs
<1> HIDE DEF D, s, b, c, d
<1>6. /\ m \in Nat /\ Len(s) \in Nat /\ Len(b) \in Nat /\ Len(c) \in Nat /\ Len(d) \in Nat
      /\ Len(D) = m + Len(c) + Len(d)
      /\ \A i \in 1 .. Len(s) : D[i] = s[i]
      /\ \A i \in 1 .. Len(b) : D[Len(s) + i] = b[i]
      /\ \A i \in 1 .. Len(c) : D[m + i] = c[i]
      /\ \A i \in 1 .. Len(d) : D[m + Len(c) + i] = d[i]
  <2>1. Parts(s \o b \o c \o d, s, b, c, d)
    BY <1>2, <1>3, PartsOf
  <2>2. Parts(D, s, b, c, d)
    BY <1>1, <2>1
  <2> QED
    BY <2>2 DEF Parts
<1>7. ASSUME NEW i \in 1 .. Len(D)
      PROVE  \/ i \in 1 .. Len(s) /\ D[i].type = "crypto_finding"
             \/ D[i].type = "crypto_drift"
             \/ (\E j \in 1 .. Len(c) : i = m + j) /\ D[i].type = "evidence_signed"
             \/ D[i].type = "policy_violation"
  <2>1. \/ i \in 1 .. Len(s)
        \/ \E j \in 1 .. Len(b) : i = Len(s) + j
        \/ \E j \in 1 .. Len(c) : i = m + j
        \/ \E j \in 1 .. Len(d) : i = m + Len(c) + j
    <3>1. /\ Len(s) \in Nat /\ Len(b) \in Nat /\ Len(c) \in Nat /\ Len(d) \in Nat
          /\ i \in 1 .. (Len(s) + Len(b) + Len(c) + Len(d))
      BY <1>6
    <3> DEFINE p == Len(s)
               q == Len(b)
               u == Len(c)
               v == Len(d)
    <3>2. p \in Nat /\ q \in Nat /\ u \in Nat /\ v \in Nat /\ i \in 1 .. (p + q + u + v)
      BY <3>1
    <3> HIDE DEF p, q, u, v
    <3>3. \/ i \in 1 .. p
          \/ \E j \in 1 .. q : i = p + j
          \/ \E j \in 1 .. u : i = p + q + j
          \/ \E j \in 1 .. v : i = p + q + u + j
      BY <3>2, FourParts
    <3> QED
      BY <3>3 DEF p, q, u, v
  <2>2. CASE i \in 1 .. Len(s)
    BY <1>4, <1>6, <2>2
  <2>3. ASSUME NEW j \in 1 .. Len(b), i = Len(s) + j PROVE D[i].type = "crypto_drift"
    BY <1>4, <1>6, <2>3
  <2>4. ASSUME NEW j \in 1 .. Len(c), i = m + j PROVE D[i].type = "evidence_signed"
    <3> HIDE DEF m
    <3> QED
      BY <1>5, <1>6, <2>4
  <2>5. ASSUME NEW j \in 1 .. Len(d), i = m + Len(c) + j PROVE D[i].type = "policy_violation"
    <3> HIDE DEF m
    <3> QED
      BY <1>4, <1>6, <2>5
  <2> QED
    BY <2>1, <2>2, <2>3, <2>4, <2>5
<1>8. /\ \A i \in 1 .. Len(s) : i \in 1 .. Len(D)
      /\ \A j \in 1 .. Len(c) : m + j \in 1 .. Len(D)
      /\ Len(D) \in Nat
  BY <1>6
<1>9. \A i \in 1 .. Len(D) : D[i].type = "crypto_finding" => i \in 1 .. Len(s)
  BY <1>7
<1>10. \A i \in 1 .. Len(D) : D[i].type = "evidence_signed" => \E j \in 1 .. Len(c) : i = m + j
  BY <1>7
<1> QED
  BY <1>6, <1>8, <1>9, <1>10 DEF D, s, b, c, d

\* Every finding about an agent is told it once.
LEMMA FindingsTold ==
    ASSUME NEW o, NEW a \in Agent
    PROVE  Times(o, "crypto_finding", a) = Cardinality(Has(a))
<1> DEFINE D == Tells(o)
           s == EmitFindings
           x == [type |-> "crypto_finding", agent |-> a]
           X == {i \in 1 .. Len(D) : D[i] = x}
<1>1. /\ Len(s) \in Nat
      /\ \A i \in 1 .. Len(s) : i \in 1 .. Len(D) /\ D[i] = s[i]
      /\ \A i \in 1 .. Len(D) : D[i].type = "crypto_finding" => i \in 1 .. Len(s)
  BY PlacesOf
<1>2. PICK f : /\ Numbers(f, Len(s), WithAgent(Findings))
               /\ \A i \in 1 .. Len(s) : s[i] = [type |-> "crypto_finding", agent |-> Findings[f[i]].agent]
  BY TellsIs DEF Writes
<1>3. Has(a) = {i \in WithAgent(Findings) : Findings[i].agent = a}
  BY FindingsAre
<1>4. \A i \in 1 .. Len(s) : f[i] \in WithAgent(Findings)
  BY <1>2 DEF Numbers
<1>5. X = {i \in 1 .. Len(s) : f[i] \in Has(a)}
  <2>1. ASSUME NEW i \in 1 .. Len(s) PROVE s[i] = x <=> f[i] \in Has(a)
    <3>1. s[i] = x <=> Findings[f[i]].agent = a
      <4>1. s[i] = [type |-> "crypto_finding", agent |-> Findings[f[i]].agent]
        BY <1>2
      <4> HIDE DEF s
      <4> QED
        BY <4>1
    <3> QED
      BY <1>3, <1>4, <3>1
  <2>2. x.type = "crypto_finding"
    OBVIOUS
  <2> HIDE DEF D, s, x
  <2> QED
    BY <1>1, <2>1, <2>2
<1>6. Cardinality(Has(a)) = Cardinality({i \in 1 .. Len(s) : f[i] \in Has(a)})
  <2>1. Has(a) \subseteq WithAgent(Findings)
    BY <1>3
  <2> HIDE DEF s
  <2> QED
    BY <1>1, <1>2, <2>1, NumbersCount
<1> QED
  BY <1>5, <1>6 DEF Times

\* A signature is told every agent it covers once.
LEMMA SignatureTold ==
    ASSUME NEW o, NEW a \in Agent
    PROVE  Times(o, "evidence_signed", a) = IF "sign" \in o /\ Has(a) # {} THEN 1 ELSE 0
<1> DEFINE D == Tells(o)
           c == SignedTold(o)
           m == Len(EmitFindings) + Len(DriftTold(o))
           I == {i \in WithAgent(Findings) : First(i)}
           x == [type |-> "evidence_signed", agent |-> a]
           X == {i \in 1 .. Len(D) : D[i] = x}
<1>1. /\ Len(c) \in Nat /\ m \in Nat
      /\ \A j \in 1 .. Len(c) : m + j \in 1 .. Len(D) /\ D[m + j] = c[j]
      /\ \A i \in 1 .. Len(D) : D[i].type = "evidence_signed" => \E j \in 1 .. Len(c) : i = m + j
  BY PlacesOf
<1>2. x.type = "evidence_signed"
  OBVIOUS
<1>3. Has(a) = {i \in WithAgent(Findings) : Findings[i].agent = a} /\ Has(a) \subseteq Nat
  BY FindingsAre DEF Has
<1>4. Times(o, "evidence_signed", a) = Cardinality(X)
  BY DEF Times
<1>5. ASSUME "sign" \notin o PROVE X = {}
  <2>1. c = <<>>
    BY <1>5, TellsIs
  <2>2. Len(c) = 0 /\ 1 .. 0 = {}
    <3> HIDE DEF c
    <3> QED
      BY <2>1
  <2>3. \A i \in 1 .. Len(D) : D[i].type # "evidence_signed"
    <3> HIDE DEF D, c, m
    <3> QED
      BY <1>1, <2>2
  <2> HIDE DEF D, x
  <2> QED
    BY <1>2, <2>3
<1>6. ASSUME "sign" \in o
      PROVE  \E f : /\ Numbers(f, Len(c), I)
                    /\ \A j \in 1 .. Len(c) : f[j] \in I
                    /\ \A j \in 1 .. Len(c) : c[j] = x <=> Findings[f[j]].agent = a
  <2>1. PICK f : /\ Numbers(f, Len(c), I)
                 /\ \A j \in 1 .. Len(c) :
                       c[j] = [type |-> "evidence_signed", agent |-> Findings[f[j]].agent]
    BY <1>6, TellsIs DEF Writes
  <2>2. ASSUME NEW j \in 1 .. Len(c) PROVE c[j] = x <=> Findings[f[j]].agent = a
    <3>1. c[j] = [type |-> "evidence_signed", agent |-> Findings[f[j]].agent]
      BY <2>1
    <3> HIDE DEF c
    <3> QED
      BY <3>1
  <2>3. \A j \in 1 .. Len(c) : f[j] \in I
    BY <2>1 DEF Numbers
  <2> QED
    BY <2>1, <2>2, <2>3
<1>7. ASSUME "sign" \in o, Has(a) = {} PROVE X = {}
  <2>1. PICK f : /\ \A j \in 1 .. Len(c) : f[j] \in I
                 /\ \A j \in 1 .. Len(c) : c[j] = x <=> Findings[f[j]].agent = a
    BY <1>6, <1>7
  <2>2. \A j \in 1 .. Len(c) : c[j] # x
    BY <1>3, <1>7, <2>1
  <2>3. ASSUME NEW i \in 1 .. Len(D), D[i] = x PROVE FALSE
    <3> HIDE DEF D, c, x, m
    <3>1. PICK j \in 1 .. Len(c) : i = m + j
      BY <1>1, <1>2, <2>3
    <3> QED
      BY <1>1, <2>2, <2>3, <3>1
  <2> HIDE DEF D, c, x, m
  <2> QED
    BY <2>3
<1>8. ASSUME "sign" \in o, Has(a) # {} PROVE \E k : X = {k}
  <2>1. PICK f : /\ Numbers(f, Len(c), I)
                 /\ \A j \in 1 .. Len(c) : f[j] \in I
                 /\ \A j \in 1 .. Len(c) : c[j] = x <=> Findings[f[j]].agent = a
    BY <1>6, <1>8
  <2>2. PICK h \in Has(a) : \A y \in Has(a) : h <= y
    BY <1>3, <1>8, Least
  <2>3. h \in I
    <3>1. ASSUME NEW j \in 1 .. (h - 1) PROVE Findings[j].agent # a
      <4>1. h \in 1 .. Len(Scanned) /\ Len(Scanned) \in Nat
        BY FindingsAre DEF Has
      <4>2. j \in DOMAIN Findings /\ j < h /\ a # NoAgent
        BY <4>1, FindingsAre, EventLogAssumption
      <4> QED
        BY <1>3, <2>2, <4>1, <4>2 DEF WithAgent
    <3> QED
      BY <1>3, <3>1 DEF First
  <2>4. PICK j \in 1 .. Len(c) : f[j] = h
    BY <2>1, <2>3 DEF Numbers
  <2>5. c[j] = x
    BY <1>3, <2>1, <2>4
  <2>6. ASSUME NEW k \in 1 .. Len(c), c[k] = x PROVE k = j
    <3>1. f[k] \in I /\ f[k] \in Has(a)
      BY <1>3, <2>1, <2>6
    <3>2. f[k] = h
      <4>1. Findings[f[k]].agent = a /\ Findings[h].agent = a /\ First(f[k]) /\ h \in Nat /\ f[k] \in Nat
        BY <1>3, <3>1
      <4>2. h <= f[k] /\ h \in 1 .. Len(Scanned) /\ Len(Scanned) \in Nat
        BY <2>2, <3>1, FindingsAre DEF Has
      <4>3. ~(h < f[k])
        BY <4>1, <4>2 DEF First
      <4> QED
        BY <4>1, <4>2, <4>3
    <3> QED
      BY <2>1, <2>4, <3>2 DEF Numbers
  <2>7. m + j \in X
    <3> HIDE DEF D, c, x, m, I
    <3> QED
      BY <1>1, <2>5
  <2>8. ASSUME NEW i \in X PROVE i = m + j
    <3>1. i \in 1 .. Len(D) /\ D[i] = x
      OBVIOUS
    <3>2. PICK k \in 1 .. Len(c) : i = m + k
      <4> HIDE DEF D, c, x, m, I, X
      <4> QED
        BY <1>1, <1>2, <3>1
    <3>3. c[k] = x
      <4> HIDE DEF D, c, x, m, I, X
      <4> QED
        BY <1>1, <3>1, <3>2
    <3> QED
      BY <2>6, <3>2, <3>3
  <2> HIDE DEF X
  <2>9. X = {m + j}
    BY <2>7, <2>8
  <2> QED
    BY <2>9
<1> HIDE DEF X
<1>9. Cardinality({}) = 0 /\ \A k : Cardinality({k}) = 1
  BY FS_EmptySet, FS_Singleton
<1> QED
  BY <1>4, <1>5, <1>7, <1>8, <1>9

-----------------------------------------------------------------------------
(* A run writes what it has to tell, in order.                             *)

\* The first k things r had to tell are what it wrote.
Did(r, k) ==
    \E f : /\ Numbers(f, k, His(wrote, r))
           /\ \A i \in 1 .. k : wrote[f[i]] = [run |-> r, type |-> Tells(opts[r])[i].type,
                                              agent |-> Tells(opts[r])[i].agent]

\* An open run has the rest of it still to write, and one that is done has none.
TellOf(r) ==
    LET D == Tells(opts[r])
    IN  /\ IsOpen(r) => \E k \in 0 .. Len(D) : todo[r] = SubSeq(D, k + 1, Len(D)) /\ Did(r, k)
        /\ state[r] = "done" => Did(r, Len(D))

TellInv ==
    /\ opts = [r \in Run |-> opts[r]] /\ todo = [r \in Run |-> todo[r]]
    /\ \A r \in Run : TellOf(r)

LEMMA DidAll ==
    ASSUME Typed, NEW r \in Run, Did(r, Len(Tells(opts[r]))), NEW type, NEW a
    PROVE  Cardinality({n \in DOMAIN wrote : wrote[n] = [run |-> r, type |-> type, agent |-> a]})
             = Times(opts[r], type, a)
<1> DEFINE D == Tells(opts[r])
           y == [run |-> r, type |-> type, agent |-> a]
           x == [type |-> type, agent |-> a]
           P == {n \in DOMAIN wrote : wrote[n] = y}
<1>1. D \in Seq(Event) /\ Len(D) \in Nat
  BY TellsTyped
<1>2. PICK f : /\ Numbers(f, Len(D), His(wrote, r))
               /\ \A i \in 1 .. Len(D) : wrote[f[i]] = [run |-> r, type |-> D[i].type, agent |-> D[i].agent]
  BY DEF Did
<1>3. P \subseteq His(wrote, r)
  BY DEF His
<1>4. ASSUME NEW i \in 1 .. Len(D) PROVE f[i] \in P <=> D[i] = x
  <2>1. f[i] \in DOMAIN wrote
    BY <1>2 DEF Numbers, His
  <2>2. D[i] \in Event
    BY <1>1
  <2>3. D[i] = x <=> D[i].type = type /\ D[i].agent = a
    BY <2>2 DEF Event
  <2>4. wrote[f[i]] = y <=> D[i].type = type /\ D[i].agent = a
    <3>1. wrote[f[i]] = [run |-> r, type |-> D[i].type, agent |-> D[i].agent]
      BY <1>2
    <3> HIDE DEF D
    <3> QED
      BY <3>1
  <2> QED
    BY <2>1, <2>3, <2>4
<1>5. Cardinality(P) = Cardinality({i \in 1 .. Len(D) : f[i] \in P})
  <2> HIDE DEF D, P
  <2> QED
    BY <1>1, <1>2, <1>3, NumbersCount
<1>6. {i \in 1 .. Len(D) : f[i] \in P} = {i \in 1 .. Len(D) : D[i] = x}
  <2> HIDE DEF D, P, x
  <2> QED
    BY <1>4
<1> QED
  BY <1>5, <1>6 DEF Times

LEMMA TellsAll == GapInv /\ TellInv => ToldOnce
<1> SUFFICES ASSUME GapInv, TellInv, NEW r \in Run, state[r] = "done", NEW a \in Agent
             PROVE  /\ Cardinality({n \in DOMAIN wrote :
                           wrote[n] = [run |-> r, type |-> "crypto_finding", agent |-> a]})
                          = Cardinality(Has(a))
                    /\ Cardinality({n \in DOMAIN wrote :
                           wrote[n] = [run |-> r, type |-> "evidence_signed", agent |-> a]})
                          = IF "sign" \in opts[r] /\ Has(a) # {} THEN 1 ELSE 0
  BY DEF ToldOnce, Has
<1>1. Typed /\ Did(r, Len(Tells(opts[r])))
  BY DEF GapInv, TellInv, TellOf
<1> QED
  BY <1>1, DidAll, FindingsTold, SignatureTold

\* A step that leaves what a run wrote, and what it was asked, alone.
LEMMA DidStays ==
    ASSUME Typed, NEW q \in Run, NEW k \in Nat, Did(q, k), opts'[q] = opts[q],
           His(wrote', q) = His(wrote, q), \A n \in DOMAIN wrote : wrote'[n] = wrote[n]
    PROVE  Did(q, k)'
<1> DEFINE D == Tells(opts[q])
           said(i) == [run |-> q, type |-> D[i].type, agent |-> D[i].agent]
<1>1. PICK f : Numbers(f, k, His(wrote, q)) /\ \A i \in 1 .. k : wrote[f[i]] = said(i)
  BY DEF Did
<1>2. \A i \in 1 .. k : f[i] \in DOMAIN wrote
  BY <1>1 DEF Numbers, His
<1>3. \A i \in 1 .. k : wrote'[f[i]] = said(i)
  <2> HIDE DEF said
  <2> QED
    BY <1>1, <1>2
<1>4. Numbers(f, k, His(wrote', q))
  BY <1>1
<1> QED
  BY <1>3, <1>4 DEF Did

\* The next event of a run is the next thing it has to tell.
LEMMA DidOneMore ==
    ASSUME Typed, NEW r \in Run, NEW k \in Nat, k < Len(Tells(opts[r])), Did(r, k),
           todo[r] = SubSeq(Tells(opts[r]), k + 1, Len(Tells(opts[r]))),
           Tells1(r), opts'[r] = opts[r]
    PROVE  /\ Did(r, k + 1)'
           /\ Tail(todo[r]) = SubSeq(Tells(opts[r]), k + 2, Len(Tells(opts[r])))
<1> DEFINE D == Tells(opts[r])
           w == Len(wrote)
           said(i) == [run |-> r, type |-> D[i].type, agent |-> D[i].agent]
<1>1. D \in Seq(Event) /\ Len(D) \in Nat /\ k < Len(D) /\ todo[r] = SubSeq(D, k + 1, Len(D))
  BY TellsTyped
<1>2. /\ w \in Nat /\ DOMAIN wrote = 1 .. w
      /\ \A n \in DOMAIN wrote : wrote'[n] = wrote[n]
      /\ His(wrote', r) = His(wrote, r) \cup {w + 1}
      /\ wrote' = Append(wrote, Told(r))
      /\ \E S : wrote \in Seq(S)
  BY HistoryGrowsBy DEF Tells1, Typed
<1>3. Told(r) = said(k + 1) /\ Tail(todo[r]) = SubSeq(D, k + 2, Len(D))
  <2> HIDE DEF D
  <2>1. k + 1 \in 1 .. Len(D) /\ Len(D) \in (k + 1) .. Len(D) /\ (k + 1) + 1 = k + 2
    BY <1>1
  <2>2. /\ Head(SubSeq(D, k + 1, Len(D))) = D[k + 1]
        /\ Tail(SubSeq(D, k + 1, Len(D))) = SubSeq(D, (k + 1) + 1, Len(D))
    BY <1>1, <2>1, HeadTailOfSubSeq
  <2>3. Head(todo[r]) = D[k + 1] /\ Tail(todo[r]) = SubSeq(D, k + 2, Len(D))
    BY <1>1, <2>1, <2>2
  <2> QED
    BY <2>3 DEF Told
<1>4. wrote'[w + 1] = said(k + 1)
  <2> HIDE DEF said
  <2>1. PICK S : wrote \in Seq(S)
    BY <1>2
  <2> QED
    BY <1>2, <1>3, <2>1
<1>5. PICK f : Numbers(f, k, His(wrote, r)) /\ \A i \in 1 .. k : wrote[f[i]] = said(i)
  BY DEF Did
<1> HIDE DEF w, said
<1> DEFINE g == With(f, k, w + 1)
<1>6. Numbers(g, k + 1, His(wrote', r))
  <2>1. w + 1 \notin His(wrote, r)
    BY <1>2 DEF His
  <2> DEFINE H == His(wrote, r)
  <2>2. Numbers(f, k, H) /\ w + 1 \notin H /\ His(wrote', r) = H \cup {w + 1}
    BY <1>2, <1>5, <2>1
  <2> HIDE DEF H
  <2>3. Numbers(g, k + 1, H \cup {w + 1})
    BY <2>2, NumbersMore
  <2> QED
    BY <2>2, <2>3
<1>7. g[k + 1] = w + 1 /\ \A i \in 1 .. k : g[i] = f[i]
  BY WithIs
<1> HIDE DEF g
<1>8. \A i \in 1 .. k : f[i] \in DOMAIN wrote
  BY <1>5 DEF Numbers, His
<1>9. ASSUME NEW i \in 1 .. (k + 1) PROVE wrote'[g[i]] = said(i)
  <2>1. CASE i = k + 1
    BY <1>4, <1>7, <2>1
  <2>2. CASE i \in 1 .. k
    BY <1>2, <1>5, <1>7, <1>8, <2>2
  <2> QED
    BY <2>1, <2>2
<1>10. opts'[r] = opts[r]
  OBVIOUS
<1>11. \E h : Numbers(h, k + 1, His(wrote', r)) /\ \A i \in 1 .. (k + 1) : wrote'[h[i]] = said(i)
  BY <1>6, <1>9
<1>12. Did(r, k + 1)'
  BY <1>10, <1>11 DEF Did, said
<1> QED
  BY <1>3, <1>12

LEMMA InitTell == Init => TellInv
BY DEF Init, TellInv, TellOf, IsOpen

\* A run that takes no part in a step keeps what it has written and has to write.
LEMMA TellOfOthers ==
    ASSUME Typed, NEW q \in Run, TellOf(q), state'[q] = state[q], opts'[q] = opts[q], todo'[q] = todo[q],
           His(wrote', q) = His(wrote, q), \A n \in DOMAIN wrote : wrote'[n] = wrote[n]
    PROVE  TellOf(q)'
<1> DEFINE D == Tells(opts[q])
<1>1. Len(D) \in Nat
  BY TellsTyped
<1>2. ASSUME IsOpen(q)
      PROVE  \E k \in 0 .. Len(D) : todo'[q] = SubSeq(D, k + 1, Len(D)) /\ Did(q, k)'
  <2>1. PICK k \in 0 .. Len(D) : todo[q] = SubSeq(D, k + 1, Len(D)) /\ Did(q, k)
    BY <1>2 DEF TellOf
  <2>2. Did(q, k)'
    BY <1>1, <2>1, DidStays
  <2> QED
    BY <2>1, <2>2
<1>3. ASSUME state[q] = "done" PROVE Did(q, Len(D))'
  BY <1>1, <1>3, DidStays DEF TellOf
<1> QED
  BY <1>2, <1>3 DEF TellOf, IsOpen

LEMMA NextTell == GapInv /\ TellInv /\ [Next]_vars => TellInv'
<1> SUFFICES ASSUME GapInv, TellInv, [Next]_vars PROVE TellInv'
  OBVIOUS
<1>0. /\ Typed /\ Remembers /\ \A q \in Run : TellOf(q)
      /\ opts = [q \in Run |-> opts[q]] /\ todo = [q \in Run |-> todo[q]]
      /\ state = [q \in Run |-> state[q]]
  BY DEF GapInv, TellInv, Typed
<1>1. ASSUME NEW r \in Run, wrote' = wrote \/ Tells1(r), TellOf(r)',
             \A q \in Run : q # r => state'[q] = state[q] /\ opts'[q] = opts[q] /\ todo'[q] = todo[q],
             opts' = [q \in Run |-> opts'[q]], todo' = [q \in Run |-> todo'[q]]
      PROVE  TellInv'
  <2>1. /\ \A q \in Run : q # r => His(wrote', q) = His(wrote, q)
        /\ \A n \in DOMAIN wrote : wrote'[n] = wrote[n]
    BY <1>0, <1>1, HistoryGrowsBy
  <2>2. \A q \in Run : TellOf(q)'
    BY <1>0, <1>1, <2>1, TellOfOthers
  <2> QED
    BY <1>1, <2>2 DEF TellInv
<1>2. ASSUME NEW r \in Run, NEW asked \in Asked, Open(r, asked) PROVE TellInv'
  <2> DEFINE D == Tells(asked)
  <2>1. /\ IsIdle(r) /\ wrote' = wrote
        /\ state' = [state EXCEPT ![r] = "open"]
        /\ opts' = [opts EXCEPT ![r] = asked] /\ todo' = [todo EXCEPT ![r] = D]
    BY <1>2 DEF Open, IsIdle
  <2>2. D \in Seq(Event) /\ Len(D) \in Nat
    BY TellsTyped
  <2> HIDE DEF D
  <2>3. state'[r] = "open" /\ opts'[r] = asked /\ todo'[r] = D
    BY <1>0, <2>1
  <2>4. D = SubSeq(D, 1, Len(D))
    BY <2>2
  <2>5. His(wrote', r) = {}
    BY <1>0, <2>1 DEF Remembers
  <2>6. Did(r, 0)'
    <3>1. PICK f : Numbers(f, 0, {})
      BY NumbersNone
    <3>2. 1 .. 0 = {}
      OBVIOUS
    <3> QED
      BY <2>5, <3>1, <3>2 DEF Did
  <2>7. TellOf(r)'
    <3>1. 0 \in 0 .. Len(D) /\ todo'[r] = SubSeq(D, 0 + 1, Len(D))
      BY <2>2, <2>3, <2>4
    <3>2. D = Tells(opts'[r])
      BY <2>3 DEF D
    <3> QED
      BY <2>3, <2>6, <3>1, <3>2 DEF TellOf
  <2>8. /\ \A q \in Run : q # r => state'[q] = state[q] /\ opts'[q] = opts[q] /\ todo'[q] = todo[q]
        /\ opts' = [q \in Run |-> opts'[q]] /\ todo' = [q \in Run |-> todo'[q]]
    BY <1>0, <2>1
  <2> QED
    BY <1>1, <2>1, <2>7, <2>8
<1>3. ASSUME NEW r \in Run, Write(r) PROVE TellInv'
  <2> DEFINE D == Tells(opts[r])
  <2>1. /\ IsOpen(r) /\ todo[r] # <<>> /\ Tells1(r) /\ state' = state /\ opts' = opts
        /\ todo' = [todo EXCEPT ![r] = Tail(todo[r])]
    BY <1>3 DEF Write, IsOpen, Tells1
  <2>2. PICK k \in 0 .. Len(D) : todo[r] = SubSeq(D, k + 1, Len(D)) /\ Did(r, k)
    BY <1>0, <2>1 DEF TellOf
  <2>3. D \in Seq(Event) /\ Len(D) \in Nat /\ k \in Nat
    BY TellsTyped
  <2>4. k < Len(D)
    <3> HIDE DEF D
    <3> QED
      BY <2>1, <2>2, <2>3
  <2>5. Did(r, k + 1)' /\ todo'[r] = SubSeq(D, k + 2, Len(D))
    BY <1>0, <2>1, <2>2, <2>3, <2>4, DidOneMore
  <2>6. k + 1 \in 0 .. Len(D) /\ (k + 1) + 1 = k + 2
    BY <2>3, <2>4
  <2>7. state'[r] # "done" /\ Tells(opts'[r]) = D
    BY <2>1 DEF IsOpen
  <2>8. TellOf(r)'
    BY <2>5, <2>6, <2>7 DEF TellOf
  <2>9. \A q \in Run : q # r => todo'[q] = todo[q]
    BY <1>0, <2>1
  <2>10. todo' = [q \in Run |-> todo'[q]]
    BY <1>0, <2>1
  <2> QED
    BY <1>0, <1>1, <2>1, <2>8, <2>9, <2>10
<1>4. ASSUME NEW r \in Run, WriteFails(r) PROVE TellInv'
  <2>1. /\ wrote' = wrote \/ Tells1(r)
        /\ state' = [state EXCEPT ![r] = "failed"] /\ opts' = opts
        /\ todo' = [todo EXCEPT ![r] = <<>>]
    BY <1>4 DEF WriteFails, Tells1
  <2>2. state'[r] = "failed"
    BY <1>0, <2>1
  <2>3. TellOf(r)'
    BY <2>2 DEF TellOf, IsOpen
  <2>4. /\ \A q \in Run : q # r => state'[q] = state[q] /\ todo'[q] = todo[q]
        /\ todo' = [q \in Run |-> todo'[q]]
    BY <1>0, <2>1
  <2> QED
    BY <1>0, <1>1, <2>1, <2>3, <2>4
<1>5. ASSUME NEW r \in Run, Stop(r) PROVE TellInv'
  <2> DEFINE D == Tells(opts[r])
             s == IF todo[r] = <<>> THEN "done" ELSE "failed"
  <2>1. /\ IsOpen(r) /\ wrote' = wrote /\ opts' = opts
        /\ state' = [state EXCEPT ![r] = s]
        /\ todo' = [todo EXCEPT ![r] = <<>>]
    BY <1>5 DEF Stop, IsOpen
  <2>2. state'[r] = s
    BY <1>0, <2>1
  <2>3. PICK k \in 0 .. Len(D) : todo[r] = SubSeq(D, k + 1, Len(D)) /\ Did(r, k)
    BY <1>0, <2>1 DEF TellOf
  <2>4. D \in Seq(Event) /\ Len(D) \in Nat /\ k \in Nat
    BY TellsTyped
  <2>5. ASSUME todo[r] = <<>> PROVE Did(r, Len(D))'
    <3>1. k = Len(D)
      <4> HIDE DEF D
      <4> QED
        BY <2>3, <2>4, <2>5
    <3>2. Did(r, Len(D))
      BY <2>3, <3>1
    <3> QED
      BY <1>0, <2>1, <2>4, <3>2, DidStays
  <2>6. TellOf(r)'
    BY <2>1, <2>2, <2>5 DEF TellOf, IsOpen
  <2>7. /\ \A q \in Run : q # r => state'[q] = state[q] /\ todo'[q] = todo[q]
        /\ todo' = [q \in Run |-> todo'[q]]
    BY <1>0, <2>1
  <2> QED
    BY <1>0, <1>1, <2>1, <2>6, <2>7
<1>6. CASE UNCHANGED <<wrote, state, opts, todo>>
  <2>1. \A q \in Run : TellOf(q)'
    BY <1>0, <1>6, TellOfOthers
  <2> QED
    BY <1>0, <1>6, <2>1 DEF TellInv
<1>7. Rotate \/ Touch \/ UNCHANGED vars => UNCHANGED <<wrote, state, opts, todo>>
  BY DEF Rotate, Touch, vars
<1> QED
  BY <1>2, <1>3, <1>4, <1>5, <1>6, <1>7 DEF Next

\* What the exporter's Emit functions owe their reader (EventLog: ToldOnce): a
\* run that ended with "done" has written one crypto_finding for every finding
\* with an agent, and one evidence_signed for every agent a signature covers,
\* however other runs, failures and rotations came in between.
THEOREM EveryoneIsToldOnce == Spec => []ToldOnce
<1> QED
  BY InitTell, NextTell, TellsAll, GapInvariance, PTL DEF Spec

=============================================================================
