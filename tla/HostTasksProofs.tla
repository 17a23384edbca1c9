-------------------------- MODULE HostTasksProofs --------------------------
(***************************************************************************)
(* What module HostTasks promises of handles, terminal tasks and payloads, *)
(* for any payloads, capacities and numbers of operations.                 *)
(*                                                                         *)
(* The argument rests on generations.  Each is issued once and an occupied *)
(* slot has the generation of its handle, so an operation is in one state, *)
(* State(h), which only its own calls change: every step moves State at    *)
(* one handle.  The queue and the tasks the loop holds are then described  *)
(* by the operations they have tasks of (Has), have terminal tasks of      *)
(* (Ends), and the payloads they carry (Carries).                          *)
(***************************************************************************)
EXTENDS HostTasks, ListProofs, FiniteSetTheorems

States == {"invalid", "starting", "active", "queued", "released"}
Slots == [occupied : BOOLEAN, gen : 0..MaxGeneration, state : States, owner : 0..MaxGeneration]
Tasks == [kind : {"progress", "terminal"}, op : Handles, data : Data \cup {NoData}]

\* The state of the operation of handle h.
State(h) == IF Resolves(h) THEN slot[h[1]].state ELSE "gone"

Occupied == {i \in 1..Len(slot) : slot[i].occupied}

\* The operations and payloads of a list of tasks.
Has(s, h) == \E i \in 1..Len(s) : s[i].op = h
Ends(s, h) == \E i \in 1..Len(s) : s[i].kind = "terminal" /\ s[i].op = h
Carries(s, d) == \E i \in 1..Len(s) : s[i].data = d

\* List s has the tasks of r and task x.
Plus(s, r, x) == \A t : Listed(s, t) <=> Listed(r, t) \/ t = x

\* So s has the operations and payloads of r, and those of x.
Adds(s, r, x) ==
  /\ \A h : Has(s, h) <=> Has(r, h) \/ x.op = h
  /\ \A h : Ends(s, h) <=> Ends(r, h) \/ (x.kind = "terminal" /\ x.op = h)
  /\ \A d : Carries(s, d) <=> Carries(r, d) \/ x.data = d

\* No payload twice, no terminal task twice, and nothing after a terminal task.
Single(s) == \A i, k \in 1..Len(s) : s[i].data = s[k].data /\ s[i].data # NoData => i = k
OneEnd(s) == \A i, k \in 1..Len(s) :
  s[i].kind = "terminal" /\ s[k].kind = "terminal" /\ s[i].op = s[k].op => i = k
Ordered(s) == \A i, k \in 1..Len(s) :
  s[i].kind = "terminal" /\ s[k].op = s[i].op /\ k # i => k < i /\ s[i].data # NoData

\* The free list has the vacant slots; an occupied slot has the generation of its handle.
Table ==
  /\ slot \in Seq(Slots) /\ Len(slot) <= MaxCapacity
  /\ free \in Seq(Nat) /\ Distinct(free)
  /\ \A y : Listed(free, y) => y \in 1..Len(slot)
  /\ \A i \in 1..Len(slot) : slot[i].occupied <=> ~Listed(free, i)
  /\ \A i \in 1..Len(slot) : slot[i].occupied =>
       /\ <<i, slot[i].gen>> \in issued
       /\ slot[i].state \in {"starting", "active", "queued"}
       /\ slot[i].owner \in {NoOwner, slot[i].gen}
  /\ live = Cardinality(Occupied)
  /\ nextGen \in 1..(MaxGeneration + 1)
  /\ issued \subseteq Handles
  /\ \A h \in issued : h[2] < nextGen
  /\ \A g, h \in issued : g[2] = h[2] => g = h

Types ==
  /\ queue \in Seq(Tasks) /\ held \in Seq(Tasks)
  /\ posted \in Seq(Tasks) /\ batch \in Seq(Tasks)
  /\ accepting \in BOOLEAN /\ woken \in BOOLEAN
  /\ fate \in [Data -> {"new", "owned", "taken", "destroyed"}]
  /\ ended \subseteq issued
  /\ phase \in {"open", "shut", "freed"}

\* The queue has tasks of running operations, up to the terminal one.
Queue ==
  /\ queued = Len(queue)
  /\ Ordered(queue)
  /\ \A h : Has(queue, h) => h \in issued /\ h \notin ended /\ State(h) \in {"active", "queued"}
  /\ \A h : Ends(queue, h) => State(h) = "queued"
  /\ \A h \in issued : h \notin ended /\ State(h) = "queued" => Ends(queue, h)

\* The loop holds the terminal task of an ended operation until it is retired.
Held ==
  /\ OneEnd(held)
  /\ \A h : Ends(held, h) => h \in ended /\ State(h) = "queued"
  /\ \A h \in ended : State(h) # "gone" => Ends(held, h)

\* An owned payload is in one place.
Apart(d) ==
  /\ fate[d] = "owned" <=>
       Carries(posted, d) \/ Carries(batch, d) \/ Carries(queue, d) \/ Carries(held, d)
  /\ Carries(posted, d) => ~Carries(batch, d) /\ ~Carries(queue, d) /\ ~Carries(held, d)
  /\ Carries(batch, d) => ~Carries(queue, d) /\ ~Carries(held, d)
  /\ Carries(queue, d) => ~Carries(held, d)

Payloads ==
  /\ Single(posted) /\ Single(batch) /\ Single(queue) /\ Single(held)
  /\ ~Carries(posted, NoData) /\ ~Carries(batch, NoData)
  /\ \A d \in Data : Apart(d)

IInv == Types /\ Table /\ Queue /\ Held /\ Payloads

-----------------------------------------------------------------------------
(* Lists of tasks. *)

\* A list with one more task, wherever it is.
LEMMA Contents ==
  ASSUME NEW s, NEW r, NEW x, Plus(s, r, x)
  PROVE  Adds(s, r, x)
<1>1. ASSUME NEW l
      PROVE  /\ \A h : Has(l, h) <=> \E t : Listed(l, t) /\ t.op = h
             /\ \A h : Ends(l, h) <=> \E t : Listed(l, t) /\ t.kind = "terminal" /\ t.op = h
             /\ \A d : Carries(l, d) <=> \E t : Listed(l, t) /\ t.data = d
  BY Zenon DEF Has, Ends, Carries, Listed
<1>2. \A h : Has(s, h) <=> Has(r, h) \/ x.op = h
  BY <1>1 DEF Plus
<1>3. \A h : Ends(s, h) <=> Ends(r, h) \/ (x.kind = "terminal" /\ x.op = h)
  BY <1>1 DEF Plus
<1>4. \A d : Carries(s, d) <=> Carries(r, d) \/ x.data = d
  BY <1>1 DEF Plus
<1> QED
  BY <1>2, <1>3, <1>4, Zenon DEF Adds

\* A task at the end of a list.
LEMMA AppendTask ==
  ASSUME NEW S, NEW s \in Seq(S), NEW t \in S
  PROVE  /\ Append(s, t) \in Seq(S) /\ Len(Append(s, t)) = Len(s) + 1
         /\ Adds(Append(s, t), s, t)
         /\ Single(s) /\ (t.data = NoData \/ ~Carries(s, t.data)) => Single(Append(s, t))
         /\ OneEnd(s) /\ ~Ends(s, t.op) => OneEnd(Append(s, t))
         /\ Ordered(s) /\ ~Ends(s, t.op) /\ (t.data = NoData => ~Has(s, t.op))
              => Ordered(Append(s, t))
<1> DEFINE r == Append(s, t)
           n == Len(s)
<1>1. /\ r \in Seq(S) /\ Len(r) = n + 1 /\ r[n + 1] = t
      /\ \A i \in 1..n : r[i] = s[i]
  OBVIOUS
<1>2. n \in Nat
  OBVIOUS
<1> HIDE DEF r, n
<1>3. /\ \A i : i \in 1..(n + 1) <=> i \in 1..n \/ i = n + 1
      /\ \A i \in 1..n : i # n + 1 /\ i < n + 1
  BY <1>2
<1>4. Adds(r, s, t)
  <2>1. Plus(r, s, t)
    BY <1>1, <1>3, Zenon DEF Listed, Plus, n
  <2> QED
    BY <2>1, Contents, Zenon
<1>5. ASSUME Single(s), t.data = NoData \/ ~Carries(s, t.data) PROVE Single(r)
  <2>1. \A i \in 1..n : ~(s[i].data = t.data /\ t.data # NoData)
    BY <1>5, Zenon DEF Carries, n
  <2> QED
    <3> SUFFICES ASSUME NEW i \in 1..(n + 1), NEW k \in 1..(n + 1),
                        r[i].data = r[k].data, r[i].data # NoData
                 PROVE  i = k
      BY <1>1, Zenon DEF Single
    <3>1. CASE i \in 1..n /\ k \in 1..n
      BY <1>1, <1>5, <3>1, Zenon DEF Single, n
    <3>2. CASE i = n + 1 /\ k \in 1..n
      BY <1>1, <2>1, <3>2, Zenon
    <3>3. CASE k = n + 1 /\ i \in 1..n
      BY <1>1, <2>1, <3>3, Zenon
    <3> QED
      BY <1>3, <3>1, <3>2, <3>3, Zenon
<1>6. ASSUME OneEnd(s), ~Ends(s, t.op) PROVE OneEnd(r)
  <2>1. \A i \in 1..n : ~(s[i].kind = "terminal" /\ s[i].op = t.op)
    BY <1>6, Zenon DEF Ends, n
  <2> QED
    BY <1>1, <1>3, <1>6, <2>1, Zenon DEF OneEnd, n
<1>7. ASSUME Ordered(s), ~Ends(s, t.op), t.data = NoData => ~Has(s, t.op) PROVE Ordered(r)
  <2>1. /\ \A i \in 1..n : ~(s[i].kind = "terminal" /\ s[i].op = t.op)
        /\ \A i \in 1..n : s[i].op = t.op => t.data # NoData
    BY <1>7, Zenon DEF Ends, Has, n
  <2> QED
    <3> SUFFICES ASSUME NEW i \in 1..(n + 1), NEW k \in 1..(n + 1),
                        r[i].kind = "terminal", r[k].op = r[i].op, k # i
                 PROVE  k < i /\ r[i].data # NoData
      BY <1>1, Zenon DEF Ordered
    <3>1. CASE i \in 1..n /\ k \in 1..n
      BY <1>1, <1>7, <3>1, Zenon DEF Ordered, n
    <3>2. CASE i = n + 1 /\ k \in 1..n
      BY <1>1, <1>3, <2>1, <3>2, Zenon
    <3>3. CASE k = n + 1 /\ i \in 1..n
      BY <1>1, <2>1, <3>3, Zenon
    <3> QED
      BY <1>3, <3>1, <3>2, <3>3, Zenon
<1> QED
  BY <1>1, <1>4, <1>5, <1>6, <1>7, Zenon DEF r, n

\* A list without its first task.
LEMMA TailTask ==
  ASSUME NEW S, NEW s \in Seq(S), s # <<>>
  PROVE  /\ Tail(s) \in Seq(S) /\ Len(Tail(s)) = Len(s) - 1 /\ Head(s) \in S
         /\ Adds(s, Tail(s), Head(s))
         /\ Single(s) => /\ Single(Tail(s))
                         /\ Head(s).data # NoData => ~Carries(Tail(s), Head(s).data)
         /\ Ordered(s) => /\ Ordered(Tail(s))
                          /\ Head(s).kind = "terminal" => ~Has(Tail(s), Head(s).op)
<1> DEFINE r == Tail(s)
           n == Len(s) - 1
<1>1. /\ r \in Seq(S) /\ Len(r) = n /\ Head(s) = s[1] /\ Head(s) \in S
      /\ \A i \in 1..n : r[i] = s[i + 1]
  OBVIOUS
<1>2. n \in Nat /\ Len(s) = n + 1
  OBVIOUS
<1> HIDE DEF r, n
<1>3. /\ \A i \in 1..(n + 1) : i = 1 \/ \E k \in 1..n : i = k + 1
      /\ 1 \in 1..(n + 1)
      /\ \A k \in 1..n : k + 1 \in 1..(n + 1) /\ k + 1 # 1 /\ ~(k + 1 < 1)
      /\ \A i, k \in 1..n : (i + 1 = k + 1 => i = k) /\ (i + 1 < k + 1 => i < k)
  <2>1. ASSUME NEW i \in 1..(n + 1), i # 1 PROVE i - 1 \in 1..n /\ i = (i - 1) + 1
    BY <1>2, <2>1
  <2> QED
    BY <1>2, <2>1
<1>4. Adds(s, r, Head(s))
  <2>1. Plus(s, r, Head(s))
    <3>1. ASSUME NEW x, Listed(s, x), x # Head(s) PROVE Listed(r, x)
      <4>1. PICK i \in 1..(n + 1) : s[i] = x
        BY <1>2, <3>1, Zenon DEF Listed
      <4>2. PICK k \in 1..n : i = k + 1
        BY <1>1, <1>3, <3>1, <4>1, Zenon
      <4> QED
        BY <1>1, <4>1, <4>2, Zenon DEF Listed
    <3>2. ASSUME NEW x, Listed(r, x) PROVE Listed(s, x)
      <4>1. PICK k \in 1..n : r[k] = x
        BY <1>1, <3>2, Zenon DEF Listed
      <4> QED
        BY <1>1, <1>2, <1>3, <4>1, Zenon DEF Listed
    <3>3. Listed(s, Head(s))
      BY <1>1, <1>2, <1>3, Zenon DEF Listed
    <3> QED
      BY <3>1, <3>2, <3>3, Zenon DEF Plus
  <2> QED
    BY <2>1, Contents, Zenon
<1>5. ASSUME Single(s)
      PROVE  Single(r) /\ (Head(s).data # NoData => ~Carries(r, Head(s).data))
  <2>1. ASSUME NEW i \in 1..n, NEW k \in 1..n, r[i].data = r[k].data, r[i].data # NoData
        PROVE  i = k
    <3>1. /\ i + 1 \in 1..Len(s) /\ k + 1 \in 1..Len(s)
          /\ s[i + 1].data = s[k + 1].data /\ s[i + 1].data # NoData
      BY <1>1, <1>2, <1>3, <2>1, Zenon
    <3> QED
      BY <1>3, <1>5, <3>1, Zenon DEF Single
  <2>2. ASSUME NEW i \in 1..n, r[i].data = Head(s).data PROVE Head(s).data = NoData
    <3>1. /\ i + 1 \in 1..Len(s) /\ 1 \in 1..Len(s) /\ i + 1 # 1
          /\ s[i + 1].data = s[1].data
      BY <1>1, <1>2, <1>3, <2>2, Zenon
    <3> QED
      BY <1>1, <1>5, <3>1, Zenon DEF Single
  <2> QED
    BY <1>1, <2>1, <2>2, Zenon DEF Single, Carries
<1>6. ASSUME Ordered(s)
      PROVE  Ordered(r) /\ (Head(s).kind = "terminal" => ~Has(r, Head(s).op))
  <2>1. ASSUME NEW i \in 1..n, NEW k \in 1..n,
               r[i].kind = "terminal", r[k].op = r[i].op, k # i
        PROVE  k < i /\ r[i].data # NoData
    <3>1. /\ i + 1 \in 1..Len(s) /\ k + 1 \in 1..Len(s) /\ k + 1 # i + 1
          /\ s[i + 1] = r[i] /\ s[k + 1] = r[k]
      BY <1>1, <1>2, <1>3, <2>1, Zenon
    <3>2. k + 1 < i + 1 /\ r[i].data # NoData
      BY <1>6, <2>1, <3>1, Zenon DEF Ordered
    <3> QED
      BY <1>3, <3>2, Zenon
  <2>2. ASSUME NEW i \in 1..n, Head(s).kind = "terminal", r[i].op = Head(s).op PROVE FALSE
    <3>1. /\ i + 1 \in 1..Len(s) /\ 1 \in 1..Len(s) /\ i + 1 # 1 /\ ~(i + 1 < 1)
          /\ s[i + 1].op = s[1].op /\ s[1].kind = "terminal"
      BY <1>1, <1>2, <1>3, <2>2, Zenon
    <3> QED
      BY <1>6, <3>1, Zenon DEF Ordered
  <2> QED
    BY <1>1, <2>1, <2>2, Zenon DEF Ordered, Has
<1> QED
  BY <1>1, <1>4, <1>5, <1>6, Zenon DEF r, n

\* A list without its i-th task.
LEMMA RemoveTask ==
  ASSUME NEW S, NEW s \in Seq(S), NEW i \in 1..Len(s)
  PROVE  /\ RemoveIndex(s, i) \in Seq(S)
         /\ Adds(s, RemoveIndex(s, i), s[i])
         /\ Single(s) => /\ Single(RemoveIndex(s, i))
                         /\ s[i].data # NoData => ~Carries(RemoveIndex(s, i), s[i].data)
         /\ OneEnd(s) => /\ OneEnd(RemoveIndex(s, i))
                         /\ s[i].kind = "terminal" => ~Ends(RemoveIndex(s, i), s[i].op)
<1> DEFINE r == RemoveIndex(s, i)
           n == Len(s) - 1
           at(k) == IF k < i THEN k ELSE k + 1
<1>1. /\ r \in Seq(S) /\ Len(r) = n
      /\ \A k \in 1..n : r[k] = IF k < i THEN s[k] ELSE s[k + 1]
  BY RemoveIndexCells, Zenon
<1>2. n \in Nat /\ Len(s) = n + 1 /\ i \in 1..(n + 1)
  OBVIOUS
<1>3. \A k \in 1..n : r[k] = s[at(k)]
  BY <1>1, Zenon
<1> HIDE DEF r, n
<1>4. /\ \A k \in 1..n : at(k) \in 1..Len(s) /\ at(k) # i
      /\ \A k, m \in 1..n : at(k) = at(m) => k = m
  BY <1>2
<1>5. ASSUME NEW k \in 1..Len(s), k # i PROVE \E m \in 1..n : at(m) = k
  <2>1. CASE k < i
    BY <1>2, <2>1
  <2>2. CASE k > i
    <3>1. k - 1 \in 1..n /\ at(k - 1) = k
      BY <1>2, <2>2
    <3> QED
      BY <3>1, Zenon
  <2> QED
    BY <1>2, <1>5, <2>1, <2>2
<1> HIDE DEF at
<1>6. Adds(s, r, s[i])
  <2>1. ASSUME NEW x, Listed(s, x), x # s[i] PROVE Listed(r, x)
    <3>1. PICK k \in 1..Len(s) : s[k] = x
      BY <2>1, Zenon DEF Listed
    <3>2. PICK m \in 1..n : at(m) = k
      BY <1>5, <2>1, <3>1, Zenon
    <3> QED
      BY <1>1, <1>3, <3>1, <3>2, Zenon DEF Listed
  <2>2. ASSUME NEW x, Listed(r, x) PROVE Listed(s, x)
    <3>1. PICK k \in 1..n : r[k] = x
      BY <1>1, <2>2, Zenon DEF Listed
    <3> QED
      BY <1>3, <1>4, <3>1, Zenon DEF Listed
  <2>3. Plus(s, r, s[i])
    BY <2>1, <2>2, Zenon DEF Plus, Listed
  <2> QED
    BY <2>3, Contents, Zenon
<1>7. ASSUME Single(s)
      PROVE  Single(r) /\ (s[i].data # NoData => ~Carries(r, s[i].data))
  <2>1. ASSUME NEW k \in 1..n, NEW m \in 1..n, r[k].data = r[m].data, r[k].data # NoData
        PROVE  k = m
    <3>1. /\ at(k) \in 1..Len(s) /\ at(m) \in 1..Len(s)
          /\ s[at(k)] = r[k] /\ s[at(m)] = r[m]
      BY <1>3, <1>4, Zenon
    <3>2. at(k) = at(m)
      BY <1>7, <2>1, <3>1, Zenon DEF Single
    <3> QED
      BY <1>4, <3>2, Zenon
  <2>2. ASSUME NEW k \in 1..n, r[k].data = s[i].data PROVE s[i].data = NoData
    BY <1>3, <1>4, <1>7, <2>2, Zenon DEF Single
  <2> QED
    BY <1>1, <2>1, <2>2, Zenon DEF Single, Carries
<1>8. ASSUME OneEnd(s)
      PROVE  OneEnd(r) /\ (s[i].kind = "terminal" => ~Ends(r, s[i].op))
  <2>1. ASSUME NEW k \in 1..n, NEW m \in 1..n,
               r[k].kind = "terminal", r[m].kind = "terminal", r[k].op = r[m].op
        PROVE  k = m
    <3>1. /\ at(k) \in 1..Len(s) /\ at(m) \in 1..Len(s)
          /\ s[at(k)] = r[k] /\ s[at(m)] = r[m]
      BY <1>3, <1>4, Zenon
    <3>2. at(k) = at(m)
      BY <1>8, <2>1, <3>1, Zenon DEF OneEnd
    <3> QED
      BY <1>4, <3>2, Zenon
  <2>2. ASSUME NEW k \in 1..n, r[k].kind = "terminal", s[i].kind = "terminal",
               r[k].op = s[i].op
        PROVE  FALSE
    BY <1>3, <1>4, <1>8, <2>2, Zenon DEF OneEnd
  <2> QED
    BY <1>1, <2>1, <2>2, Zenon DEF OneEnd, Ends
<1> QED
  BY <1>1, <1>6, <1>7, <1>8, Zenon DEF r

\* A list whose i-th task has lost its payload.
LEMMA DisarmTask ==
  ASSUME NEW s \in Seq(Tasks), NEW i \in 1..Len(s)
  PROVE  LET r == [s EXCEPT ![i] = Disarmed(@)] IN
         /\ r \in Seq(Tasks)
         /\ \A h : Ends(r, h) <=> Ends(s, h)
         /\ OneEnd(s) => OneEnd(r)
         /\ Single(s) => /\ Single(r)
                         /\ \A d : d # NoData =>
                              (Carries(r, d) <=> Carries(s, d) /\ d # s[i].data)
<1> DEFINE r == [s EXCEPT ![i] = Disarmed(@)]
<1>1. s[i] \in Tasks /\ Disarmed(s[i]) \in Tasks
  <2>1. s[i] \in Tasks
    OBVIOUS
  <2> QED
    BY <2>1 DEF Disarmed, Tasks
<1>2. /\ Disarmed(s[i]).kind = s[i].kind /\ Disarmed(s[i]).op = s[i].op
      /\ Disarmed(s[i]).data = NoData
  BY <1>1 DEF Disarmed, Tasks
<1>3. /\ r \in Seq(Tasks) /\ Len(r) = Len(s)
      /\ \A k \in 1..Len(s) : r[k] = IF k = i THEN Disarmed(s[i]) ELSE s[k]
  <2> HIDE DEF Tasks, Disarmed
  <2> QED
    BY <1>1
<1> HIDE DEF r
<1>4. \A k \in 1..Len(s) : /\ r[k].kind = s[k].kind /\ r[k].op = s[k].op
                            /\ r[k].data = IF k = i THEN NoData ELSE s[k].data
  BY <1>2, <1>3, Zenon
<1>5. \A h : Ends(r, h) <=> Ends(s, h)
  BY <1>3, <1>4, Zenon DEF Ends
<1>6. OneEnd(s) => OneEnd(r)
  BY <1>3, <1>4, Zenon DEF OneEnd
<1>7. Single(s) => Single(r)
  BY <1>3, <1>4, Zenon DEF Single
<1>8. ASSUME Single(s), NEW d, d # NoData
      PROVE  Carries(r, d) <=> Carries(s, d) /\ d # s[i].data
  <2>1. ASSUME Carries(r, d) PROVE Carries(s, d) /\ d # s[i].data
    <3>1. PICK k \in 1..Len(s) : r[k].data = d
      BY <1>3, <2>1, Zenon DEF Carries
    <3>2. k # i /\ s[k].data = d
      BY <1>4, <1>8, <3>1, Zenon
    <3> QED
      BY <1>8, <3>2, Zenon DEF Carries, Single
  <2>2. ASSUME Carries(s, d), d # s[i].data PROVE Carries(r, d)
    BY <1>3, <1>4, <2>2, Zenon DEF Carries
  <2> QED
    BY <2>1, <2>2, Zenon
<1> QED
  BY <1>3, <1>5, <1>6, <1>7, <1>8, Zenon DEF r

\* An interval that starts at one.
LEMMA IntervalSize ==
  ASSUME NEW n \in Nat
  PROVE  IsFiniteSet(1..n) /\ Cardinality(1..n) = n
BY FS_Interval

\* The tasks at the indices I, in order.
LEMMA PickTasks ==
  ASSUME NEW S, NEW s \in Seq(S), NEW I \in SUBSET (1..Len(s)),
         NEW f \in Ascending(I, Len(s)), Single(s), Ordered(s), NEW r, r = Pick(s, f)
  PROVE  /\ r \in Seq(S) /\ Len(r) = Cardinality(I)
         /\ \A x : Listed(r, x) <=> \E i \in I : s[i] = x
         /\ Single(r) /\ Ordered(r)
<1>1. Len(s) \in Nat
  OBVIOUS
<1>2. PICK n \in 0..Len(s) : f \in [1..n -> I]
  BY Zenon DEF Ascending
<1>3. /\ \A a, b \in 1..n : a < b => f[a] < f[b]
      /\ \A i \in I : \E a \in 1..n : f[a] = i
  <2>1. DOMAIN f = 1..n
    BY <1>2, Zenon
  <2> QED
    BY <2>1, Zenon DEF Ascending
<1>4. \A k \in 1..n : f[k] \in I /\ f[k] \in 1..Len(s)
  BY <1>2, Zenon
<1>5. r = [k \in 1..n |-> s[f[k]]]
  <2>1. DOMAIN f = 1..n
    BY <1>2, Zenon
  <2> QED
    BY <2>1, Zenon DEF Pick
<1>6. \A k \in 1..n : r[k] = s[f[k]] /\ s[f[k]] \in S
  BY <1>4, <1>5
<1>7. r \in Seq(S) /\ Len(r) = n
  BY <1>1, <1>2, <1>5, <1>6
<1>8. \A a, b \in 1..n : (f[a] = f[b] => a = b) /\ (f[a] < f[b] => a < b)
  <2> TAKE a, b \in 1..n
  <2>1. f[a] \in Nat /\ f[b] \in Nat /\ a \in Nat /\ b \in Nat
    BY <1>1, <1>2, <1>4
  <2>2. (a < b => f[a] < f[b]) /\ (b < a => f[b] < f[a])
    BY <1>3, Zenon
  <2> QED
    BY <2>1, <2>2
<1>9. n = Cardinality(I)
  <2>1. f \in Bijection(1..n, I)
    BY <1>2, <1>3, <1>8, Zenon DEF Bijection, Injection, IsInjective, Surjection
  <2>2. IsFiniteSet(1..n) /\ Cardinality(1..n) = n
    BY <1>1, <1>2, IntervalSize
  <2> QED
    BY <2>1, <2>2, FS_Bijection, Zenon DEF ExistsBijection
<1>10. ASSUME NEW x PROVE Listed(r, x) <=> \E i \in I : s[i] = x
  <2>1. Listed(r, x) <=> \E k \in 1..n : s[f[k]] = x
    BY <1>6, <1>7, Zenon DEF Listed
  <2> QED
    BY <1>3, <1>4, <2>1, Zenon
<1>11. Single(r)
  <2> SUFFICES ASSUME NEW a \in 1..n, NEW b \in 1..n, r[a].data = r[b].data, r[a].data # NoData
               PROVE  a = b
    BY <1>7, Zenon DEF Single
  <2>1. /\ f[a] \in 1..Len(s) /\ f[b] \in 1..Len(s)
        /\ r[a] = s[f[a]] /\ r[b] = s[f[b]]
    BY <1>4, <1>6, Zenon
  <2>2. f[a] = f[b]
    BY <2>1, Zenon DEF Single
  <2> QED
    BY <1>8, <2>2, Zenon
<1>12. Ordered(r)
  <2> SUFFICES ASSUME NEW i \in 1..n, NEW k \in 1..n,
                      r[i].kind = "terminal", r[k].op = r[i].op, k # i
               PROVE  k < i /\ r[i].data # NoData
    BY <1>7, Zenon DEF Ordered
  <2>1. /\ f[i] \in 1..Len(s) /\ f[k] \in 1..Len(s) /\ f[k] # f[i]
        /\ r[i] = s[f[i]] /\ r[k] = s[f[k]]
    BY <1>4, <1>6, <1>8, Zenon
  <2>2. f[k] < f[i] /\ s[f[i]].data # NoData
    BY <2>1, Zenon DEF Ordered
  <2> QED
    BY <1>8, <2>1, <2>2, Zenon
<1> QED
  BY <1>7, <1>9, <1>10, <1>11, <1>12, Zenon

-----------------------------------------------------------------------------
(* The table. *)

\* A list with one cell replaced.
LEMMA SetCell ==
  ASSUME NEW S, NEW s \in Seq(S), NEW i \in 1..Len(s), NEW e \in S,
         NEW r, r = [s EXCEPT ![i] = e]
  PROVE  /\ r \in Seq(S) /\ Len(r) = Len(s) /\ r[i] = e
         /\ \A k \in 1..Len(s) : k # i => r[k] = s[k]
  OBVIOUS

\* A list with one more cell before it.
LEMMA PushCells ==
  ASSUME NEW S, NEW s \in Seq(S), NEW x \in S, Distinct(s), ~Listed(s, x)
  PROVE  /\ <<x>> \o s \in Seq(S) /\ Distinct(<<x>> \o s)
         /\ \A y : Listed(<<x>> \o s, y) <=> Listed(s, y) \/ y = x
<1> DEFINE r == <<x>> \o s
           n == Len(s)
<1>1. n \in Nat /\ <<x>> \in Seq(S) /\ Len(<<x>>) = 1 /\ <<x>>[1] = x
  OBVIOUS
<1>2. /\ r \in Seq(S) /\ Len(r) = 1 + n
      /\ \A k \in 1..(1 + n) : r[k] = IF k <= 1 THEN <<x>>[k] ELSE s[k - 1]
  BY <1>1, ConcatCells, Zenon
<1> HIDE DEF r
<1>3. r[1] = x /\ \A k \in 1..n : r[k + 1] = s[k]
  BY <1>1, <1>2
<1>4. ASSUME NEW k \in 1..(1 + n) PROVE k = 1 \/ \E m \in 1..n : k = m + 1
  <2>1. CASE k # 1
    <3>1. k - 1 \in 1..n /\ k = (k - 1) + 1
      BY <1>1, <2>1
    <3> QED
      BY <3>1, Zenon
  <2> QED
    BY <2>1, Zenon
<1>5. ASSUME NEW y PROVE Listed(r, y) <=> Listed(s, y) \/ y = x
  <2>1. ASSUME Listed(r, y), y # x PROVE Listed(s, y)
    <3>1. PICK k \in 1..(1 + n) : r[k] = y
      BY <1>2, <2>1, Zenon DEF Listed
    <3>2. PICK m \in 1..n : k = m + 1
      BY <1>3, <1>4, <2>1, <3>1, Zenon
    <3> QED
      BY <1>3, <3>1, <3>2, Zenon DEF Listed
  <2>2. \A k \in 1..n : k + 1 \in 1..Len(r)
    BY <1>1, <1>2
  <2>3. 1 \in 1..Len(r)
    BY <1>1, <1>2
  <2> QED
    BY <1>3, <2>1, <2>2, <2>3, Zenon DEF Listed
<1>6. Distinct(r)
  <2> SUFFICES ASSUME NEW a \in 1..(1 + n), NEW b \in 1..(1 + n), r[a] = r[b]
               PROVE  a = b
    BY <1>2, Zenon DEF Distinct
  <2>1. CASE a = 1
    BY <1>3, <1>4, <2>1, Zenon DEF Listed
  <2>2. CASE b = 1
    BY <1>3, <1>4, <2>2, Zenon DEF Listed
  <2>3. CASE a # 1 /\ b # 1
    <3>1. PICK c \in 1..n : a = c + 1
      BY <1>4, <2>3, Zenon
    <3>2. PICK d \in 1..n : b = d + 1
      BY <1>4, <2>3, Zenon
    <3> QED
      BY <1>3, <3>1, <3>2, Zenon DEF Distinct
  <2> QED
    BY <2>1, <2>2, <2>3, Zenon
<1> QED
  BY <1>2, <1>5, <1>6, Zenon DEF r

\* A handle is its index and its generation, so two that resolve through one slot are equal.
LEMMA OneHandle ==
  ASSUME NEW g \in Handles, NEW h \in Handles, Resolves(g), Resolves(h), g[1] = h[1]
  PROVE  g = h
<1>1. g = <<g[1], g[2]>> /\ h = <<h[1], h[2]>>
  BY DEF Handles
<1>2. g[2] = h[2]
  BY Zenon DEF Resolves
<1> QED
  BY <1>1, <1>2, Zenon

\* A handle that resolves was issued, and its operation is in one of the live states.
LEMMA ResolvesIssued ==
  ASSUME Table, NEW h \in Handles, Resolves(h)
  PROVE  h \in issued /\ State(h) \in {"starting", "active", "queued"}
<1>1. h = <<h[1], h[2]>>
  BY DEF Handles
<1>2. h[1] \in 1..Len(slot) /\ slot[h[1]].occupied /\ slot[h[1]].gen = h[2]
  BY Zenon DEF Resolves
<1>3. <<h[1], h[2]>> \in issued
  BY <1>2, Zenon DEF Table
<1> QED
  BY <1>1, <1>2, <1>3, Zenon DEF Table, State

\* A step that changes the state or the owner of one operation.
LEMMA CellKeeps ==
  ASSUME Table, NEW h \in Handles, Resolves(h), NEW e \in Slots,
         e.occupied, e.gen = h[2], e.state \in {"starting", "active", "queued"},
         e.owner \in {NoOwner, h[2]},
         slot' = [slot EXCEPT ![h[1]] = e], UNCHANGED <<free, live, nextGen, issued>>
  PROVE  /\ Table'
         /\ \A g \in Handles : State(g)' = IF g = h THEN e.state ELSE State(g)
<1> DEFINE i == h[1]
<1>1. i \in 1..Len(slot) /\ slot[i].occupied /\ slot[i].gen = h[2]
  BY Zenon DEF Resolves
<1>2. slot \in Seq(Slots)
  BY Zenon DEF Table
<1>3. /\ slot' \in Seq(Slots) /\ Len(slot') = Len(slot) /\ slot'[i] = e
      /\ \A k \in 1..Len(slot) : k # i => slot'[k] = slot[k]
  BY <1>1, <1>2, SetCell
<1> HIDE DEF i
<1>4. \A k \in 1..Len(slot) : /\ slot'[k].occupied <=> slot[k].occupied
                              /\ slot'[k].gen = slot[k].gen
  BY <1>1, <1>3, Zenon
<1>5. Occupied' = Occupied
  BY <1>3, <1>4, Zenon DEF Occupied
<1>6. \A k \in 1..Len(slot) : slot'[k].occupied =>
        /\ <<k, slot'[k].gen>> \in issued
        /\ slot'[k].state \in {"starting", "active", "queued"}
        /\ slot'[k].owner \in {NoOwner, slot'[k].gen}
  <2> TAKE k \in 1..Len(slot)
  <2>1. CASE k = i
    <3>1. <<i, slot[i].gen>> \in issued /\ slot'[k] = e
      BY <1>1, <1>3, <2>1, Zenon DEF Table
    <3> QED
      BY <1>1, <2>1, <3>1, Zenon
  <2>2. CASE k # i
    BY <1>3, <2>2, Zenon DEF Table
  <2> QED
    BY <2>1, <2>2, Zenon
<1>7. Table'
  BY <1>3, <1>4, <1>5, <1>6 DEF Table
<1>8. \A g \in Handles : Resolves(g)' <=> Resolves(g)
  BY <1>3, <1>4, Zenon DEF Resolves
<1>9. ASSUME NEW g \in Handles PROVE State(g)' = IF g = h THEN e.state ELSE State(g)
  <2>1. CASE g = h
    BY <1>1, <1>3, <1>8, <2>1, Zenon DEF State, i
  <2>2. CASE g # h /\ Resolves(g)
    <3>1. g[1] # i /\ g[1] \in 1..Len(slot)
      BY <2>2, OneHandle, Zenon DEF Resolves, i
    <3>2. slot'[g[1]] = slot[g[1]]
      BY <1>3, <3>1, Zenon
    <3> QED
      BY <1>8, <2>2, <3>2 DEF State
  <2>3. CASE g # h /\ ~Resolves(g)
    BY <1>8, <2>3, Zenon DEF State
  <2> QED
    BY <2>1, <2>2, <2>3, Zenon
<1> QED
  BY <1>7, <1>9, Zenon

\* The occupied slots are finitely many.
LEMMA OccupiedFinite ==
  ASSUME Table
  PROVE  IsFiniteSet(Occupied) /\ Cardinality(Occupied) \in Nat
<1>1. Len(slot) \in Nat
  BY DEF Table
<1>2. IsFiniteSet(1..Len(slot))
  BY <1>1, IntervalSize, Zenon
<1>3. Occupied \subseteq 1..Len(slot)
  BY Zenon DEF Occupied
<1>4. IsFiniteSet(Occupied)
  BY <1>2, <1>3, FS_Subset, Zenon
<1> QED
  BY <1>4, FS_CardinalityType, Zenon

\* A retired operation's slot joins the free list; its handle resolves no more.
LEMMA RetireKeeps ==
  ASSUME Table, NEW h \in Handles, Resolves(h), Retire(h[1]), UNCHANGED <<nextGen, issued>>
  PROVE  /\ Table'
         /\ \A g \in Handles : State(g)' = IF g = h THEN "gone" ELSE State(g)
<1> DEFINE i == h[1]
           e == [slot[i] EXCEPT !.state = "released", !.owner = NoOwner, !.occupied = FALSE]
<1>1. i \in 1..Len(slot) /\ slot[i].occupied /\ slot[i].gen = h[2]
  BY Zenon DEF Resolves
<1>2. slot \in Seq(Slots) /\ Len(slot) \in Nat /\ i \in Nat
  BY <1>1 DEF Table
<1>3. e \in Slots /\ ~e.occupied
  <2>1. slot[i] \in Slots
    BY <1>1, <1>2
  <2>2. 0 \in 0..MaxGeneration
    BY TasksAssumption
  <2> QED
    BY <2>1, <2>2, Zenon DEF Slots, States, NoOwner
<1>4. slot' = [slot EXCEPT ![i] = e] /\ free' = <<i>> \o free /\ live' = live - 1
  BY DEF Retire, Retired
<1> HIDE DEF e, i
<1>5. /\ slot' \in Seq(Slots) /\ Len(slot') = Len(slot) /\ slot'[i] = e
      /\ \A k \in 1..Len(slot) : k # i => slot'[k] = slot[k]
  BY <1>1, <1>2, <1>3, <1>4, SetCell
<1>6. ~Listed(free, i)
  BY <1>1, Zenon DEF Table
<1>7. /\ free' \in Seq(Nat) /\ Distinct(free')
      /\ \A y : Listed(free', y) <=> Listed(free, y) \/ y = i
  BY <1>2, <1>4, <1>6, PushCells, Zenon DEF Table
<1>8. Occupied' = Occupied \ {i}
  <2>1. \A k \in 1..Len(slot) : slot'[k].occupied <=> slot[k].occupied /\ k # i
    BY <1>3, <1>5, Zenon
  <2> QED
    BY <1>5, <2>1, Zenon DEF Occupied
<1>9. live' = Cardinality(Occupied')
  <2>1. i \in Occupied
    BY <1>1, Zenon DEF Occupied
  <2>2. Cardinality(Occupied \ {i}) = Cardinality(Occupied) - 1
    BY <2>1, OccupiedFinite, FS_RemoveElement, Zenon
  <2> QED
    BY <1>4, <1>8, <2>2, Zenon DEF Table
<1>10. \A k \in 1..Len(slot) : slot'[k].occupied <=> ~Listed(free', k)
  BY <1>3, <1>5, <1>7, Zenon DEF Table
<1>11. \A k \in 1..Len(slot) : slot'[k].occupied =>
        /\ <<k, slot'[k].gen>> \in issued
        /\ slot'[k].state \in {"starting", "active", "queued"}
        /\ slot'[k].owner \in {NoOwner, slot'[k].gen}
  BY <1>3, <1>5, Zenon DEF Table
<1>12. Table'
  <2>1. \A y : Listed(free', y) => y \in 1..Len(slot)
    BY <1>1, <1>7, Zenon DEF Table
  <2> QED
    BY <1>5, <1>7, <1>9, <1>10, <1>11, <2>1, Zenon DEF Table
<1>13. ASSUME NEW g \in Handles PROVE State(g)' = IF g = h THEN "gone" ELSE State(g)
  <2>1. CASE g = h
    <3>1. ~Resolves(g)'
      BY <1>1, <1>3, <1>5, <2>1, Zenon DEF Resolves, i
    <3> QED
      BY <2>1, <3>1, Zenon DEF State
  <2>2. CASE g # h /\ Resolves(g)
    <3>1. g[1] # i /\ g[1] \in 1..Len(slot)
      BY <2>2, OneHandle, Zenon DEF Resolves, i
    <3> QED
      BY <1>5, <2>2, <3>1, Zenon DEF State, Resolves
  <2>3. CASE g # h /\ ~Resolves(g)
    <3>1. ~Resolves(g)'
      BY <1>3, <1>5, <2>3, Zenon DEF Resolves
    <3> QED
      BY <2>3, <3>1, Zenon DEF State
  <2> QED
    BY <2>1, <2>2, <2>3, Zenon
<1> QED
  BY <1>12, <1>13, Zenon

\* Growth keeps the slots in use and lists the new ones as free.
LEMMA GrowKeeps ==
  ASSUME Table, free = <<>> => GrownTo <= MaxCapacity
  PROVE  /\ Grown \in Seq(Slots) /\ Len(Grown) <= MaxCapacity /\ Len(slot) <= Len(Grown)
         /\ \A i \in 1..Len(slot) : Grown[i] = slot[i]
         /\ \A i \in 1..Len(Grown) : i \notin 1..Len(slot) => ~Grown[i].occupied
         /\ FreeList \in Seq(Nat) /\ FreeList # <<>> /\ Distinct(FreeList)
         /\ \A y : Listed(FreeList, y) => y \in 1..Len(Grown)
         /\ \A i \in 1..Len(Grown) : Grown[i].occupied <=> ~Listed(FreeList, i)
<1>1. CASE free # <<>>
  <2>1. Grown = slot /\ FreeList = free /\ Len(slot) \in Nat
    BY <1>1 DEF Grown, FreeList, Table
  <2>2. Len(slot) <= Len(slot)
    BY <2>1
  <2> QED
    BY <1>1, <2>1, <2>2, Zenon DEF Table
<1>2. CASE free = <<>>
  <2> DEFINE n == Len(slot)
             m == GrownTo
             s == Grown
             f == FreeList
  <2>1. n \in Nat /\ m \in Nat /\ m > n /\ m <= MaxCapacity
    <3>1. n \in Nat
      BY DEF Table
    <3> QED
      BY <1>2, <3>1, TasksAssumption DEF GrownTo
  <2>2. /\ s = [i \in 1..m |-> IF i <= n THEN slot[i] ELSE Empty]
        /\ f = [i \in 1..(m - n) |-> n + i]
    BY <1>2, Zenon DEF Grown, FreeList
  <2> HIDE DEF n, m, s, f
  <2>3. /\ \A i \in 1..m : s[i] = IF i <= n THEN slot[i] ELSE Empty
        /\ \A i \in 1..(m - n) : f[i] = n + i
    BY <2>2, Zenon
  <2>4. Empty \in Slots /\ ~Empty.occupied
    <3>1. 0 \in 0..MaxGeneration
      BY TasksAssumption
    <3> QED
      BY <3>1, Zenon DEF Empty, Slots, States, NoOwner
  <2>5. \A i \in 1..n : slot[i] \in Slots
    BY <2>1 DEF Table, n
  <2>6. /\ \A i \in 1..m : i <= n <=> i \in 1..n
        /\ \A i \in 1..n : i \in 1..m
    BY <2>1
  <2>7. s \in Seq(Slots) /\ Len(s) = m
    <3>1. s \in [1..m -> Slots]
      BY <2>2, <2>4, <2>5, <2>6
    <3> QED
      BY <2>1, <3>1
  <2>8. f \in Seq(Nat) /\ Len(f) = m - n /\ f # <<>>
    <3>1. f \in [1..(m - n) -> Nat] /\ m - n \in Nat /\ m - n # 0
      BY <2>1, <2>2
    <3> QED
      BY <3>1
  <2>9. Distinct(f)
    <3> SUFFICES ASSUME NEW a \in 1..(m - n), NEW b \in 1..(m - n), f[a] = f[b]
                 PROVE  a = b
      BY <2>8, Zenon DEF Distinct
    <3> QED
      BY <2>1, <2>3
  <2>10. \A y : Listed(f, y) <=> y \in 1..m /\ y \notin 1..n
    <3>1. ASSUME NEW y, Listed(f, y) PROVE y \in 1..m /\ y \notin 1..n
      <4>1. PICK i \in 1..(m - n) : y = n + i
        BY <2>3, <2>8, <3>1, Zenon DEF Listed
      <4> QED
        BY <2>1, <4>1
    <3>2. ASSUME NEW y \in 1..m, y \notin 1..n PROVE Listed(f, y)
      <4>1. y - n \in 1..(m - n) /\ n + (y - n) = y
        BY <2>1, <3>2
      <4> QED
        BY <2>3, <2>8, <4>1, Zenon DEF Listed
    <3> QED
      BY <3>1, <3>2, Zenon
  <2>11. \A i \in 1..n : slot[i].occupied
    <3>1. \A y : ~Listed(free, y)
      BY <1>2, EmptyCells, Zenon DEF Table
    <3> QED
      BY <3>1, Zenon DEF Table, n
  <2>12. \A i \in 1..m : s[i].occupied <=> ~Listed(f, i)
    BY <2>3, <2>4, <2>6, <2>10, <2>11, Zenon
  <2>13. \A i \in 1..n : s[i] = slot[i]
    BY <2>3, <2>6, Zenon
  <2>14. \A i \in 1..m : i \notin 1..n => ~s[i].occupied
    BY <2>3, <2>4, <2>6, Zenon
  <2>15. n <= m
    BY <2>1
  <2> QED
    BY <2>1, <2>7, <2>8, <2>9, <2>10, <2>12, <2>13, <2>14, <2>15, Zenon DEF n, s, f
<1> QED
  BY <1>1, <1>2, Zenon

\* A started operation has a new generation; no earlier handle resolves to it.
LEMMA StartKeeps ==
  ASSUME Table, Start
  PROVE  \E h \in Handles :
           /\ h \notin issued /\ issued' = issued \cup {h}
           /\ Table'
           /\ State(h)' = "starting"
           /\ \A g \in issued : State(g)' = State(g)
<1> DEFINE s == Grown
           f == FreeList
           i == Head(f)
           e == [occupied |-> TRUE, gen |-> nextGen, state |-> "starting", owner |-> NoOwner]
<1>0. PICK h : h = <<i, nextGen>>
  BY Zenon
<1>1. /\ nextGen <= MaxGeneration /\ (free = <<>> => GrownTo <= MaxCapacity)
      /\ slot' = [s EXCEPT ![i] = e] /\ free' = Tail(f) /\ live' = live + 1
      /\ nextGen' = nextGen + 1 /\ issued' = issued \cup {h}
  BY <1>0, Zenon DEF Start
<1>2. /\ s \in Seq(Slots) /\ Len(s) <= MaxCapacity /\ Len(slot) <= Len(s)
      /\ \A k \in 1..Len(slot) : s[k] = slot[k]
      /\ \A k \in 1..Len(s) : k \notin 1..Len(slot) => ~s[k].occupied
      /\ f \in Seq(Nat) /\ f # <<>> /\ Distinct(f)
      /\ \A y : Listed(f, y) => y \in 1..Len(s)
      /\ \A k \in 1..Len(s) : s[k].occupied <=> ~Listed(f, k)
  BY <1>1, GrowKeeps, Zenon
<1> HIDE DEF s, f
<1>3. /\ i \in Nat /\ Listed(f, i)
      /\ free' \in Seq(Nat) /\ Distinct(free')
      /\ \A y : Listed(free', y) <=> Listed(f, y) /\ y # i
  BY <1>1, <1>2, TailCells, Zenon
<1>4. i \in 1..Len(s) /\ ~s[i].occupied
  BY <1>2, <1>3, Zenon
<1> HIDE DEF i
<1>5. Len(s) \in Nat /\ Len(slot) \in Nat /\ \A k \in 1..Len(slot) : k \in 1..Len(s)
  BY <1>2 DEF Table
<1>6. /\ nextGen \in 1..MaxGeneration /\ nextGen' \in 1..(MaxGeneration + 1)
      /\ i \in 1..MaxCapacity
  <2>1. nextGen \in 1..(MaxGeneration + 1) /\ MaxGeneration \in Nat /\ MaxCapacity \in Nat
    BY TasksAssumption, Zenon DEF Table
  <2> QED
    BY <1>1, <1>2, <1>4, <1>5, <2>1
<1>7. h \in Handles
  BY <1>0, <1>6, Zenon DEF Handles, Generations
<1>8. e \in Slots
  <2>1. 0 \in 0..MaxGeneration /\ nextGen \in 0..MaxGeneration
    BY <1>6, TasksAssumption
  <2> QED
    BY <2>1, Zenon DEF Slots, States, NoOwner
<1>9. e.occupied /\ e.gen = nextGen /\ e.state = "starting" /\ e.owner = NoOwner
  BY Zenon
<1>10. h[1] = i /\ h[2] = nextGen
  BY <1>0, Zenon
<1> HIDE DEF e
<1>11. /\ slot' \in Seq(Slots) /\ Len(slot') = Len(s) /\ slot'[i] = e
       /\ \A k \in 1..Len(s) : k # i => slot'[k] = s[k]
  BY <1>1, <1>2, <1>4, <1>8, SetCell
<1>12. ASSUME NEW g \in issued PROVE g[2] # nextGen /\ g[2] < nextGen' /\ g # h
  <2>1. g[2] \in Nat /\ nextGen \in Nat /\ g[2] < nextGen
    BY <1>6, TasksAssumption DEF Table, Handles, Generations
  <2>2. g[2] # nextGen /\ g[2] < nextGen + 1
    BY <2>1
  <2> QED
    BY <1>1, <1>10, <2>2, Zenon
<1>13. i \notin Occupied /\ Occupied' = Occupied \cup {i}
  <2>1. \A k \in 1..Len(slot) : slot[k].occupied => k \in 1..Len(s) /\ k # i /\ slot'[k].occupied
    BY <1>2, <1>4, <1>5, <1>11, Zenon
  <2>2. \A k \in 1..Len(s) : slot'[k].occupied /\ k # i => k \in 1..Len(slot) /\ slot[k].occupied
    BY <1>2, <1>11, Zenon
  <2> QED
    BY <1>4, <1>9, <1>11, <2>1, <2>2, Zenon DEF Occupied
<1>14. live' = Cardinality(Occupied')
  BY <1>1, <1>13, OccupiedFinite, FS_AddElement, Zenon DEF Table
<1>15. \A k \in 1..Len(s) : slot'[k].occupied <=> ~Listed(free', k)
  BY <1>2, <1>3, <1>9, <1>11, Zenon
<1>16. \A k \in 1..Len(s) : slot'[k].occupied =>
        /\ <<k, slot'[k].gen>> \in issued'
        /\ slot'[k].state \in {"starting", "active", "queued"}
        /\ slot'[k].owner \in {NoOwner, slot'[k].gen}
  <2> SUFFICES ASSUME NEW k \in 1..Len(s), slot'[k].occupied
               PROVE  /\ <<k, slot'[k].gen>> \in issued'
                      /\ slot'[k].state \in {"starting", "active", "queued"}
                      /\ slot'[k].owner \in {NoOwner, slot'[k].gen}
    BY Zenon
  <2>1. CASE k = i
    <3>1. slot'[k] = e /\ <<k, e.gen>> = h
      BY <1>0, <1>9, <1>11, <2>1, Zenon
    <3>2. <<k, e.gen>> \in issued'
      BY <1>1, <3>1, Zenon
    <3> QED
      BY <1>9, <3>1, <3>2, Zenon
  <2>2. CASE k # i
    <3>1. k \in 1..Len(slot) /\ slot'[k] = slot[k]
      BY <1>2, <1>11, <2>2, Zenon
    <3>2. /\ <<k, slot[k].gen>> \in issued
          /\ slot[k].state \in {"starting", "active", "queued"}
          /\ slot[k].owner \in {NoOwner, slot[k].gen}
      BY <3>1, Zenon DEF Table
    <3> QED
      BY <1>1, <3>1, <3>2
  <2> QED
    BY <2>1, <2>2, Zenon
<1>17. issued' \subseteq Handles /\ \A g \in issued' : g[2] < nextGen'
  <2>1. h[2] < nextGen'
    BY <1>1, <1>6, <1>10, TasksAssumption
  <2> QED
    BY <1>1, <1>7, <1>12, <2>1, Zenon DEF Table
<1>18. \A g, k \in issued' : g[2] = k[2] => g = k
  BY <1>1, <1>10, <1>12, Zenon DEF Table
<1>19. Table'
  <2>1. \A y : Listed(free', y) => y \in 1..Len(slot')
    BY <1>2, <1>3, <1>11, Zenon
  <2> QED
    BY <1>2, <1>3, <1>6, <1>11, <1>14, <1>15, <1>16, <1>17, <1>18, <2>1 DEF Table
<1>20. State(h)' = "starting"
  <2>1. h[1] \in 1..Len(slot') /\ slot'[h[1]] = e
    BY <1>4, <1>10, <1>11, Zenon
  <2>2. Resolves(h)'
    BY <1>9, <1>10, <2>1 DEF Resolves
  <2> QED
    BY <1>9, <2>1, <2>2 DEF State
<1>21. ASSUME NEW g \in issued PROVE State(g)' = State(g)
  <2>1. CASE Resolves(g)
    <3>1. g[1] \in 1..Len(slot) /\ slot[g[1]].occupied
      BY <2>1, Zenon DEF Resolves
    <3>2. g[1] \in 1..Len(s) /\ g[1] # i /\ s[g[1]] = slot[g[1]]
      BY <1>2, <1>4, <1>5, <3>1, Zenon
    <3>3. slot'[g[1]] = slot[g[1]]
      BY <1>11, <3>2, Zenon
    <3>4. Resolves(g)'
      BY <1>11, <2>1, <3>2, <3>3, Zenon DEF Resolves
    <3> QED
      BY <2>1, <3>3, <3>4 DEF State
  <2>2. CASE ~Resolves(g)
    <3>1. ASSUME g[1] \in 1..Len(s), slot'[g[1]].occupied, slot'[g[1]].gen = g[2] PROVE FALSE
      <4>1. g[1] # i
        BY <1>9, <1>11, <1>12, <3>1, Zenon
      <4>2. slot'[g[1]] = s[g[1]]
        BY <1>11, <3>1, <4>1, Zenon
      <4>3. g[1] \in 1..Len(slot) /\ s[g[1]] = slot[g[1]]
        BY <1>2, <3>1, <4>2, Zenon
      <4> QED
        BY <2>2, <3>1, <4>2, <4>3, Zenon DEF Resolves
    <3>2. ~Resolves(g)'
      BY <1>11, <3>1, Zenon DEF Resolves
    <3> QED
      BY <2>2, <3>2, Zenon DEF State
  <2> QED
    BY <2>1, <2>2, Zenon
<1> QED
  BY <1>1, <1>7, <1>12, <1>19, <1>20, <1>21, Zenon

\* A step that moves one operation to state x.
LEMMA MoveKeeps ==
  ASSUME Table, NEW h \in Handles, Resolves(h), NEW x \in {"active", "queued"},
         slot' = [slot EXCEPT ![h[1]].state = x], UNCHANGED <<free, live, nextGen, issued>>
  PROVE  /\ Table'
         /\ \A g \in Handles : State(g)' = IF g = h THEN x ELSE State(g)
<1> DEFINE i == h[1]
<1>1. i \in 1..Len(slot) /\ slot[i].occupied /\ slot[i].gen = h[2]
  BY Zenon DEF Resolves
<1>2. slot[i] \in Slots /\ slot[i].owner \in {NoOwner, h[2]}
  <2>1. slot \in Seq(Slots) /\ slot[i].owner \in {NoOwner, slot[i].gen}
    BY <1>1, Zenon DEF Table
  <2> QED
    BY <1>1, <2>1
<1>3. PICK e : e = [slot[i] EXCEPT !.state = x]
  BY Zenon
<1>4. e \in Slots /\ e.occupied /\ e.gen = h[2] /\ e.state = x /\ e.owner \in {NoOwner, h[2]}
  BY <1>1, <1>2, <1>3, Zenon DEF Slots, States
<1>5. slot' = [slot EXCEPT ![i] = e]
  BY <1>3, Zenon
<1>6. e.state \in {"starting", "active", "queued"}
  BY <1>4, Zenon
<1>7. /\ Table'
      /\ \A g \in Handles : State(g)' = IF g = h THEN e.state ELSE State(g)
  BY <1>4, <1>5, <1>6, CellKeeps, Zenon
<1> QED
  BY <1>4, <1>7, Zenon

\* A step that leaves the table alone.
LEMMA TableStays ==
  ASSUME Table, UNCHANGED <<slot, free, live, nextGen, issued>>
  PROVE  Table' /\ \A g : State(g)' = State(g)
<1>1. Occupied' = Occupied
  BY Zenon DEF Occupied
<1>2. Table'
  BY <1>1, Zenon DEF Table
<1>3. ASSUME NEW g PROVE State(g)' = State(g)
  BY Zenon DEF State, Resolves
<1> QED
  BY <1>2, <1>3, Zenon

\* The operations of a list are those of its tasks.
LEMMA EndsHas ==
  ASSUME NEW s, NEW h, Ends(s, h)
  PROVE  Has(s, h)
BY Zenon DEF Ends, Has

-----------------------------------------------------------------------------
(* The queue and the tasks the loop holds. *)

\* A step that moves only operations that are starting.
Calm ==
  /\ issued \subseteq issued'
  /\ \A g \in issued : State(g)' # State(g) =>
       State(g) = "starting" /\ State(g)' \in {"active", "gone"}
  /\ \A g \in issued' : g \in issued \/ State(g)' = "starting"

\* A step that changes no task and moves only operations that are starting.
LEMMA TasksStay ==
  ASSUME IInv, UNCHANGED <<queue, queued, held, ended>>, Calm
  PROVE  Queue' /\ Held'
<1>1. ended \subseteq issued
  BY Zenon DEF IInv, Types
<1>2. ASSUME NEW h \in issued, State(h) \in {"active", "queued"} PROVE State(h)' = State(h)
  BY <1>2 DEF Calm
<1>3. ASSUME NEW h \in issued', State(h)' = "queued" PROVE h \in issued /\ State(h) = "queued"
  BY <1>3 DEF Calm
<1>4. ASSUME NEW h \in issued, State(h)' # "gone" PROVE State(h) # "gone"
  BY <1>4 DEF Calm
<1>5. ASSUME NEW h, Has(queue, h)
      PROVE  h \in issued /\ h \notin ended /\ State(h)' = State(h) /\ State(h) \in {"active", "queued"}
  BY <1>2, <1>5, Zenon DEF IInv, Queue
<1>6. Queue'
  <2>1. \A h : Has(queue, h) => h \in issued' /\ h \notin ended /\ State(h)' \in {"active", "queued"}
    BY <1>5, Zenon DEF Calm
  <2>2. \A h : Ends(queue, h) => State(h)' = "queued"
    BY <1>5, EndsHas, Zenon DEF IInv, Queue
  <2>3. \A h \in issued' : h \notin ended /\ State(h)' = "queued" => Ends(queue, h)
    BY <1>3, Zenon DEF IInv, Queue
  <2> QED
    BY <2>1, <2>2, <2>3, Zenon DEF IInv, Queue
<1>7. Held'
  <2>1. \A h : Ends(held, h) => h \in ended /\ State(h) = "queued"
    BY Zenon DEF IInv, Held
  <2>2. \A h : Ends(held, h) => State(h)' = "queued"
    BY <1>1, <1>2, <2>1
  <2>3. \A h \in ended : State(h)' # "gone" => Ends(held, h)
    BY <1>1, <1>4, Zenon DEF IInv, Held
  <2> QED
    BY <2>1, <2>2, <2>3, Zenon DEF IInv, Held
<1> QED
  BY <1>6, <1>7, Zenon

\* An operation that has ended and still resolves is queued, so a running one has not ended.
LEMMA RunningNotEnded ==
  ASSUME IInv, NEW h, State(h) \in {"starting", "active"}
  PROVE  h \notin ended /\ ~Ends(queue, h) /\ ~Ends(held, h)
<1>1. State(h) # "gone" /\ State(h) # "queued"
  OBVIOUS
<1> QED
  BY <1>1, Zenon DEF IInv, Queue, Held

\* mal_host_operation_progress and _complete of a running operation.
LEMMA AcceptKeeps ==
  ASSUME IInv, NEW t \in Tasks, t.data # NoData, Accepted(t.kind, t.op), Enqueue(t),
         slot' = AfterCall(t.kind, t.op), UNCHANGED <<free, live, nextGen, issued, held, ended>>
  PROVE  Table' /\ Queue' /\ Held'
<1> DEFINE h == t.op
<1>1. /\ h \in Handles /\ t.kind \in {"progress", "terminal"}
      /\ queue \in Seq(Tasks) /\ Len(queue) \in Nat /\ issued \subseteq Handles /\ ended \subseteq issued
  <2>1. h \in Handles /\ t.kind \in {"progress", "terminal"}
    BY Zenon DEF Tasks
  <2>2. queue \in Seq(Tasks) /\ issued \subseteq Handles /\ ended \subseteq issued
    BY Zenon DEF IInv, Types, Table
  <2> QED
    BY <2>1, <2>2
<1>2. Resolves(h) /\ State(h) = "active" /\ h \in issued
  <2>1. Resolves(h) /\ slot[h[1]].state \in {"active"}
    BY Zenon DEF Accepted, InState, OpenStates
  <2>2. h \in issued
    BY <1>1, <2>1, ResolvesIssued, Zenon DEF IInv
  <2> QED
    BY <2>1, <2>2, Zenon DEF State
<1>3. h \notin ended /\ ~Ends(queue, h) /\ ~Ends(held, h)
  BY <1>2, RunningNotEnded
<1>4. /\ Table'
      /\ \A g \in Handles : g # h \/ t.kind = "progress" => State(g)' = State(g)
      /\ t.kind = "terminal" => State(h)' = "queued"
  <2>1. CASE t.kind = "progress"
    <3>1. slot' = slot
      BY <2>1, Zenon DEF AfterCall
    <3> QED
      BY <2>1, <3>1, TableStays, Zenon DEF IInv
  <2>2. CASE t.kind = "terminal"
    <3>1. slot' = [slot EXCEPT ![h[1]].state = "queued"]
      BY <2>2, Zenon DEF AfterCall
    <3>2. /\ Table'
          /\ \A g \in Handles : State(g)' = IF g = h THEN "queued" ELSE State(g)
      BY <1>1, <1>2, <3>1, MoveKeeps, Zenon DEF IInv
    <3> QED
      BY <1>1, <2>2, <3>2, Zenon
  <2> QED
    BY <1>1, <2>1, <2>2, Zenon
<1> HIDE DEF h
<1>5. State(h)' \in {"active", "queued"} /\ (State(h)' = "queued" => t.kind = "terminal")
  BY <1>1, <1>2, <1>4, Zenon
<1>6. queue' = Append(queue, t) /\ queued' = queued + 1
  BY Zenon DEF Enqueue
<1>7. /\ Len(queue') = Len(queue) + 1 /\ Adds(queue', queue, t)
      /\ Ordered(queue) => Ordered(queue')
  BY <1>1, <1>3, <1>6, AppendTask, Zenon DEF h
<1>8. /\ \A g : Has(queue', g) <=> Has(queue, g) \/ g = h
      /\ \A g : Ends(queue', g) <=> Ends(queue, g) \/ (t.kind = "terminal" /\ g = h)
  BY <1>7, Zenon DEF Adds, h
<1>9. \A g : Ends(queue, g) \/ Ends(held, g) => g # h /\ g \in Handles /\ State(g) = "queued"
  <2>1. \A g : Ends(queue, g) => g \in issued /\ State(g) = "queued"
    BY EndsHas, Zenon DEF IInv, Queue
  <2>2. \A g : Ends(held, g) => g \in ended /\ State(g) = "queued"
    BY Zenon DEF IInv, Held
  <2> QED
    BY <1>1, <1>3, <2>1, <2>2, Zenon
<1>10. Queue'
  <2>1. \A g : Has(queue', g) => g \in issued /\ g \notin ended /\ State(g)' \in {"active", "queued"}
    <3>1. ASSUME NEW g, Has(queue, g), g # h
          PROVE  g \in issued /\ g \notin ended /\ State(g)' \in {"active", "queued"}
      <4>1. g \in issued /\ g \notin ended /\ State(g) \in {"active", "queued"}
        BY <3>1, Zenon DEF IInv, Queue
      <4>2. State(g)' = State(g)
        BY <1>1, <1>4, <3>1, <4>1, Zenon
      <4> QED
        BY <4>1, <4>2, Zenon
    <3> QED
      BY <1>2, <1>3, <1>5, <1>8, <3>1, Zenon
  <2>2. \A g : Ends(queue', g) => State(g)' = "queued"
    BY <1>4, <1>8, <1>9, Zenon
  <2>3. \A g \in issued : g \notin ended /\ State(g)' = "queued" => Ends(queue', g)
    <3>1. ASSUME NEW g \in issued, g # h, g \notin ended, State(g)' = "queued" PROVE Ends(queue, g)
      BY <1>1, <1>4, <3>1, Zenon DEF IInv, Queue
    <3> QED
      BY <1>5, <1>8, <3>1, Zenon
  <2>4. Ordered(queue') /\ queued' = Len(queue')
    BY <1>6, <1>7, Zenon DEF IInv, Queue
  <2> QED
    BY <2>1, <2>2, <2>3, <2>4, Zenon DEF Queue
<1>11. Held'
  <2>1. \A g : Ends(held, g) => g \in ended /\ State(g)' = "queued"
    BY <1>4, <1>9, Zenon DEF IInv, Held
  <2>2. \A g \in ended : State(g)' # "gone" => Ends(held, g)
    <3>1. \A g \in ended : g # h /\ g \in Handles
      BY <1>1, <1>3, Zenon
    <3> QED
      BY <1>4, <3>1, Zenon DEF IInv, Held
  <2> QED
    BY <2>1, <2>2, Zenon DEF IInv, Held
<1> QED
  BY <1>4, <1>10, <1>11, Zenon

-----------------------------------------------------------------------------
(* The steps. *)

\* A step of the table that changes no task.
LEMMA TableOnly ==
  ASSUME IInv, UNCHANGED <<queueVars, postVars, fate, ended, phase>>,
         Table', Calm
  PROVE  IInv'
<1>1. UNCHANGED <<queue, queued, held, posted, accepting, batch, woken>>
  BY Zenon DEF queueVars, postVars
<1>2. Queue' /\ Held'
  BY <1>1, TasksStay, Zenon
<1>3. Types'
  <2>1. ended' \subseteq issued'
    BY Zenon DEF IInv, Types, Calm
  <2> QED
    BY <1>1, <2>1, Zenon DEF IInv, Types
<1>4. Payloads'
  BY <1>1, Zenon DEF IInv, Payloads, Apart
<1> QED
  BY <1>2, <1>3, <1>4, Zenon DEF IInv

\* mal_host_operation_start.
LEMMA StartStep ==
  ASSUME IInv, Start
  PROVE  IInv'
<1>1. Table
  BY Zenon DEF IInv
<1>2. PICK h \in Handles :
        /\ issued' = issued \cup {h} /\ Table' /\ State(h)' = "starting"
        /\ \A g \in issued : State(g)' = State(g)
  BY <1>1, StartKeeps, Zenon
<1>3. UNCHANGED <<queueVars, postVars, fate, ended, phase>>
  BY Zenon DEF Start
<1>4. Calm
  BY <1>2, Zenon DEF Calm
<1> QED
  BY <1>2, <1>3, <1>4, TableOnly, Zenon

\* What the invariant says of an issued handle that resolves.
LEMMA HandleFacts ==
  ASSUME IInv, NEW h \in issued
  PROVE  h \in Handles /\ Table
BY Zenon DEF IInv, Table

\* mal_host_operation_abort_start.
LEMMA AbortStep ==
  ASSUME IInv, NEW h \in issued, AbortStart(h)
  PROVE  IInv'
<1>1. h \in Handles /\ Table /\ issued \subseteq Handles
  BY HandleFacts, Zenon
<1>2. Resolves(h) /\ State(h) = "starting"
  BY DEF AbortStart, InState, State
<1>3. Retire(h[1]) /\ UNCHANGED <<nextGen, issued>>
      /\ UNCHANGED <<queueVars, postVars, fate, ended, phase>>
  BY Zenon DEF AbortStart
<1>4. /\ Table'
      /\ \A g \in Handles : State(g)' = IF g = h THEN "gone" ELSE State(g)
  BY <1>1, <1>2, <1>3, RetireKeeps, Zenon
<1>5. Calm
  BY <1>1, <1>2, <1>3, <1>4 DEF Calm
<1> QED
  BY <1>3, <1>4, <1>5, TableOnly, Zenon

\* mal_host_operation_activate.
LEMMA ActivateStep ==
  ASSUME IInv, NEW h \in issued, Activate(h)
  PROVE  IInv'
<1>1. h \in Handles /\ Table /\ issued \subseteq Handles
  BY HandleFacts, Zenon
<1>2. Resolves(h) /\ State(h) = "starting"
  BY DEF Activate, InState, State
<1>3. /\ slot' = [slot EXCEPT ![h[1]].state = "active"] /\ UNCHANGED <<free, live, nextGen, issued>>
      /\ UNCHANGED <<queueVars, postVars, fate, ended, phase>>
  BY Zenon DEF Activate
<1>4. /\ Table'
      /\ \A g \in Handles : State(g)' = IF g = h THEN "active" ELSE State(g)
  BY <1>1, <1>2, <1>3, MoveKeeps, Zenon
<1>5. Calm
  BY <1>1, <1>2, <1>3, <1>4 DEF Calm
<1> QED
  BY <1>3, <1>4, <1>5, TableOnly, Zenon

\* mal_host_operation_bind and unbind.
LEMMA BindStep ==
  ASSUME IInv, NEW h \in issued, Bind(h)
  PROVE  IInv'
<1> DEFINE i == h[1]
<1>1. h \in Handles /\ Table /\ issued \subseteq Handles
  BY HandleFacts, Zenon
<1>2. /\ Resolves(h) /\ UNCHANGED <<free, live, nextGen, issued>>
      /\ UNCHANGED <<queueVars, postVars, fate, ended, phase>>
      /\ \E x \in {NoOwner, h[2]} : slot' = [slot EXCEPT ![i].owner = x]
  BY Zenon DEF Bind
<1>3. PICK x \in {NoOwner, h[2]} : slot' = [slot EXCEPT ![i].owner = x]
  BY <1>2, Zenon
<1>4. PICK e : e = [slot[i] EXCEPT !.owner = x]
  BY Zenon
<1>5. /\ i \in 1..Len(slot) /\ slot[i] \in Slots /\ slot[i].occupied /\ slot[i].gen = h[2]
      /\ slot[i].state \in {"starting", "active", "queued"}
  <2>1. i \in 1..Len(slot) /\ slot[i].occupied /\ slot[i].gen = h[2]
    BY <1>2, Zenon DEF Resolves
  <2>2. slot \in Seq(Slots) /\ slot[i].state \in {"starting", "active", "queued"}
    BY <1>1, <2>1, Zenon DEF Table
  <2> QED
    BY <2>1, <2>2
<1>6. x \in 0..MaxGeneration
  BY <1>1, TasksAssumption DEF Handles, Generations, NoOwner
<1>7. /\ e \in Slots /\ e.occupied /\ e.gen = h[2] /\ e.state = slot[i].state
      /\ e.owner \in {NoOwner, h[2]} /\ slot' = [slot EXCEPT ![i] = e]
  <2>1. e \in Slots /\ e.occupied /\ e.gen = h[2] /\ e.state = slot[i].state /\ e.owner = x
    BY <1>4, <1>5, <1>6, Zenon DEF Slots
  <2>2. slot' = [slot EXCEPT ![i] = e]
    BY <1>3, <1>4, Zenon
  <2> QED
    BY <2>1, <2>2, Zenon
<1>8. e.state \in {"starting", "active", "queued"} /\ State(h) = e.state
  BY <1>2, <1>5, <1>7, Zenon DEF State
<1>9. /\ Table'
      /\ \A g \in Handles : State(g)' = IF g = h THEN e.state ELSE State(g)
  BY <1>1, <1>2, <1>7, <1>8, CellKeeps, Zenon
<1>10. \A g \in issued : State(g)' = State(g)
  BY <1>1, <1>8, <1>9, Zenon
<1>11. Calm
  BY <1>2, <1>10, Zenon DEF Calm
<1> QED
  BY <1>2, <1>9, <1>11, TableOnly, Zenon

\* A payload that is new is in no list.
LEMMA NewNowhere ==
  ASSUME IInv, NEW d \in Data, fate[d] # "owned"
  PROVE  ~Carries(posted, d) /\ ~Carries(batch, d) /\ ~Carries(queue, d) /\ ~Carries(held, d)
BY Zenon DEF IInv, Payloads, Apart

\* A refused call leaves the payload with the caller.
LEMMA RefuseKeeps ==
  ASSUME IInv, NEW d \in Data, fate[d] = "new", fate' = [fate EXCEPT ![d] = "destroyed"],
         UNCHANGED <<tableVars, queueVars, posted, batch, accepting, ended, phase>>,
         woken' \in BOOLEAN
  PROVE  IInv'
<1>1. UNCHANGED <<slot, free, live, nextGen, issued, queue, queued, held>>
  BY Zenon DEF tableVars, queueVars
<1>2. Table' /\ \A g : State(g)' = State(g)
  BY <1>1, TableStays, Zenon DEF IInv
<1>3. Queue' /\ Held'
  <2>1. Calm
    BY <1>1, <1>2, Zenon DEF Calm
  <2> QED
    BY <1>1, <2>1, TasksStay, Zenon
<1>4. fate \in [Data -> {"new", "owned", "taken", "destroyed"}]
  BY Zenon DEF IInv, Types
<1>5. /\ fate' \in [Data -> {"new", "owned", "taken", "destroyed"}] /\ fate'[d] = "destroyed"
      /\ \A c \in Data : c # d => fate'[c] = fate[c]
  BY <1>4, Zenon
<1>6. Types'
  BY <1>1, <1>5, Zenon DEF IInv, Types
<1>7. Payloads'
  <2>1. ASSUME NEW c \in Data PROVE Apart(c)'
    <3>1. CASE c # d
      BY <1>1, <1>5, <3>1, Zenon DEF IInv, Payloads, Apart
    <3>2. CASE c = d
      <4>1. /\ ~Carries(posted, d) /\ ~Carries(batch, d) /\ ~Carries(queue, d) /\ ~Carries(held, d)
            /\ fate'[d] # "owned"
        BY <1>5, NewNowhere
      <4> QED
        BY <1>1, <3>2, <4>1, Zenon DEF Apart
    <3> QED
      BY <3>1, <3>2, Zenon
  <2> QED
    BY <1>1, <2>1, Zenon DEF IInv, Payloads
<1> QED
  BY <1>2, <1>3, <1>6, <1>7, Zenon DEF IInv

\* A task made by a call.
LEMMA TaskType ==
  ASSUME NEW kind \in {"progress", "terminal"}, NEW h \in Handles,
         NEW d, d \in Data \/ d = NoData
  PROVE  /\ Task(kind, h, d) \in Tasks
         /\ Task(kind, h, d).kind = kind /\ Task(kind, h, d).op = h /\ Task(kind, h, d).data = d
BY Zenon DEF Task, Tasks

\* A step that appends a task with payload d, which was nowhere, to one list.
LEMMA PayloadEnters ==
  ASSUME IInv, NEW d \in Data, fate[d] = "new", fate' = [fate EXCEPT ![d] = "owned"],
         NEW t \in Tasks, t.data = d, batch' = batch, held' = held,
         \/ queue' = Append(queue, t) /\ posted' = posted
         \/ posted' = Append(posted, t) /\ queue' = queue
  PROVE  /\ Payloads' /\ fate' \in [Data -> {"new", "owned", "taken", "destroyed"}]
         /\ queue' \in Seq(Tasks) /\ posted' \in Seq(Tasks)
<1>1. /\ queue \in Seq(Tasks) /\ posted \in Seq(Tasks) /\ d # NoData
      /\ fate \in [Data -> {"new", "owned", "taken", "destroyed"}]
  BY TasksAssumption, Zenon DEF IInv, Types
<1>2. /\ fate' \in [Data -> {"new", "owned", "taken", "destroyed"}] /\ fate'[d] = "owned"
      /\ \A c \in Data : c # d => fate'[c] = fate[c]
  BY <1>1, Zenon
<1>3. ~Carries(posted, d) /\ ~Carries(batch, d) /\ ~Carries(queue, d) /\ ~Carries(held, d)
  BY NewNowhere
<1>4. /\ Single(posted) /\ Single(batch) /\ Single(queue) /\ Single(held)
      /\ ~Carries(posted, NoData) /\ ~Carries(batch, NoData)
  BY Zenon DEF IInv, Payloads
<1>5. ASSUME NEW s \in Seq(Tasks), Single(s), ~Carries(s, d)
      PROVE  /\ Append(s, t) \in Seq(Tasks) /\ Single(Append(s, t))
             /\ \A c : Carries(Append(s, t), c) <=> Carries(s, c) \/ c = d
  <2>1. /\ Append(s, t) \in Seq(Tasks) /\ Adds(Append(s, t), s, t)
        /\ Single(s) /\ (t.data = NoData \/ ~Carries(s, t.data)) => Single(Append(s, t))
    BY AppendTask, Zenon
  <2> QED
    BY <1>5, <2>1, Zenon DEF Adds
<1>6. ASSUME NEW c \in Data, c # d PROVE Apart(c)
  BY Zenon DEF IInv, Payloads
<1>7. CASE queue' = Append(queue, t) /\ posted' = posted
  <2>1. /\ queue' \in Seq(Tasks) /\ Single(queue')
        /\ \A c : Carries(queue', c) <=> Carries(queue, c) \/ c = d
    BY <1>1, <1>3, <1>4, <1>5, <1>7, Zenon
  <2>2. ASSUME NEW c \in Data PROVE Apart(c)'
    <3>1. CASE c # d
      BY <1>2, <1>6, <1>7, <2>1, <3>1, Zenon DEF Apart
    <3>2. CASE c = d
      BY <1>2, <1>3, <1>7, <2>1, <3>2, Zenon DEF Apart
    <3> QED
      BY <3>1, <3>2, Zenon
  <2> QED
    BY <1>1, <1>2, <1>4, <1>7, <2>1, <2>2, Zenon DEF Payloads
<1>8. CASE posted' = Append(posted, t) /\ queue' = queue
  <2>1. /\ posted' \in Seq(Tasks) /\ Single(posted')
        /\ \A c : Carries(posted', c) <=> Carries(posted, c) \/ c = d
    BY <1>1, <1>3, <1>4, <1>5, <1>8, Zenon
  <2>2. ASSUME NEW c \in Data PROVE Apart(c)'
    <3>1. CASE c # d
      BY <1>2, <1>6, <1>8, <2>1, <3>1, Zenon DEF Apart
    <3>2. CASE c = d
      BY <1>2, <1>3, <1>8, <2>1, <3>2, Zenon DEF Apart
    <3> QED
      BY <3>1, <3>2, Zenon
  <2> QED
    BY <1>1, <1>2, <1>4, <1>8, <2>1, <2>2, Zenon DEF Payloads
<1> QED
  BY <1>7, <1>8, Zenon

\* mal_host_operation_progress and _complete on the loop's thread.
LEMMA CallStep ==
  ASSUME IInv, NEW kind \in {"progress", "terminal"}, NEW h \in issued, NEW d \in Data,
         Call(kind, h, d)
  PROVE  IInv'
<1>1. h \in Handles
  BY HandleFacts, Zenon
<1>2. /\ fate[d] = "new"
      /\ UNCHANGED <<free, live, nextGen, issued, held, posted, accepting, batch, woken, ended, phase>>
  BY Zenon DEF Call, postVars
<1>3. CASE Accepted(kind, h)
  <2>1. PICK t : t = Task(kind, h, d)
    BY Zenon
  <2>2. t \in Tasks /\ t.kind = kind /\ t.op = h /\ t.data = d /\ d # NoData
    BY <1>1, <2>1, TaskType, TasksAssumption
  <2>3. /\ Enqueue(t) /\ slot' = AfterCall(t.kind, t.op) /\ Accepted(t.kind, t.op)
        /\ fate' = [fate EXCEPT ![d] = "owned"]
    BY <1>3, <2>1, <2>2, Zenon DEF Call
  <2>4. Table' /\ Queue' /\ Held'
    BY <1>2, <2>2, <2>3, AcceptKeeps, Zenon
  <2>5. queue' = Append(queue, t)
    BY <2>3, Zenon DEF Enqueue
  <2>6. /\ Payloads' /\ fate' \in [Data -> {"new", "owned", "taken", "destroyed"}]
        /\ queue' \in Seq(Tasks) /\ posted' \in Seq(Tasks)
    BY <1>2, <2>2, <2>3, <2>5, PayloadEnters, Zenon
  <2>7. Types'
    BY <1>2, <2>6, Zenon DEF IInv, Types
  <2> QED
    BY <2>4, <2>6, <2>7, Zenon DEF IInv
<1>4. CASE ~Accepted(kind, h)
  <2>1. /\ fate' = [fate EXCEPT ![d] = "destroyed"]
        /\ UNCHANGED <<tableVars, queueVars, posted, batch, accepting, ended, phase>>
        /\ woken' \in BOOLEAN
    BY <1>2, <1>4, Zenon DEF Call, tableVars, queueVars, IInv, Types
  <2> QED
    BY <1>2, <2>1, RefuseKeeps, Zenon
<1> QED
  BY <1>3, <1>4, Zenon

\* mal_host_posted_push.
LEMMA PostStep ==
  ASSUME IInv, NEW kind \in {"progress", "terminal"}, NEW h \in issued, NEW d \in Data,
         NEW ok \in BOOLEAN, Post(kind, h, d, ok)
  PROVE  IInv'
<1>1. h \in Handles
  BY HandleFacts, Zenon
<1>2. /\ fate[d] = "new"
      /\ UNCHANGED <<tableVars, queueVars, slot, free, live, nextGen, issued, queue, queued, held,
                     accepting, batch, ended, phase>>
      /\ posted' = IF accepting /\ ok THEN Append(posted, Task(kind, h, d)) ELSE posted
      /\ woken' = (woken \/ (accepting /\ ok))
      /\ fate' = [fate EXCEPT ![d] = IF accepting /\ ok THEN "owned" ELSE "destroyed"]
  BY Zenon DEF Post, KeptPost, tableVars, queueVars
<1>3. woken' \in BOOLEAN
  BY <1>2, Zenon DEF IInv, Types
<1>4. CASE accepting /\ ok
  <2>1. PICK t : t = Task(kind, h, d)
    BY Zenon
  <2>2. t \in Tasks /\ t.data = d
    BY <1>1, <2>1, TaskType
  <2>3. posted' = Append(posted, t) /\ fate' = [fate EXCEPT ![d] = "owned"]
    BY <1>2, <1>4, <2>1, Zenon
  <2>4. /\ Payloads' /\ fate' \in [Data -> {"new", "owned", "taken", "destroyed"}]
        /\ queue' \in Seq(Tasks) /\ posted' \in Seq(Tasks)
    BY <1>2, <2>2, <2>3, PayloadEnters, Zenon
  <2>5. Table' /\ \A g : State(g)' = State(g)
    BY <1>2, TableStays, Zenon DEF IInv
  <2>6. Calm
    BY <1>2, <2>5, Zenon DEF Calm
  <2>7. Queue' /\ Held'
    BY <1>2, <2>6, TasksStay, Zenon
  <2>8. Types'
    BY <1>2, <1>3, <2>4, Zenon DEF IInv, Types
  <2> QED
    BY <2>4, <2>5, <2>7, <2>8, Zenon DEF IInv
<1>5. CASE ~(accepting /\ ok)
  <2>1. fate' = [fate EXCEPT ![d] = "destroyed"] /\ posted' = posted
    BY <1>2, <1>5, Zenon
  <2> QED
    BY <1>2, <1>3, <2>1, RefuseKeeps, Zenon
<1> QED
  BY <1>4, <1>5, Zenon

\* One node of mal_host_posted_transfer.
LEMMA TransferStep ==
  ASSUME IInv, Transfer
  PROVE  IInv'
<1>1. /\ batch # <<>> /\ batch' = Tail(batch)
      /\ UNCHANGED <<free, live, nextGen, issued, held, posted, accepting, woken, ended, phase>>
  BY Zenon DEF Transfer
<1>2. PICK t : t = Head(batch)
  BY Zenon
<1> DEFINE d == t.data
<1>3. /\ queue \in Seq(Tasks) /\ batch \in Seq(Tasks)
      /\ fate \in [Data -> {"new", "owned", "taken", "destroyed"}]
  BY Zenon DEF IInv, Types
<1>4. /\ Single(posted) /\ Single(batch) /\ Single(queue) /\ Single(held)
      /\ ~Carries(posted, NoData) /\ ~Carries(batch, NoData) /\ \A c \in Data : Apart(c)
  BY Zenon DEF IInv, Payloads
<1>5. /\ batch' \in Seq(Tasks) /\ t \in Tasks /\ Adds(batch, batch', t) /\ Single(batch')
      /\ d # NoData => ~Carries(batch', d)
  BY <1>1, <1>2, <1>3, <1>4, TailTask, Zenon
<1>6. \A c : Carries(batch, c) <=> Carries(batch', c) \/ d = c
  BY <1>5, Zenon DEF Adds
<1>7. d # NoData /\ d \in Data /\ ~Carries(batch', NoData) /\ ~Carries(batch', d) /\ Carries(batch, d)
  <2>1. d # NoData
    BY <1>4, <1>6, Zenon
  <2>2. d \in Data
    BY <1>5, <2>1, Zenon DEF Tasks
  <2> QED
    BY <1>4, <1>5, <1>6, <2>1, <2>2, Zenon
<1> HIDE DEF d
<1>8. ~Carries(posted, d) /\ ~Carries(queue, d) /\ ~Carries(held, d) /\ fate[d] = "owned"
  BY <1>4, <1>7, Zenon DEF Apart
<1>9. CASE Accepted(t.kind, t.op)
  <2>1. Enqueue(t) /\ slot' = AfterCall(t.kind, t.op) /\ fate' = fate
    BY <1>2, <1>9, Zenon DEF Transfer
  <2>2. Table' /\ Queue' /\ Held'
    BY <1>1, <1>5, <1>7, <1>9, <2>1, AcceptKeeps, Zenon DEF d
  <2>3. queue' = Append(queue, t)
    BY <2>1, Zenon DEF Enqueue
  <2>4. queue' \in Seq(Tasks) /\ Adds(queue', queue, t) /\ Single(queue')
    BY <1>3, <1>4, <1>5, <1>8, <2>3, AppendTask, Zenon DEF d
  <2>5. \A c : Carries(queue', c) <=> Carries(queue, c) \/ d = c
    BY <2>4, Zenon DEF Adds, d
  <2>6. ASSUME NEW c \in Data PROVE Apart(c)'
    <3>1. CASE c # d
      BY <1>1, <1>4, <1>6, <2>1, <2>5, <3>1, Zenon DEF Apart
    <3>2. CASE c = d
      BY <1>1, <1>7, <1>8, <2>1, <2>5, <3>2, Zenon DEF Apart
    <3> QED
      BY <3>1, <3>2, Zenon
  <2>7. Payloads'
    BY <1>1, <1>4, <1>5, <1>7, <2>4, <2>6, Zenon DEF Payloads
  <2>8. Types'
    BY <1>1, <1>5, <2>1, <2>4, Zenon DEF IInv, Types
  <2> QED
    BY <2>2, <2>7, <2>8, Zenon DEF IInv
<1>10. CASE ~Accepted(t.kind, t.op)
  <2>1. fate' = [fate EXCEPT ![d] = "destroyed"] /\ UNCHANGED <<slot, queue, queued>>
    BY <1>2, <1>10, Zenon DEF Transfer, d
  <2>2. /\ fate' \in [Data -> {"new", "owned", "taken", "destroyed"}] /\ fate'[d] = "destroyed"
        /\ \A c \in Data : c # d => fate'[c] = fate[c]
    BY <1>3, <1>7, <2>1, Zenon
  <2>3. Table' /\ \A g : State(g)' = State(g)
    BY <1>1, <2>1, TableStays, Zenon DEF IInv
  <2>4. Calm
    BY <1>1, <2>3, Zenon DEF Calm
  <2>5. Queue' /\ Held'
    BY <1>1, <2>1, <2>4, TasksStay, Zenon
  <2>6. ASSUME NEW c \in Data PROVE Apart(c)'
    <3>1. CASE c # d
      BY <1>1, <1>4, <1>6, <2>1, <2>2, <3>1, Zenon DEF Apart
    <3>2. CASE c = d
      <4>1. fate'[c] # "owned"
        BY <2>2, <3>2
      <4> QED
        BY <1>1, <1>7, <1>8, <2>1, <3>2, <4>1, Zenon DEF Apart
    <3> QED
      BY <3>1, <3>2, Zenon
  <2>7. Payloads'
    BY <1>1, <1>4, <1>5, <1>7, <2>1, <2>6, Zenon DEF Payloads
  <2>8. Types'
    BY <1>1, <1>5, <2>1, <2>2, Zenon DEF IInv, Types
  <2> QED
    BY <2>3, <2>5, <2>7, <2>8, Zenon DEF IInv
<1> QED
  BY <1>9, <1>10, Zenon

\* A cancellation that keeps the tasks q of the queue destroys the payloads of the others.
Settles(q, d) ==
  /\ Carries(q, d) => Carries(queue, d) /\ fate'[d] = fate[d]
  /\ Carries(queue, d) /\ ~Carries(q, d) => fate'[d] = "destroyed"
  /\ ~Carries(queue, d) => fate'[d] = fate[d]

\* What a cancellation keeps of the queue: every terminal task, and no progress of its index.
LEMMA CancelQueue ==
  ASSUME IInv, NEW h \in Handles, Cancel(h)
  PROVE  \E q \in Seq(Tasks) :
           /\ queue' = Append(q, Task("terminal", h, NoData))
           /\ queued' = Len(q) + 1
           /\ Single(q) /\ Ordered(q)
           /\ \A g : Has(q, g) => Has(queue, g) /\ (g[1] = h[1] => Ends(queue, g))
           /\ \A g : Ends(q, g) <=> Ends(queue, g)
           /\ \A d \in Data : Settles(q, d)
           /\ fate' \in [Data -> {"new", "owned", "taken", "destroyed"}]
<1> DEFINE n == Len(queue)
           D == Dropped(h)
           I == (1..n) \ D
           gone == {queue[i].data : i \in D}
<1>1. /\ queue \in Seq(Tasks) /\ Single(queue) /\ Ordered(queue) /\ queued = n
      /\ fate \in [Data -> {"new", "owned", "taken", "destroyed"}]
  BY Zenon DEF IInv, Types, Payloads, Queue
<1>2. PICK f \in Ascending(I, n) : queue' = Append(Pick(queue, f), Task("terminal", h, NoData))
  BY Zenon DEF Cancel
<1>3. /\ queued' = queued - Cardinality(D) + 1
      /\ fate' = [d \in Data |-> IF d \in gone THEN "destroyed" ELSE fate[d]]
  BY Zenon DEF Cancel
<1>4. D \subseteq 1..n /\ \A i \in 1..n : i \in D <=> queue[i].kind = "progress" /\ queue[i].op[1] = h[1]
  BY Zenon DEF Dropped
<1>5. n \in Nat /\ IsFiniteSet(1..n) /\ Cardinality(1..n) = n
  <2>1. n \in Nat
    BY <1>1
  <2> QED
    BY <2>1, IntervalSize, Zenon
<1> HIDE DEF D, n
<1>6. Cardinality(D) \in Nat /\ Cardinality(I) = n - Cardinality(D)
  <2>1. IsFiniteSet(D)
    BY <1>4, <1>5, FS_Subset, Zenon
  <2>2. D = (1..n) \cap D
    BY <1>4, Zenon
  <2>3. Cardinality(I) = Cardinality(1..n) - Cardinality((1..n) \cap D)
    BY <1>5, <2>1, FS_Difference, Zenon
  <2> QED
    BY <1>5, <2>1, <2>2, <2>3, FS_CardinalityType, Zenon
<1> DEFINE q == Pick(queue, f)
<1>7. /\ q \in Seq(Tasks) /\ Len(q) = Cardinality(I) /\ Single(q) /\ Ordered(q)
      /\ \A x : Listed(q, x) <=> \E i \in I : queue[i] = x
  <2>1. I \in SUBSET (1..n)
    BY Zenon
  <2> HIDE DEF I
  <2> QED
    BY <1>1, <1>2, <2>1, PickTasks DEF n
<1>8. queued' = Len(q) + 1
  BY <1>1, <1>3, <1>5, <1>6, <1>7
<1> HIDE DEF q, gone
<1>9. /\ \A k \in 1..Len(q) : \E i \in I : queue[i] = q[k]
      /\ \A i \in I : \E k \in 1..Len(q) : q[k] = queue[i]
  BY <1>7, Zenon DEF Listed
<1>10. ASSUME NEW g, Has(q, g) PROVE Has(queue, g) /\ (g[1] = h[1] => Ends(queue, g))
  <2>1. PICK k \in 1..Len(q) : q[k].op = g
    BY <1>10, Zenon DEF Has
  <2>2. PICK i \in I : queue[i] = q[k]
    BY <1>9, Zenon
  <2>3. i \in 1..n /\ queue[i].op = g /\ (g[1] = h[1] => queue[i].kind # "progress")
    BY <1>4, <2>1, <2>2, Zenon
  <2>4. queue[i].kind \in {"progress", "terminal"}
    <3>1. queue[i] \in Tasks
      BY <1>1, <2>3 DEF n
    <3> QED
      BY <3>1, Zenon DEF Tasks
  <2> QED
    BY <2>3, <2>4, Zenon DEF Has, Ends, n
<1>11. ASSUME NEW g PROVE Ends(q, g) <=> Ends(queue, g)
  <2>1. ASSUME Ends(q, g) PROVE Ends(queue, g)
    <3>1. PICK k \in 1..Len(q) : q[k].kind = "terminal" /\ q[k].op = g
      BY <2>1, Zenon DEF Ends
    <3>2. PICK i \in I : queue[i] = q[k]
      BY <1>9, Zenon
    <3> QED
      BY <3>1, <3>2, Zenon DEF Ends, n
  <2>2. ASSUME Ends(queue, g) PROVE Ends(q, g)
    <3>1. PICK i \in 1..n : queue[i].kind = "terminal" /\ queue[i].op = g
      BY <2>2, Zenon DEF Ends, n
    <3>2. i \in I
      BY <1>4, <3>1
    <3> QED
      BY <1>9, <3>1, <3>2, Zenon DEF Ends
  <2> QED
    BY <2>1, <2>2, Zenon
<1>12. fate' \in [Data -> {"new", "owned", "taken", "destroyed"}]
  BY <1>1, <1>3, Zenon
<1>13. ASSUME NEW d \in Data
       PROVE  Settles(q, d)
  <2>1. fate'[d] = IF d \in gone THEN "destroyed" ELSE fate[d]
    BY <1>3, Zenon
  <2>2. ASSUME d \in gone PROVE Carries(queue, d) /\ ~Carries(q, d)
    <3>1. PICK i \in D : queue[i].data = d
      BY <2>2, Zenon DEF gone
    <3>2. i \in 1..n /\ d # NoData
      BY <1>4, <3>1, TasksAssumption, Zenon
    <3>3. ASSUME Carries(q, d) PROVE FALSE
      <4>1. PICK k \in 1..Len(q) : q[k].data = d
        BY <3>3, Zenon DEF Carries
      <4>2. PICK m \in I : queue[m] = q[k]
        BY <1>9, Zenon
      <4>3. m \in 1..n /\ m # i
        BY <3>1, <4>2, Zenon
      <4> QED
        BY <1>1, <3>1, <3>2, <4>1, <4>2, <4>3, Zenon DEF Single, n
    <3> QED
      BY <3>1, <3>2, <3>3, Zenon DEF Carries, n
  <2>3. ASSUME Carries(q, d) PROVE Carries(queue, d)
    <3>1. PICK k \in 1..Len(q) : q[k].data = d
      BY <2>3, Zenon DEF Carries
    <3>2. PICK m \in I : queue[m] = q[k]
      BY <1>9, Zenon
    <3> QED
      BY <3>1, <3>2, Zenon DEF Carries, n
  <2>4. ASSUME Carries(queue, d), ~Carries(q, d) PROVE d \in gone
    <3>1. PICK i \in 1..n : queue[i].data = d
      BY <2>4, Zenon DEF Carries, n
    <3>2. i \in D
      BY <1>9, <2>4, <3>1, Zenon DEF Carries
    <3> QED
      BY <3>1, <3>2, Zenon DEF gone
  <2> QED
    BY <2>1, <2>2, <2>3, <2>4, Zenon DEF Settles
<1> QED
  BY <1>2, <1>7, <1>8, <1>10, <1>11, <1>12, <1>13, Zenon DEF q

\* mal_host_operation_cancel.
LEMMA CancelStep ==
  ASSUME IInv, NEW h \in issued, Cancel(h)
  PROVE  IInv'
<1>1. h \in Handles /\ Table /\ issued \subseteq Handles /\ ended \subseteq issued
  BY HandleFacts, Zenon DEF IInv, Types
<1>2. /\ InState(h, {"starting", "active"}) /\ slot' = [slot EXCEPT ![h[1]].state = "queued"]
      /\ UNCHANGED <<free, live, nextGen, issued, held, posted, accepting, batch, woken, ended, phase>>
  BY Zenon DEF Cancel, postVars
<1>3. Resolves(h) /\ State(h) \in {"starting", "active"}
  BY <1>2, Zenon DEF InState, State
<1>4. h \notin ended /\ ~Ends(queue, h) /\ ~Ends(held, h)
  BY <1>3, RunningNotEnded
<1>5. /\ Table'
      /\ \A g \in Handles : State(g)' = IF g = h THEN "queued" ELSE State(g)
  BY <1>1, <1>2, <1>3, MoveKeeps, Zenon
<1>6. PICK q \in Seq(Tasks) :
        /\ queue' = Append(q, Task("terminal", h, NoData))
        /\ queued' = Len(q) + 1
        /\ Single(q) /\ Ordered(q)
        /\ \A g : Has(q, g) => Has(queue, g) /\ (g[1] = h[1] => Ends(queue, g))
        /\ \A g : Ends(q, g) <=> Ends(queue, g)
        /\ \A d \in Data : Settles(q, d)
        /\ fate' \in [Data -> {"new", "owned", "taken", "destroyed"}]
  BY <1>1, CancelQueue, Zenon
<1>7. PICK t : t = Task("terminal", h, NoData)
  BY Zenon
<1>8. t \in Tasks /\ t.kind = "terminal" /\ t.op = h /\ t.data = NoData
  BY <1>1, <1>7, TaskType
<1>9. ~Has(q, h) /\ ~Ends(q, h)
  BY <1>4, <1>6, Zenon
<1>10. /\ queue' \in Seq(Tasks) /\ Len(queue') = Len(q) + 1 /\ Adds(queue', q, t)
       /\ Single(queue') /\ Ordered(queue')
  BY <1>6, <1>7, <1>8, <1>9, AppendTask, Zenon
<1>11. /\ \A g : Has(queue', g) <=> Has(q, g) \/ h = g
       /\ \A g : Ends(queue', g) <=> Ends(queue, g) \/ h = g
       /\ \A d \in Data : Carries(queue', d) <=> Carries(q, d)
  <2>1. \A d \in Data : d # NoData
    BY TasksAssumption, Zenon
  <2> QED
    BY <1>6, <1>8, <1>10, <2>1, Zenon DEF Adds
<1>12. Queue'
  <2>1. ASSUME NEW g, Has(queue', g)
        PROVE  g \in issued /\ g \notin ended /\ State(g)' \in {"active", "queued"}
    <3>1. CASE g = h
      BY <1>1, <1>4, <1>5, <3>1, Zenon
    <3>2. CASE g # h
      <4>1. g \in issued /\ g \notin ended /\ State(g) \in {"active", "queued"}
        BY <1>6, <1>11, <2>1, <3>2, Zenon DEF IInv, Queue
      <4> QED
        BY <1>1, <1>5, <3>2, <4>1, Zenon
    <3> QED
      BY <3>1, <3>2, Zenon
  <2>2. \A g : Ends(queue, g) => g \in Handles /\ State(g) = "queued"
    BY <1>1, EndsHas, Zenon DEF IInv, Queue
  <2>3. \A g : Ends(queue', g) => State(g)' = "queued"
    BY <1>1, <1>5, <1>11, <2>2, Zenon
  <2>4. \A g \in issued : g \notin ended /\ State(g)' = "queued" => Ends(queue', g)
    BY <1>1, <1>5, <1>11, Zenon DEF IInv, Queue
  <2>5. queued' = Len(queue')
    BY <1>6, <1>10, Zenon
  <2> QED
    BY <1>2, <1>10, <2>1, <2>3, <2>4, <2>5, Zenon DEF Queue
<1>13. Held'
  <2>1. \A g \in ended : g # h /\ g \in Handles
    BY <1>1, <1>4, Zenon
  <2>2. \A g \in ended : State(g)' = State(g)
    BY <1>5, <2>1, Zenon
  <2> QED
    BY <1>2, <2>2, Zenon DEF IInv, Held
<1>14. Payloads'
  <2>1. /\ Single(posted) /\ Single(batch) /\ Single(held)
        /\ ~Carries(posted, NoData) /\ ~Carries(batch, NoData) /\ \A d \in Data : Apart(d)
    BY Zenon DEF IInv, Payloads
  <2>2. ASSUME NEW d \in Data PROVE Apart(d)'
    <3>0. /\ Carries(q, d) => Carries(queue, d) /\ fate'[d] = fate[d]
          /\ Carries(queue, d) /\ ~Carries(q, d) => fate'[d] = "destroyed"
          /\ ~Carries(queue, d) => fate'[d] = fate[d]
      BY <1>6, Zenon DEF Settles
    <3>1. CASE Carries(q, d) \/ ~Carries(queue, d)
      <4>1. fate'[d] = fate[d] /\ (Carries(queue', d) <=> Carries(queue, d))
        BY <1>11, <3>0, <3>1, Zenon
      <4> QED
        BY <1>2, <2>1, <4>1, Zenon DEF Apart
    <3>2. CASE Carries(queue, d) /\ ~Carries(q, d)
      <4>1. fate'[d] # "owned"
        BY <3>0, <3>2
      <4>2. ~Carries(posted, d) /\ ~Carries(batch, d) /\ ~Carries(held, d)
        BY <2>1, <3>2, Zenon DEF Apart
      <4> QED
        BY <1>2, <1>11, <3>2, <4>1, <4>2, Zenon DEF Apart
    <3> QED
      BY <3>1, <3>2, Zenon
  <2> QED
    BY <1>2, <1>10, <2>1, <2>2, Zenon DEF Payloads
<1>15. Types'
  BY <1>2, <1>6, <1>10, Zenon DEF IInv, Types
<1> QED
  BY <1>5, <1>12, <1>13, <1>14, <1>15, Zenon DEF IInv

\* mal_host_next_task.
LEMMA NextTaskStep ==
  ASSUME IInv, NextTask
  PROVE  IInv'
<1>1. /\ queue # <<>> /\ queue' = Tail(queue) /\ queued' = queued - 1
      /\ held' = Append(held, Head(queue))
      /\ ended' = IF Head(queue).kind = "terminal" THEN ended \cup {Head(queue).op} ELSE ended
      /\ UNCHANGED <<slot, free, live, nextGen, issued, posted, accepting, batch, woken, fate, phase>>
  BY Zenon DEF NextTask, tableVars, postVars
<1>2. PICK t : t = Head(queue)
  BY Zenon
<1> DEFINE h == t.op
<1>3. /\ queue \in Seq(Tasks) /\ held \in Seq(Tasks) /\ ended \subseteq issued
      /\ Single(queue) /\ Single(held) /\ Ordered(queue) /\ OneEnd(held)
      /\ queued = Len(queue)
  BY Zenon DEF IInv, Types, Payloads, Queue, Held
<1>4. /\ queue' \in Seq(Tasks) /\ Len(queue') = Len(queue) - 1 /\ t \in Tasks
      /\ Adds(queue, queue', t)
      /\ Single(queue') /\ (t.data # NoData => ~Carries(queue', t.data))
      /\ Ordered(queue') /\ (t.kind = "terminal" => ~Has(queue', h))
  BY <1>1, <1>2, <1>3, TailTask, Zenon
<1>5. /\ \A g : Has(queue, g) <=> Has(queue', g) \/ h = g
      /\ \A g : Ends(queue, g) <=> Ends(queue', g) \/ (t.kind = "terminal" /\ h = g)
      /\ \A d : Carries(queue, d) <=> Carries(queue', d) \/ t.data = d
  BY <1>4, Zenon DEF Adds
<1>6. h \in issued /\ h \notin ended /\ (t.kind = "terminal" => State(h) = "queued")
  BY <1>5, Zenon DEF IInv, Queue
<1>7. ~Ends(held, h) /\ (t.data = NoData \/ ~Carries(held, t.data))
  <2>1. ~Ends(held, h)
    BY <1>6, Zenon DEF IInv, Held
  <2>2. ASSUME t.data # NoData PROVE ~Carries(held, t.data)
    <3>1. t.data \in Data /\ Carries(queue, t.data)
      BY <1>4, <1>5, <2>2, Zenon DEF Tasks
    <3> QED
      BY <3>1, Zenon DEF IInv, Payloads, Apart
  <2> QED
    BY <2>1, <2>2, Zenon
<1>8. /\ held' \in Seq(Tasks) /\ Adds(held', held, t) /\ Single(held') /\ OneEnd(held')
  BY <1>1, <1>2, <1>3, <1>4, <1>7, AppendTask, Zenon
<1>9. /\ \A g : Ends(held', g) <=> Ends(held, g) \/ (t.kind = "terminal" /\ h = g)
      /\ \A d : Carries(held', d) <=> Carries(held, d) \/ t.data = d
  BY <1>8, Zenon DEF Adds
<1> HIDE DEF h
<1>10. Table' /\ \A g : State(g)' = State(g)
  BY <1>1, TableStays, Zenon DEF IInv
<1>11. \A g : g \in ended' <=> g \in ended \/ (t.kind = "terminal" /\ g = h)
  BY <1>1, <1>2, Zenon DEF h
<1>12. Queue'
  <2>1. \A g : Has(queue', g) => g \in issued /\ g \notin ended' /\ State(g)' \in {"active", "queued"}
    <3>1. ASSUME NEW g, Has(queue', g)
          PROVE  g \in issued /\ g \notin ended' /\ State(g) \in {"active", "queued"}
      <4>1. g \in issued /\ g \notin ended /\ State(g) \in {"active", "queued"}
        BY <1>5, <3>1, Zenon DEF IInv, Queue
      <4>2. ~(t.kind = "terminal" /\ g = h)
        BY <1>4, <3>1 DEF h
      <4> QED
        BY <1>11, <4>1, <4>2, Zenon
    <3> QED
      BY <1>10, <3>1, Zenon
  <2>2. \A g : Ends(queue', g) => State(g)' = "queued"
    BY <1>5, <1>10, Zenon DEF IInv, Queue
  <2>3. \A g \in issued : g \notin ended' /\ State(g)' = "queued" => Ends(queue', g)
    BY <1>5, <1>10, <1>11, Zenon DEF IInv, Queue
  <2>4. queued' = Len(queue')
    BY <1>1, <1>3, <1>4, Zenon
  <2> QED
    BY <1>1, <1>4, <2>1, <2>2, <2>3, <2>4, Zenon DEF Queue
<1>13. Held'
  <2>1. \A g : Ends(held', g) => g \in ended' /\ State(g)' = "queued"
    BY <1>6, <1>9, <1>10, <1>11, Zenon DEF IInv, Held
  <2>2. \A g \in ended' : State(g)' # "gone" => Ends(held', g)
    BY <1>9, <1>10, <1>11, Zenon DEF IInv, Held
  <2> QED
    BY <1>8, <2>1, <2>2, Zenon DEF Held
<1>14. Payloads'
  <2>1. ASSUME NEW d \in Data PROVE Apart(d)'
    <3>1. Apart(d) /\ d # NoData
      BY TasksAssumption, Zenon DEF IInv, Payloads
    <3>2. CASE d # t.data
      BY <1>1, <1>5, <1>9, <3>1, <3>2, Zenon DEF Apart
    <3>3. CASE d = t.data
      <4>1. Carries(queue, d) /\ ~Carries(queue', d) /\ Carries(held', d)
        BY <1>4, <1>5, <1>9, <3>1, <3>3, Zenon
      <4> QED
        BY <1>1, <3>1, <4>1, Zenon DEF Apart
    <3> QED
      BY <3>2, <3>3, Zenon
  <2> QED
    BY <1>1, <1>4, <1>8, <2>1, Zenon DEF IInv, Payloads
<1>15. Types'
  <2>1. ended' \subseteq issued
    BY <1>3, <1>6, <1>11, Zenon
  <2> QED
    BY <1>1, <1>4, <1>8, <2>1, Zenon DEF IInv, Types
<1> QED
  BY <1>10, <1>12, <1>13, <1>14, <1>15, Zenon DEF IInv

\* mal_host_task_take_data.
LEMMA TakeStep ==
  ASSUME IInv, NEW i \in 1..Len(held), TakeData(i)
  PROVE  IInv'
<1>1. /\ held[i].data # NoData
      /\ fate' = [fate EXCEPT ![held[i].data] = "taken"]
      /\ held' = [held EXCEPT ![i] = Disarmed(@)]
      /\ UNCHANGED <<slot, free, live, nextGen, issued, queue, queued, posted, accepting, batch, woken,
                     ended, phase>>
  BY Zenon DEF TakeData, tableVars, postVars
<1>2. PICK c : c = held[i].data
  BY Zenon
<1>3. /\ held \in Seq(Tasks) /\ Single(held) /\ OneEnd(held)
      /\ fate \in [Data -> {"new", "owned", "taken", "destroyed"}]
  BY Zenon DEF IInv, Types, Payloads, Held
<1>4. c \in Data /\ Carries(held, c)
  <2>1. held[i] \in Tasks
    BY <1>3
  <2> QED
    BY <1>1, <1>2, <2>1, Zenon DEF Tasks, Carries
<1>5. /\ fate' \in [Data -> {"new", "owned", "taken", "destroyed"}] /\ fate'[c] = "taken"
      /\ \A d \in Data : d # c => fate'[d] = fate[d]
  BY <1>1, <1>2, <1>3, <1>4, Zenon
<1>6. /\ held' \in Seq(Tasks) /\ OneEnd(held') /\ Single(held')
      /\ \A h : Ends(held', h) <=> Ends(held, h)
      /\ \A d : d # NoData => (Carries(held', d) <=> Carries(held, d) /\ d # c)
  BY <1>1, <1>2, <1>3, DisarmTask, Zenon
<1>7. Table' /\ \A g : State(g)' = State(g)
  BY <1>1, TableStays, Zenon DEF IInv
<1>8. Queue'
  BY <1>1, <1>7, Zenon DEF IInv, Queue
<1>9. Held'
  BY <1>1, <1>6, <1>7, Zenon DEF IInv, Held
<1>10. Payloads'
  <2>1. ASSUME NEW d \in Data PROVE Apart(d)'
    <3>1. Apart(d) /\ d # NoData
      BY TasksAssumption, Zenon DEF IInv, Payloads
    <3>2. CASE d # c
      BY <1>1, <1>5, <1>6, <3>1, <3>2, Zenon DEF Apart
    <3>3. CASE d = c
      <4>1. fate'[d] # "owned" /\ ~Carries(held', d)
        BY <1>5, <1>6, <3>1, <3>3
      <4> QED
        BY <1>1, <1>4, <3>1, <3>3, <4>1, Zenon DEF Apart
    <3> QED
      BY <3>2, <3>3, Zenon
  <2> QED
    BY <1>1, <1>6, <2>1, Zenon DEF IInv, Payloads
<1>11. Types'
  BY <1>1, <1>5, <1>6, Zenon DEF IInv, Types
<1> QED
  BY <1>7, <1>8, <1>9, <1>10, <1>11, Zenon DEF IInv

\* mal_host_task_release.
LEMMA ReleaseStep ==
  ASSUME IInv, NEW i \in 1..Len(held), Release(i)
  PROVE  IInv'
<1>1. /\ held' = RemoveIndex(held, i)
      /\ fate' = [d \in Data |-> IF d = held[i].data THEN "destroyed" ELSE fate[d]]
      /\ UNCHANGED <<nextGen, issued, queue, queued, posted, accepting, batch, woken, ended, phase>>
  BY Zenon DEF Release, postVars
<1>2. PICK t : t = held[i]
  BY Zenon
<1>3. /\ held \in Seq(Tasks) /\ Single(held) /\ OneEnd(held)
      /\ fate \in [Data -> {"new", "owned", "taken", "destroyed"}]
      /\ issued \subseteq Handles /\ ended \subseteq issued
  BY Zenon DEF IInv, Types, Payloads, Held, Table
<1>4. t \in Tasks
  BY <1>2, <1>3
<1>5. /\ held' \in Seq(Tasks) /\ Adds(held, held', t) /\ Single(held') /\ OneEnd(held')
      /\ t.data # NoData => ~Carries(held', t.data)
      /\ t.kind = "terminal" => ~Ends(held', t.op)
  BY <1>1, <1>2, <1>3, RemoveTask, Zenon
<1>6. /\ \A h : Ends(held, h) <=> Ends(held', h) \/ (t.kind = "terminal" /\ t.op = h)
      /\ \A d : Carries(held, d) <=> Carries(held', d) \/ t.data = d
  BY <1>5, Zenon DEF Adds
<1>7. /\ fate' \in [Data -> {"new", "owned", "taken", "destroyed"}]
      /\ \A d \in Data : fate'[d] = IF d = t.data THEN "destroyed" ELSE fate[d]
  BY <1>1, <1>2, <1>3, Zenon
<1>8. /\ Table'
      /\ \A g \in Handles : t.kind # "terminal" \/ g # t.op => State(g)' = State(g)
      /\ t.kind = "terminal" => t.op \in ended /\ State(t.op)' = "gone"
  <2>1. CASE t.kind = "terminal"
    <3>1. Ends(held, t.op)
      BY <1>2, <2>1, Zenon DEF Ends
    <3>2. t.op \in ended /\ State(t.op) = "queued"
      BY <3>1, Zenon DEF IInv, Held
    <3>3. t.op \in Handles /\ Resolves(t.op)
      <4>1. t.op \in Handles
        BY <1>3, <3>2, Zenon
      <4>2. ASSUME ~Resolves(t.op) PROVE FALSE
        BY <3>2, <4>2 DEF State
      <4> QED
        BY <4>1, <4>2, Zenon
    <3>4. Retire(t.op[1]) /\ UNCHANGED <<nextGen, issued>>
      BY <1>1, <1>2, <2>1, Zenon DEF Release
    <3>5. /\ Table'
          /\ \A g \in Handles : State(g)' = IF g = t.op THEN "gone" ELSE State(g)
      BY <3>3, <3>4, RetireKeeps, Zenon DEF IInv
    <3> QED
      BY <2>1, <3>2, <3>3, <3>5, Zenon
  <2>2. CASE t.kind # "terminal"
    <3>1. UNCHANGED <<slot, free, live, nextGen, issued>>
      BY <1>1, <1>2, <2>2, Zenon DEF Release
    <3> QED
      BY <2>2, <3>1, TableStays, Zenon DEF IInv
  <2> QED
    BY <2>1, <2>2, Zenon
<1>9. \A g \in issued : g \notin ended => State(g)' = State(g)
  BY <1>3, <1>8, Zenon
<1>10. Queue'
  <2>1. \A g : Has(queue, g) => g \in issued /\ g \notin ended /\ State(g)' \in {"active", "queued"}
    BY <1>9, Zenon DEF IInv, Queue
  <2>2. \A g : Ends(queue, g) => State(g)' = "queued"
    BY <1>9, EndsHas, Zenon DEF IInv, Queue
  <2>3. \A g \in issued : g \notin ended /\ State(g)' = "queued" => Ends(queue, g)
    BY <1>9, Zenon DEF IInv, Queue
  <2> QED
    BY <1>1, <2>1, <2>2, <2>3, Zenon DEF IInv, Queue
<1>11. Held'
  <2>1. ASSUME NEW g, Ends(held', g) PROVE g \in ended /\ State(g)' = "queued"
    <3>1. g \in ended /\ State(g) = "queued" /\ ~(t.kind = "terminal" /\ t.op = g)
      BY <1>5, <1>6, <2>1, Zenon DEF IInv, Held
    <3> QED
      BY <1>3, <1>8, <3>1, Zenon
  <2>2. ASSUME NEW g \in ended, State(g)' # "gone" PROVE Ends(held', g)
    <3>1. ~(t.kind = "terminal" /\ t.op = g)
      BY <1>8, <2>2, Zenon
    <3>2. State(g)' = State(g)
      BY <1>3, <1>8, <3>1, Zenon
    <3> QED
      BY <1>6, <2>2, <3>1, <3>2, Zenon DEF IInv, Held
  <2> QED
    BY <1>1, <1>5, <2>1, <2>2, Zenon DEF Held
<1>12. Payloads'
  <2>1. ASSUME NEW d \in Data PROVE Apart(d)'
    <3>1. Apart(d) /\ d # NoData
      BY TasksAssumption, Zenon DEF IInv, Payloads
    <3>2. CASE d # t.data
      BY <1>1, <1>6, <1>7, <3>1, <3>2, Zenon DEF Apart
    <3>3. CASE d = t.data
      <4>1. fate'[d] # "owned" /\ ~Carries(held', d) /\ Carries(held, d)
        BY <1>5, <1>6, <1>7, <3>1, <3>3
      <4> QED
        BY <1>1, <3>1, <4>1, Zenon DEF Apart
    <3> QED
      BY <3>2, <3>3, Zenon
  <2> QED
    BY <1>1, <1>5, <2>1, Zenon DEF IInv, Payloads
<1>13. Types'
  BY <1>1, <1>5, <1>7, Zenon DEF IInv, Types
<1> QED
  BY <1>8, <1>10, <1>11, <1>12, <1>13, Zenon DEF IInv

\* A list of no tasks.
LEMMA NoTasks ==
  /\ Single(<<>>) /\ OneEnd(<<>>) /\ Ordered(<<>>) /\ Distinct(<<>>)
  /\ <<>> \in Seq(Tasks) /\ Len(<<>>) = 0
  /\ \A x : ~Has(<<>>, x) /\ ~Ends(<<>>, x) /\ ~Carries(<<>>, x) /\ ~Listed(<<>>, x)
<1>1. 1..Len(<<>>) = {} /\ <<>> \in Seq(Tasks) /\ Len(<<>>) = 0
  OBVIOUS
<1> QED
  BY <1>1, Zenon DEF Single, OneEnd, Ordered, Distinct, Has, Ends, Carries, Listed

\* A table with no slot.
LEMMA NoSlots ==
  ASSUME slot = <<>>
  PROVE  Occupied = {} /\ Cardinality(Occupied) = 0 /\ \A g : State(g) = "gone"
<1>1. 1..Len(slot) = {}
  OBVIOUS
<1>2. Occupied = {}
  BY <1>1, Zenon DEF Occupied
<1>3. \A g : State(g) = "gone"
  BY <1>1, Zenon DEF State, Resolves
<1> QED
  BY <1>2, <1>3, FS_EmptySet, Zenon

\* The drain takes what is posted as its batch.
LEMMA DrainStep ==
  ASSUME IInv, NEW shutdown \in BOOLEAN, Drain(shutdown)
  PROVE  IInv'
<1>1. /\ batch = <<>> /\ batch' = posted /\ posted' = <<>> /\ woken' = FALSE
      /\ accepting' = (accepting /\ ~shutdown) /\ phase' = IF shutdown THEN "shut" ELSE phase
      /\ UNCHANGED <<slot, free, live, nextGen, issued, queue, queued, held, fate, ended>>
  BY Zenon DEF Drain, Loop, tableVars, queueVars
<1>2. Table' /\ \A g : State(g)' = State(g)
  BY <1>1, TableStays, Zenon DEF IInv
<1>3. Calm
  BY <1>1, <1>2, Zenon DEF Calm
<1>4. Queue' /\ Held'
  BY <1>1, <1>3, TasksStay, Zenon
<1>5. Types'
  <2>1. accepting' \in BOOLEAN /\ woken' \in BOOLEAN /\ phase' \in {"open", "shut", "freed"}
    BY <1>1, Zenon DEF IInv, Types
  <2> QED
    BY <1>1, <2>1, NoTasks, Zenon DEF IInv, Types
<1>6. Payloads'
  <2>1. ~Carries(batch, NoData) /\ \A d \in Data : ~Carries(batch, d) /\ ~Carries(posted', d)
    BY <1>1, NoTasks, Zenon
  <2>2. ASSUME NEW d \in Data PROVE Apart(d)'
    BY <1>1, <2>1, Zenon DEF IInv, Payloads, Apart
  <2>3. Single(posted') /\ ~Carries(posted', NoData)
    BY <1>1, NoTasks, Zenon
  <2> QED
    BY <1>1, <2>2, <2>3, Zenon DEF IInv, Payloads
<1> QED
  BY <1>2, <1>4, <1>5, <1>6, Zenon DEF IInv

\* mal_host_free destroys what is left.
LEMMA FreeStep ==
  ASSUME IInv, FreeHost
  PROVE  IInv'
<1>1. /\ batch = <<>> /\ fate' = [d \in Data |-> IF d \in Owned THEN "destroyed" ELSE fate[d]]
      /\ slot' = <<>> /\ free' = <<>> /\ live' = 0 /\ phase' = "freed"
      /\ queue' = <<>> /\ queued' = 0 /\ held' = <<>> /\ posted' = <<>>
      /\ UNCHANGED <<nextGen, issued, accepting, batch, woken, ended>>
  BY Zenon DEF FreeHost, Loop
<1>2. Occupied' = {} /\ Cardinality(Occupied') = 0 /\ \A g : State(g)' = "gone"
  <2>1. 1..Len(slot') = {}
    BY <1>1
  <2>2. Occupied' = {}
    BY <2>1, Zenon DEF Occupied
  <2>3. \A g : State(g)' = "gone"
    BY <2>1, Zenon DEF State, Resolves
  <2> QED
    BY <2>2, <2>3, FS_EmptySet, Zenon
<1>3. fate \in [Data -> {"new", "owned", "taken", "destroyed"}]
  BY Zenon DEF IInv, Types
<1>4. /\ fate' \in [Data -> {"new", "owned", "taken", "destroyed"}]
      /\ \A d \in Data : fate'[d] = IF d \in Owned THEN "destroyed" ELSE fate[d]
  BY <1>1, <1>3, Zenon
<1>5. ASSUME NEW d \in Data PROVE fate'[d] # "owned"
  <2>1. CASE d \in Owned
    BY <1>4, <2>1
  <2>2. CASE d \notin Owned
    <3>1. ~Carries(posted, d) /\ ~Carries(queue, d) /\ ~Carries(held, d)
      BY <2>2, Zenon DEF Owned, Carries
    <3>2. ~Carries(batch, d)
      BY <1>1, NoTasks, Zenon
    <3> QED
      BY <1>4, <2>2, <3>1, <3>2, Zenon DEF IInv, Payloads, Apart
  <2> QED
    BY <2>1, <2>2, Zenon
<1>6. ASSUME NEW x
      PROVE  /\ ~Has(queue', x) /\ ~Ends(queue', x) /\ ~Ends(held', x)
             /\ ~Carries(posted', x) /\ ~Carries(batch', x) /\ ~Carries(queue', x) /\ ~Carries(held', x)
  BY <1>1, NoTasks, Zenon
<1>7. Table'
  <2>1. /\ slot' \in Seq(Slots) /\ 1..Len(slot') = {} /\ Len(slot') <= MaxCapacity
        /\ free' \in Seq(Nat)
    BY <1>1, TasksAssumption
  <2>2. Distinct(free') /\ \A y : ~Listed(free', y)
    BY <1>1, NoTasks, Zenon
  <2> QED
    BY <1>1, <1>2, <2>1, <2>2, Zenon DEF IInv, Table
<1>8. Queue'
  <2>1. queued' = Len(queue') /\ Ordered(queue')
    BY <1>1, NoTasks, Zenon
  <2>2. \A g : State(g)' # "queued"
    BY <1>2
  <2> QED
    BY <1>6, <2>1, <2>2, Zenon DEF Queue
<1>9. Held'
  <2>1. OneEnd(held')
    BY <1>1, NoTasks, Zenon
  <2> QED
    BY <1>2, <1>6, <2>1, Zenon DEF Held
<1>10. Payloads'
  <2>1. Single(posted') /\ Single(batch') /\ Single(queue') /\ Single(held')
    BY <1>1, NoTasks, Zenon
  <2> QED
    BY <1>5, <1>6, <2>1, Zenon DEF Payloads, Apart
<1>11. Types'
  BY <1>1, <1>4, NoTasks, Zenon DEF IInv, Types
<1> QED
  BY <1>7, <1>8, <1>9, <1>10, <1>11, Zenon DEF IInv

-----------------------------------------------------------------------------
(* The invariant, and what it says. *)

\* The initial state satisfies the invariant.
LEMMA InitHolds == Init => IInv
<1> SUFFICES ASSUME Init PROVE IInv
  OBVIOUS
<1>1. /\ slot = <<>> /\ free = <<>> /\ live = 0 /\ nextGen = 1
      /\ queue = <<>> /\ queued = 0 /\ held = <<>> /\ posted = <<>> /\ batch = <<>>
      /\ accepting = TRUE /\ woken = FALSE /\ fate = [d \in Data |-> "new"]
      /\ issued = {} /\ ended = {} /\ phase = "open"
  BY Zenon DEF Init
<1>2. Occupied = {} /\ Cardinality(Occupied) = 0 /\ \A g : State(g) = "gone"
  BY <1>1, NoSlots, Zenon
<1>3. /\ slot \in Seq(Slots) /\ 1..Len(slot) = {} /\ Len(slot) <= MaxCapacity
      /\ free \in Seq(Nat) /\ nextGen \in 1..(MaxGeneration + 1)
  BY <1>1, TasksAssumption
<1>4. Distinct(free) /\ \A y : ~Listed(free, y)
  BY <1>1, NoTasks, Zenon
<1>5. Table
  BY <1>1, <1>2, <1>3, <1>4, Zenon DEF Table
<1>6. Types
  BY <1>1, NoTasks, Zenon DEF Types
<1>7. ASSUME NEW x
      PROVE  /\ ~Has(queue, x) /\ ~Ends(queue, x) /\ ~Ends(held, x)
             /\ ~Carries(posted, x) /\ ~Carries(batch, x) /\ ~Carries(queue, x) /\ ~Carries(held, x)
  BY <1>1, NoTasks, Zenon
<1>8. Queue /\ Held
  <2>1. queued = Len(queue) /\ Ordered(queue) /\ OneEnd(held)
    BY <1>1, NoTasks, Zenon
  <2> QED
    BY <1>1, <1>7, <2>1, Zenon DEF Queue, Held
<1>9. Payloads
  <2>1. Single(posted) /\ Single(batch) /\ Single(queue) /\ Single(held)
    BY <1>1, NoTasks, Zenon
  <2>2. \A d \in Data : fate[d] # "owned"
    BY <1>1
  <2> QED
    BY <1>7, <2>1, <2>2, Zenon DEF Payloads, Apart
<1> QED
  BY <1>5, <1>6, <1>8, <1>9, Zenon DEF IInv

\* A step that changes nothing.
LEMMA StutterStep ==
  ASSUME IInv, UNCHANGED vars
  PROVE  IInv'
<1>1. /\ UNCHANGED <<queueVars, postVars, fate, ended, phase>>
      /\ UNCHANGED <<slot, free, live, nextGen, issued>>
  BY Zenon DEF vars, tableVars
<1>2. Table' /\ \A g : State(g)' = State(g)
  BY <1>1, TableStays, Zenon DEF IInv
<1>3. Calm
  BY <1>1, <1>2, Zenon DEF Calm
<1> QED
  BY <1>1, <1>2, <1>3, TableOnly, Zenon

\* Every step keeps the invariant.
LEMMA NextHolds == IInv /\ [Next]_vars => IInv'
<1> SUFFICES ASSUME IInv, [Next]_vars PROVE IInv'
  OBVIOUS
<1>1. ASSUME NEW h \in issued, LoopStep(h) PROVE IInv'
  BY <1>1, AbortStep, ActivateStep, BindStep, CancelStep, Zenon DEF LoopStep
<1>2. ASSUME NEW h \in issued, NEW d \in Data, NEW kind \in {"progress", "terminal"},
             Call(kind, h, d) \/ (\E ok \in BOOLEAN : Post(kind, h, d, ok))
      PROVE  IInv'
  BY <1>2, CallStep, PostStep, Zenon
<1>3. ASSUME NEW i \in 1..Len(held), TakeData(i) \/ Release(i) PROVE IInv'
  BY <1>3, TakeStep, ReleaseStep, Zenon
<1>4. ASSUME Freed \/ UNCHANGED vars PROVE IInv'
  BY <1>4, StutterStep, Zenon DEF Freed
<1>5. ASSUME Start \/ NextTask \/ Transfer \/ FreeHost PROVE IInv'
  BY <1>5, StartStep, NextTaskStep, TransferStep, FreeStep, Zenon
<1> QED
  BY <1>1, <1>2, <1>3, <1>4, <1>5, DrainStep, Zenon DEF Next

\* The inductive invariant holds throughout.
THEOREM Invariance == Spec => []IInv
<1>1. Init => IInv
  BY InitHolds
<1>2. IInv /\ [Next]_vars => IInv'
  BY NextHolds
<1> QED
  BY <1>1, <1>2, PTL DEF Spec

\* A set with at most one element.
LEMMA CountOne ==
  ASSUME NEW P, \A i, k \in P : i = k
  PROVE  Cardinality(P) = IF \E i : i \in P THEN 1 ELSE 0
<1>1. CASE \E i : i \in P
  <2>1. PICK i : i \in P
    BY <1>1, Zenon
  <2>2. P = {i}
    BY <2>1, Zenon
  <2> QED
    BY <1>1, <2>2, FS_Singleton, Zenon
<1>2. CASE ~\E i : i \in P
  <2>1. P = {}
    BY <1>2, Zenon
  <2> QED
    BY <1>2, <2>1, FS_EmptySet, Zenon
<1> QED
  BY <1>1, <1>2, Zenon

\* The cells of s are those of l and then those of r.
Joins(s, l, r) ==
  /\ \A k \in 1..Len(l) : k \in 1..Len(s) /\ s[k] = l[k]
  /\ \A k \in 1..Len(r) : Len(l) + k \in 1..Len(s) /\ s[Len(l) + k] = r[k]
  /\ \A k \in 1..Len(s) : k \in 1..Len(l) \/ (\E m \in 1..Len(r) : k = Len(l) + m)

\* Lists that carry different payloads.
Foreign(l, r) == \A d : d # NoData => ~Carries(l, d) \/ ~Carries(r, d)

\* A list after another one.
LEMMA Concatenated ==
  ASSUME NEW S, NEW l \in Seq(S), NEW r \in Seq(S), NEW s, s = l \o r
  PROVE  s \in Seq(S) /\ Joins(s, l, r)
<1>1. /\ s \in Seq(S) /\ Len(s) = Len(l) + Len(r) /\ Len(l) \in Nat /\ Len(r) \in Nat
      /\ \A k \in 1..(Len(l) + Len(r)) : s[k] = IF k <= Len(l) THEN l[k] ELSE r[k - Len(l)]
  BY ConcatCells
<1>2. /\ \A k \in 1..Len(l) : k \in 1..Len(s) /\ s[k] = l[k]
      /\ \A k \in 1..Len(r) : Len(l) + k \in 1..Len(s) /\ s[Len(l) + k] = r[k]
  BY <1>1
<1>3. ASSUME NEW k \in 1..Len(s)
      PROVE  k \in 1..Len(l) \/ (\E m \in 1..Len(r) : k = Len(l) + m)
  <2>1. CASE k <= Len(l)
    BY <1>1, <2>1
  <2>2. CASE ~(k <= Len(l))
    <3>1. k - Len(l) \in 1..Len(r) /\ k = Len(l) + (k - Len(l))
      BY <1>1, <2>2
    <3> QED
      BY <3>1, Zenon
  <2> QED
    BY <2>1, <2>2, Zenon
<1> QED
  BY <1>1, <1>2, <1>3, Zenon DEF Joins

\* Two lists with terminal tasks of different operations.
LEMMA ConcatEnds ==
  ASSUME NEW S, NEW l \in Seq(S), NEW r \in Seq(S), NEW s, s = l \o r,
         OneEnd(l), OneEnd(r), \A x : ~Ends(l, x) \/ ~Ends(r, x)
  PROVE  OneEnd(s) /\ \A x : Ends(s, x) <=> Ends(l, x) \/ Ends(r, x)
<1>1. /\ \A k \in 1..Len(l) : k \in 1..Len(s) /\ s[k] = l[k]
      /\ \A k \in 1..Len(r) : Len(l) + k \in 1..Len(s) /\ s[Len(l) + k] = r[k]
      /\ \A k \in 1..Len(s) : k \in 1..Len(l) \/ (\E m \in 1..Len(r) : k = Len(l) + m)
  <2>1. Joins(s, l, r)
    BY Concatenated, Zenon
  <2> QED
    BY <2>1, Zenon DEF Joins
<1>2. ASSUME NEW x, Ends(l, x) PROVE Ends(s, x)
  <2>1. PICK k \in 1..Len(l) : l[k].kind = "terminal" /\ l[k].op = x
    BY <1>2, Zenon DEF Ends
  <2> QED
    BY <1>1, <2>1, Zenon DEF Ends
<1>3. ASSUME NEW x, Ends(r, x) PROVE Ends(s, x)
  <2>1. PICK k \in 1..Len(r) : r[k].kind = "terminal" /\ r[k].op = x
    BY <1>3, Zenon DEF Ends
  <2>2. Len(l) + k \in 1..Len(s) /\ s[Len(l) + k] = r[k]
    BY <1>1, Zenon
  <2> QED
    BY <2>1, <2>2, Zenon DEF Ends
<1>4. ASSUME NEW k \in 1..Len(s)
      PROVE  \/ k \in 1..Len(l) /\ s[k] = l[k]
             \/ \E m \in 1..Len(r) : k = Len(l) + m /\ s[k] = r[m]
  BY <1>1, Zenon
<1>5. ASSUME NEW x, Ends(s, x) PROVE Ends(l, x) \/ Ends(r, x)
  <2>1. PICK k \in 1..Len(s) : s[k].kind = "terminal" /\ s[k].op = x
    BY <1>5, Zenon DEF Ends
  <2> QED
    BY <1>4, <2>1, Zenon DEF Ends
<1>6. ASSUME NEW i \in 1..Len(s), NEW k \in 1..Len(s), s[i].kind = "terminal", s[k].kind = "terminal",
             s[i].op = s[k].op
      PROVE  i = k
  <2>1. CASE i \in 1..Len(l) /\ s[i] = l[i]
    <3>1. Ends(l, s[i].op)
      BY <1>6, <2>1, Zenon DEF Ends
    <3>2. ASSUME NEW m \in 1..Len(r), s[k] = r[m] PROVE FALSE
      <4>1. Ends(r, s[i].op)
        BY <1>6, <3>2, Zenon DEF Ends
      <4> QED
        BY <1>6, <3>1, <4>1, Zenon
    <3>3. k \in 1..Len(l) /\ s[k] = l[k]
      BY <1>4, <3>2, Zenon
    <3> QED
      BY <1>6, <2>1, <3>3, Zenon DEF OneEnd
  <2>2. CASE \E m \in 1..Len(r) : i = Len(l) + m /\ s[i] = r[m]
    <3>1. PICK m \in 1..Len(r) : i = Len(l) + m /\ s[i] = r[m]
      BY <2>2, Zenon
    <3>2. Ends(r, s[i].op)
      BY <1>6, <3>1, Zenon DEF Ends
    <3>3. ASSUME k \in 1..Len(l), s[k] = l[k] PROVE FALSE
      <4>1. Ends(l, s[i].op)
        BY <1>6, <3>3, Zenon DEF Ends
      <4> QED
        BY <1>6, <3>2, <4>1, Zenon
    <3>4. PICK n \in 1..Len(r) : k = Len(l) + n /\ s[k] = r[n]
      BY <1>4, <3>3, Zenon
    <3>5. m = n
      BY <1>6, <3>1, <3>4, Zenon DEF OneEnd
    <3> QED
      BY <3>1, <3>4, <3>5, Zenon
  <2> QED
    BY <1>4, <2>1, <2>2, Zenon
<1>7. OneEnd(s)
  BY <1>6, Zenon DEF OneEnd
<1> QED
  BY <1>2, <1>3, <1>5, <1>7, Zenon

\* Two lists with different payloads.
LEMMA ConcatData ==
  ASSUME NEW S, NEW l \in Seq(S), NEW r \in Seq(S), NEW s, s = l \o r,
         Single(l), Single(r), Foreign(l, r)
  PROVE  Single(s) /\ \A x : Carries(s, x) <=> Carries(l, x) \/ Carries(r, x)
<1>1. /\ \A k \in 1..Len(l) : k \in 1..Len(s) /\ s[k] = l[k]
      /\ \A k \in 1..Len(r) : Len(l) + k \in 1..Len(s) /\ s[Len(l) + k] = r[k]
      /\ \A k \in 1..Len(s) : k \in 1..Len(l) \/ (\E m \in 1..Len(r) : k = Len(l) + m)
  <2>1. Joins(s, l, r)
    BY Concatenated, Zenon
  <2> QED
    BY <2>1, Zenon DEF Joins
<1>2. ASSUME NEW x, Carries(l, x) PROVE Carries(s, x)
  <2>1. PICK k \in 1..Len(l) : l[k].data = x
    BY <1>2, Zenon DEF Carries
  <2> QED
    BY <1>1, <2>1, Zenon DEF Carries
<1>3. ASSUME NEW x, Carries(r, x) PROVE Carries(s, x)
  <2>1. PICK k \in 1..Len(r) : r[k].data = x
    BY <1>3, Zenon DEF Carries
  <2>2. Len(l) + k \in 1..Len(s) /\ s[Len(l) + k] = r[k]
    BY <1>1, Zenon
  <2> QED
    BY <2>1, <2>2, Zenon DEF Carries
<1>4. ASSUME NEW k \in 1..Len(s)
      PROVE  \/ k \in 1..Len(l) /\ s[k] = l[k]
             \/ \E m \in 1..Len(r) : k = Len(l) + m /\ s[k] = r[m]
  BY <1>1, Zenon
<1>5. ASSUME NEW x, Carries(s, x) PROVE Carries(l, x) \/ Carries(r, x)
  <2>1. PICK k \in 1..Len(s) : s[k].data = x
    BY <1>5, Zenon DEF Carries
  <2> QED
    BY <1>4, <2>1, Zenon DEF Carries
<1>6. ASSUME NEW i \in 1..Len(s), NEW k \in 1..Len(s), s[i].data = s[k].data, s[i].data # NoData
      PROVE  i = k
  <2>1. CASE i \in 1..Len(l) /\ s[i] = l[i]
    <3>1. Carries(l, s[i].data)
      BY <1>6, <2>1, Zenon DEF Carries
    <3>2. ASSUME NEW m \in 1..Len(r), s[k] = r[m] PROVE FALSE
      <4>1. Carries(r, s[i].data)
        BY <1>6, <3>2, Zenon DEF Carries
      <4> QED
        BY <1>6, <3>1, <4>1, Zenon DEF Foreign
    <3>3. k \in 1..Len(l) /\ s[k] = l[k]
      BY <1>4, <3>2, Zenon
    <3> QED
      BY <1>6, <2>1, <3>3, Zenon DEF Single
  <2>2. CASE \E m \in 1..Len(r) : i = Len(l) + m /\ s[i] = r[m]
    <3>1. PICK m \in 1..Len(r) : i = Len(l) + m /\ s[i] = r[m]
      BY <2>2, Zenon
    <3>2. Carries(r, s[i].data)
      BY <1>6, <3>1, Zenon DEF Carries
    <3>3. ASSUME k \in 1..Len(l), s[k] = l[k] PROVE FALSE
      <4>1. Carries(l, s[i].data)
        BY <1>6, <3>3, Zenon DEF Carries
      <4> QED
        BY <1>6, <3>2, <4>1, Zenon DEF Foreign
    <3>4. PICK n \in 1..Len(r) : k = Len(l) + n /\ s[k] = r[n]
      BY <1>4, <3>3, Zenon
    <3>5. m = n
      BY <1>6, <3>1, <3>4, Zenon DEF Single
    <3> QED
      BY <3>1, <3>4, <3>5, Zenon
  <2> QED
    BY <1>4, <2>1, <2>2, Zenon
<1>7. Single(s)
  BY <1>6, Zenon DEF Single
<1> QED
  BY <1>2, <1>3, <1>5, <1>7, Zenon

\* A handle resolves when its operation is in some state.
LEMMA StateResolves ==
  ASSUME Table, NEW h \in Handles
  PROVE  /\ Resolves(h) <=> State(h) # "gone"
         /\ InState(h, {"queued"}) <=> State(h) = "queued"
<1>1. CASE Resolves(h)
  <2>1. State(h) \in {"starting", "active", "queued"} /\ State(h) = slot[h[1]].state
    BY <1>1, ResolvesIssued, Zenon DEF State
  <2> QED
    BY <1>1, <2>1 DEF InState
<1>2. CASE ~Resolves(h)
  BY <1>2 DEF State, InState
<1> QED
  BY <1>1, <1>2, Zenon

\* The invariant says that handles are exact.
LEMMA HandlesFollow == IInv => HandlesExact
<1> SUFFICES ASSUME IInv PROVE HandlesExact
  OBVIOUS
<1>1. /\ Table /\ issued \subseteq Handles /\ ended \subseteq issued
      /\ queue \in Seq(Tasks) /\ held \in Seq(Tasks)
  BY Zenon DEF IInv, Table, Types
<1>2. live = Cardinality({i \in 1..Len(slot) : slot[i].occupied})
  BY <1>1, Zenon DEF Table, Occupied
<1>3. \A i \in 1..Len(slot) : slot[i].occupied = ~Listed(free, i)
  <2>1. TAKE i \in 1..Len(slot)
  <2>2. slot[i] \in Slots
    BY <1>1 DEF Table
  <2>3. slot[i].occupied \in BOOLEAN
    BY <2>2 DEF Slots
  <2>4. slot[i].occupied <=> ~Listed(free, i)
    BY <1>1, Zenon DEF Table
  <2> QED
    BY <2>3, <2>4, Zenon
<1>4. ASSUME NEW h \in issued, NEW g \in issued, Resolves(h), Resolves(g), h[1] = g[1]
      PROVE  h = g
  BY <1>1, <1>4, OneHandle, Zenon
<1>5. ASSUME NEW h \in issued, h \in ended, Resolves(h) PROVE Ends(held, h)
  BY <1>1, <1>5, StateResolves, Zenon DEF IInv, Held
<1>6. ASSUME NEW h \in issued, Resolves(h) PROVE slot[h[1]].owner \in {NoOwner, h[2]}
  BY <1>1, <1>6, Zenon DEF Table, Resolves
<1>7. ASSUME NEW i \in 1..Len(queue) PROVE Resolves(queue[i].op)
  <2>1. PICK h : h = queue[i].op
    BY Zenon
  <2>2. Has(queue, h)
    BY <2>1, Zenon DEF Has
  <2>3. h \in Handles /\ State(h) \in {"active", "queued"}
    BY <1>1, <2>2, Zenon DEF IInv, Queue
  <2>4. State(h) # "gone"
    BY <2>3
  <2> QED
    BY <1>1, <2>1, <2>3, <2>4, StateResolves, Zenon
<1>8. ASSUME NEW i \in 1..Len(held), held[i].kind = "terminal"
      PROVE  InState(held[i].op, {"queued"})
  <2>1. PICK h : h = held[i].op
    BY Zenon
  <2>2. Ends(held, h)
    BY <1>8, <2>1, Zenon DEF Ends
  <2>3. h \in Handles /\ State(h) = "queued"
    BY <1>1, <2>2, Zenon DEF IInv, Held
  <2> QED
    BY <1>1, <2>1, <2>3, StateResolves, Zenon
<1>9. queued = Len(queue) /\ Distinct(free)
  BY Zenon DEF IInv, Queue, Table
<1> QED
  BY <1>2, <1>3, <1>4, <1>5, <1>6, <1>7, <1>8, <1>9, Zenon DEF HandlesExact, Ends

\* A handle reaches its own operation only, and no slot is lost or handed out twice
\* (mal_host_operation_slot, _start, _retire).
THEOREM HandlesHold == Spec => []HandlesExact
BY Invariance, HandlesFollow, PTL

\* The invariant bounds the terminal tasks.
LEMMA TerminalFollows == IInv => TerminalIsLast
<1> SUFFICES ASSUME IInv PROVE TerminalIsLast
  OBVIOUS
<1>1. /\ Table /\ issued \subseteq Handles /\ ended \subseteq issued
      /\ queue \in Seq(Tasks) /\ held \in Seq(Tasks) /\ OneEnd(held) /\ Ordered(queue)
  BY Zenon DEF IInv, Table, Types, Held, Queue
<1>2. \A h : Ends(queue, h) => h \in issued /\ h \notin ended /\ State(h) = "queued"
  BY EndsHas, Zenon DEF IInv, Queue
<1>3. \A h : Ends(held, h) => h \in ended /\ State(h) = "queued"
  BY Zenon DEF IInv, Held
<1>4. OneEnd(queue)
  <2>1. SUFFICES ASSUME NEW i \in 1..Len(queue), NEW k \in 1..Len(queue), i # k,
                        queue[i].kind = "terminal", queue[k].kind = "terminal",
                        queue[i].op = queue[k].op
                 PROVE  FALSE
    BY Zenon DEF OneEnd
  <2>2. k < i /\ i < k
    BY <1>1, <2>1, Zenon DEF Ordered
  <2> QED
    BY <1>1, <2>2
<1>5. PICK s : s = queue \o held
  BY Zenon
<1>6. OneEnd(s) /\ \A h : Ends(s, h) <=> Ends(queue, h) \/ Ends(held, h)
  BY <1>1, <1>2, <1>3, <1>4, <1>5, ConcatEnds, Zenon
<1>7. ASSUME NEW h \in issued,
             NEW T, T = {i \in 1..Len(s) : s[i].kind = "terminal" /\ s[i].op = h}
      PROVE  Cardinality(T) = IF InState(h, {"queued"}) THEN 1 ELSE 0
  <2>1. \A i, k \in T : i = k
    BY <1>6, <1>7, Zenon DEF OneEnd
  <2>2. (\E i : i \in T) <=> Ends(s, h)
    BY <1>7, Zenon DEF Ends
  <2>3. State(h) = "queued" => Ends(s, h)
    <3>1. CASE h \in ended
      <4>1. State(h) = "queued" => State(h) # "gone"
        OBVIOUS
      <4> QED
        BY <1>6, <3>1, <4>1, Zenon DEF IInv, Held
    <3>2. CASE h \notin ended
      BY <1>6, <3>2, Zenon DEF IInv, Queue
    <3> QED
      BY <3>1, <3>2, Zenon
  <2>4. Ends(s, h) <=> InState(h, {"queued"})
    BY <1>1, <1>2, <1>3, <1>6, <2>3, StateResolves, Zenon
  <2>5. Cardinality(T) = IF \E i : i \in T THEN 1 ELSE 0
    BY <2>1, CountOne, Zenon
  <2> QED
    BY <2>2, <2>4, <2>5, Zenon
<1>8. \A h \in issued :
        Cardinality({i \in 1..Len(s) : s[i].kind = "terminal" /\ s[i].op = h})
          = IF InState(h, {"queued"}) THEN 1 ELSE 0
  BY <1>7, Zenon
<1> QED
  BY <1>1, <1>5, <1>8, Zenon DEF TerminalIsLast, Ordered

\* An operation has one terminal task from the call that ended it to its release, and nothing
\* of it follows (mal_host_operation_complete, _cancel, mal_host_task_release).
THEOREM TerminalHolds == Spec => []TerminalIsLast
BY Invariance, TerminalFollows, PTL

\* The invariant places every payload.
LEMMA PayloadFollows == IInv => PayloadOnce
<1> SUFFICES ASSUME IInv PROVE PayloadOnce
  OBVIOUS
<1>1. /\ queue \in Seq(Tasks) /\ held \in Seq(Tasks) /\ posted \in Seq(Tasks) /\ batch \in Seq(Tasks)
      /\ Single(posted) /\ Single(batch) /\ Single(queue) /\ Single(held)
      /\ \A d \in Data : Apart(d)
  BY Zenon DEF IInv, Types, Payloads
<1>2. ASSUME NEW s \in Seq(Tasks), NEW d, Carries(s, d), d # NoData PROVE d \in Data
  <2>1. PICK i \in 1..Len(s) : s[i].data = d
    BY <1>2, Zenon DEF Carries
  <2>2. s[i] \in Tasks
    BY <2>1
  <2> QED
    BY <1>2, <2>1, <2>2 DEF Tasks
<1>3. PICK a : a = posted \o batch
  BY Zenon
<1>4. /\ a \in Seq(Tasks) /\ Single(a)
      /\ \A d : Carries(a, d) <=> Carries(posted, d) \/ Carries(batch, d)
  <2>1. Foreign(posted, batch)
    BY <1>1, <1>2, Zenon DEF Apart, Foreign
  <2>2. a \in Seq(Tasks)
    BY <1>1, <1>3, Concatenated, Zenon
  <2> QED
    BY <1>1, <1>3, <2>1, <2>2, ConcatData, Zenon
<1>5. PICK b : b = a \o queue
  BY Zenon
<1>6. /\ b \in Seq(Tasks) /\ Single(b)
      /\ \A d : Carries(b, d) <=> Carries(a, d) \/ Carries(queue, d)
  <2>1. Foreign(a, queue)
    BY <1>1, <1>2, <1>4, Zenon DEF Apart, Foreign
  <2>2. b \in Seq(Tasks)
    BY <1>1, <1>4, <1>5, Concatenated, Zenon
  <2>3. a \in Seq(Tasks) /\ queue \in Seq(Tasks) /\ Single(a) /\ Single(queue)
    BY <1>1, <1>4, Zenon
  <2> QED
    BY <1>5, <2>1, <2>2, <2>3, ConcatData, Zenon
<1>7. PICK s : s = b \o held
  BY Zenon
<1>8. /\ s \in Seq(Tasks) /\ Single(s)
      /\ \A d : Carries(s, d) <=> Carries(b, d) \/ Carries(held, d)
  <2>1. Foreign(b, held)
    BY <1>1, <1>2, <1>4, <1>6, Zenon DEF Apart, Foreign
  <2>2. s \in Seq(Tasks)
    BY <1>1, <1>6, <1>7, Concatenated, Zenon
  <2>3. b \in Seq(Tasks) /\ held \in Seq(Tasks) /\ Single(b) /\ Single(held)
    BY <1>1, <1>6, Zenon
  <2> QED
    BY <1>7, <2>1, <2>2, <2>3, ConcatData, Zenon
<1>9. Places = s
  BY <1>3, <1>5, <1>7, Zenon DEF Places
<1>10. ASSUME NEW d \in Data, NEW P, P = {i \in 1..Len(s) : s[i].data = d}
       PROVE  Cardinality(P) = IF fate[d] = "owned" THEN 1 ELSE 0
  <2>1. d # NoData
    BY TasksAssumption, Zenon
  <2>2. \A i, k \in P : i = k
    BY <1>8, <1>10, <2>1, Zenon DEF Single
  <2>3. (\E i : i \in P) <=> Carries(s, d)
    BY <1>10, Zenon DEF Carries
  <2>4. Carries(s, d) <=> fate[d] = "owned"
    BY <1>1, <1>4, <1>6, <1>8, Zenon DEF Apart
  <2>5. Cardinality(P) = IF \E i : i \in P THEN 1 ELSE 0
    BY <2>2, CountOne, Zenon
  <2> QED
    BY <2>3, <2>4, <2>5, Zenon
<1>11. \A d \in Data : Cardinality({i \in 1..Len(s) : s[i].data = d})
                         = IF fate[d] = "owned" THEN 1 ELSE 0
  BY <1>10, Zenon
<1> QED
  BY <1>9, <1>11, Zenon DEF PayloadOnce

\* A payload the host accepted is in one place, and no other payload is anywhere: none is
\* destroyed twice, or leaked by a refused transfer (mal_host_posted_push,
\* mal_host_posted_transfer, mal_host_operation_cancel, mal_host_task_release).
THEOREM PayloadsHold == Spec => []PayloadOnce
BY Invariance, PayloadFollows, PTL

\* The invariant types the variables.
LEMMA TypesFollow == IInv => TypeOK
<1> SUFFICES ASSUME IInv PROVE TypeOK
  OBVIOUS
<1>1. Table /\ Types
  BY Zenon DEF IInv
<1>2. \A i \in 1..Len(slot) : slot[i] \in Slots
  BY <1>1 DEF Table
<1>3. \A i \in 1..Len(free) : free[i] \in 1..Len(slot)
  BY <1>1, Zenon DEF Table, Listed
<1>4. live \in 0..MaxGeneration
  <2> DEFINE f == [i \in Occupied |-> slot[i].gen]
  <2>1. \A i \in Occupied : <<i, slot[i].gen>> \in issued /\ slot[i].gen \in Generations
    <3>1. TAKE i \in Occupied
    <3>2. <<i, slot[i].gen>> \in issued
      BY <1>1, Zenon DEF Table, Occupied
    <3>3. <<i, slot[i].gen>> \in Handles
      BY <1>1, <3>2, Zenon DEF Table
    <3> QED
      BY <3>2, <3>3 DEF Handles
  <2>2. f \in [Occupied -> Generations]
    BY <2>1, Zenon
  <2>3. ASSUME NEW i \in Occupied, NEW k \in Occupied, f[i] = f[k] PROVE i = k
    <3>1. slot[i].gen = slot[k].gen
      BY <2>3, Zenon
    <3>2. PICK g, h : g = <<i, slot[i].gen>> /\ h = <<k, slot[k].gen>>
      BY Zenon
    <3>3. g \in issued /\ h \in issued /\ g[2] = h[2] /\ g[1] = i /\ h[1] = k
      BY <2>1, <3>1, <3>2
    <3>4. g = h
      BY <1>1, <3>3, Zenon DEF Table
    <3> QED
      BY <3>3, <3>4, Zenon
  <2>4. f \in Injection(Occupied, Generations)
    BY <2>2, <2>3, Zenon DEF Injection, IsInjective
  <2>5. IsFiniteSet(Generations) /\ Cardinality(Generations) = MaxGeneration
    BY IntervalSize, TasksAssumption, Zenon DEF Generations
  <2> HIDE DEF f
  <2>6. Cardinality(Occupied) <= MaxGeneration
    BY <2>4, <2>5, FS_Injection, Zenon
  <2>7. Cardinality(Occupied) \in Nat /\ live = Cardinality(Occupied)
    BY <1>1, OccupiedFinite, Zenon DEF Table
  <2> QED
    BY <2>6, <2>7, TasksAssumption
<1>5. Places \in Seq(Tasks)
  <2>1. posted \o batch \in Seq(Tasks)
    BY <1>1, Concatenated, Zenon DEF Types
  <2>2. posted \o batch \o queue \in Seq(Tasks)
    BY <1>1, <2>1, Concatenated, Zenon DEF Types
  <2>3. PICK b : b = posted \o batch \o queue
    BY Zenon
  <2>4. b \o held \in Seq(Tasks)
    BY <1>1, <2>2, <2>3, Concatenated, Zenon DEF Types
  <2> QED
    BY <2>3, <2>4, Zenon DEF Places
<1>6. \A i \in 1..Len(Places) : Places[i] \in Tasks
  BY <1>5
<1>7. queued \in Nat
  <2>1. queued = Len(queue) /\ queue \in Seq(Tasks)
    BY Zenon DEF IInv, Queue, Types
  <2> QED
    BY <2>1
<1>8. ended \subseteq Handles
  BY <1>1, Zenon DEF Table, Types
<1> QED
  BY <1>1, <1>2, <1>3, <1>4, <1>6, <1>7, <1>8, Zenon
  DEF TypeOK, Slots, States, Tasks, Table, Types

\* The variables keep their types, and no more operations are live than generations issued.
THEOREM TypesHold == Spec => []TypeOK
BY Invariance, TypesFollow, PTL
=============================================================================
