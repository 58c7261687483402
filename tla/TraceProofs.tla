---- MODULE TraceProofs ----
(***************************************************************************)
(* `status -vvvv` of a Condor campaign, for any jobs, logs and losses: a   *)
(* timeline labeled as complete is the history of its job, and the         *)
(* reader's cases exclude each other and leave no attempt out.             *)
(***************************************************************************)
EXTENDS ExecutionTrace, FiniteSetTheorems, SequenceTheorems, WellFoundedInduction, TLAPS

----
(* The loop over the events of a job                                       *)

(* What the loop has after position i when it had acc before.              *)
ReadOne(j, i, acc) == IF i \in JobEvents(j) THEN AddEvent(acc, log[GenOf[j]][i]) ELSE acc

(* Before the first event.                                                 *)
Unread == [runs |-> <<>>, open |-> FALSE]

(* read is a reading of the events of j up to position n.                  *)
Reads(j, n, read) ==
  read = [i \in 0 .. n |-> IF i = 0 THEN Unread ELSE ReadOne(j, i, read[i - 1])]

(* The recursion of the loop has a solution: a least position without one  *)
(* would have a solution up to the position before, which extends by one   *)
(* step.                                                                   *)
LEMMA ReadingExists ==
  ASSUME NEW j \in Job, Len(log[GenOf[j]]) \in Nat
  PROVE  Reads(j, Len(log[GenOf[j]]), Reading(j))
<1> DEFINE Readable == {n \in Nat : \E read : Reads(j, n, read)}
<1>1. 0 \in Readable
  <2> DEFINE r == [i \in 0 .. 0 |-> Unread]
  <2>1. r = [i \in 0 .. 0 |-> IF i = 0 THEN Unread ELSE ReadOne(j, i, r[i - 1])]
    OBVIOUS
  <2>2. Reads(j, 0, r)
    BY <2>1 DEF Reads
  <2> QED
    BY <2>2
<1>2. ASSUME NEW n \in Nat \ {0}, n - 1 \in Readable
      PROVE  n \in Readable
  <2>1. PICK r : Reads(j, n - 1, r)
    BY <1>2
  <2> DEFINE s == [i \in 0 .. n |-> IF i = n THEN ReadOne(j, n, r[n - 1]) ELSE r[i]]
  <2>2. \A i \in 0 .. n : s[i] = IF i = 0 THEN Unread ELSE ReadOne(j, i, s[i - 1])
    <3> SUFFICES ASSUME NEW i \in 0 .. n
                 PROVE  s[i] = IF i = 0 THEN Unread ELSE ReadOne(j, i, s[i - 1])
      OBVIOUS
    <3>1. CASE i = n
      <4>1. s[i - 1] = r[n - 1] /\ s[i] = ReadOne(j, n, r[n - 1]) /\ i # 0
        BY <3>1
      <4> QED
        BY <3>1, <4>1
    <3>2. CASE i # n /\ i # 0
      <4>1. i \in 0 .. n - 1 /\ i - 1 \in 0 .. n /\ i - 1 # n
        BY <3>2
      <4>2. s[i] = r[i] /\ s[i - 1] = r[i - 1]
        BY <3>2, <4>1
      <4>3. r[i] = IF i = 0 THEN Unread ELSE ReadOne(j, i, r[i - 1])
        BY <2>1, <4>1 DEF Reads
      <4> QED
        BY <4>2, <4>3
    <3>3. CASE i # n /\ i = 0
      <4>1. i \in 0 .. n - 1
        BY <3>3
      <4>2. r[i] = Unread
        BY <2>1, <3>3, <4>1 DEF Reads
      <4> QED
        BY <3>3, <4>2
    <3> QED
      BY <3>1, <3>2, <3>3
  <2>3. Reads(j, n, s)
    <3> SUFFICES s = [i \in 0 .. n |-> IF i = 0 THEN Unread ELSE ReadOne(j, i, s[i - 1])]
      BY DEF Reads
    <3>1. s = [i \in 0 .. n |-> s[i]]
      OBVIOUS
    <3> HIDE DEF s
    <3> QED
      BY <2>2, <3>1, Zenon
  <2> QED
    BY <2>3
<1>3. Nat \subseteq Readable
  <2> SUFFICES ASSUME Nat \ Readable # {} PROVE FALSE
    OBVIOUS
  <2>1. PICK n \in Nat \ Readable : \A m \in Nat \ Readable : <<m, n>> \notin OpToRel(<, Nat)
    <3> HIDE DEF Readable
    <3> QED
      BY WFMin, NatLessThanWellFounded
  <2>2. \A m \in Nat \ Readable : ~(m < n)
    <3> HIDE DEF Readable
    <3> QED
      BY <2>1 DEF OpToRel
  <2>3. n \in Nat \ {0} /\ n - 1 \in Readable
    <3> HIDE DEF Readable
    <3> QED
      BY <1>1, <2>2
  <2> QED
    BY <1>2, <2>1, <2>3
<1>4. Reading(j) = CHOOSE read : Reads(j, Len(log[GenOf[j]]), read)
  BY DEF Reading, Reads, ReadOne, Unread
<1> QED
  <2> HIDE DEF Readable
  <2>1. \E read : Reads(j, Len(log[GenOf[j]]), read)
    <3> USE DEF Readable
    <3> QED
      BY <1>3
  <2> QED
    BY <1>4, <2>1

----
(* The events of a job                                                     *)

(* The log j writes to, and where the events of j are in it.               *)
LogOf(j) == log[GenOf[j]]
Places(j) == {i \in 1 .. Len(LogOf(j)) : LogOf(j)[i].job = j}
Execs(j) == {i \in Places(j) : LogOf(j)[i].kind = "execute"}
Ends(j) == {i \in Places(j) : LogOf(j)[i].kind = "end"}

(* From its submission on, every event of j is there and readable.         *)
Whole(j) ==
  /\ \E i \in Places(j) : LogOf(j)[i].kind = "submit"
  /\ \A i \in Places(j) : LogOf(j)[i].kind # "garbled"

(* The starts of j are numbered in order and without a gap; an end is that *)
(* of the last start before it, or of none, and then every start before it *)
(* has ended.                                                              *)
InOrder(j) ==
  /\ \A i, k \in Execs(j) : i < k => LogOf(j)[i].start < LogOf(j)[k].start
  /\ \A i \in Execs(j) :
       /\ LogOf(j)[i].start # 0
       /\ LogOf(j)[i].start # 1 =>
            \E k \in Execs(j) : k < i /\ LogOf(j)[k].start + 1 = LogOf(j)[i].start
  /\ \A i \in Ends(j) : LogOf(j)[i].start # 0 =>
       /\ \E k \in Execs(j) : k < i /\ LogOf(j)[k].start = LogOf(j)[i].start
       /\ \A k \in Execs(j) : k < i => LogOf(j)[k].start <= LogOf(j)[i].start
  /\ \A i \in Ends(j) : LogOf(j)[i].start = 0 =>
       \A k \in Execs(j) : k < i => \E m \in Ends(j) : k < m /\ m < i

(* The log is up to date: its last start is the last start of j, and it    *)
(* has ended unless j runs.                                                *)
Current(j) ==
  /\ starts[j] # 0 => \E k \in Execs(j) : LogOf(j)[k].start = starts[j]
  /\ \A k \in Execs(j) : LogOf(j)[k].start <= starts[j]
  /\ j \notin running => \A k \in Execs(j) : \E m \in Ends(j) : k < m

(* The submission comes first, and nothing before it.                      *)
SubmitFirst(j) == \A i, k \in Places(j) : LogOf(j)[i].kind = "submit" => i <= k
Unsubmitted(j) ==
  written[j] = 0 => Places(j) = {} /\ starts[j] = 0 /\ j \notin running \cup listed \cup held

JobInv(j) == SubmitFirst(j) /\ Unsubmitted(j) /\ (Whole(j) => InOrder(j) /\ Current(j))

LogTypes ==
  /\ log \in [Generation -> Seq(Event)]
  /\ cut \in [Generation -> Nat]
  /\ written \in [Job -> Nat]
  /\ starts \in [Job -> Nat]
  /\ running \subseteq {j \in Job : starts[j] > 0}

LogInv == LogTypes /\ \A j \in Job : JobInv(j)

(* Types of the events of j.                                               *)
LEMMA PlaceTypes ==
  ASSUME LogTypes, NEW j \in Job
  PROVE  /\ LogOf(j) \in Seq(Event) /\ Len(LogOf(j)) \in Nat
         /\ \A i \in Places(j) :
              i \in Nat \ {0} /\ LogOf(j)[i] \in Event /\ LogOf(j)[i].start \in Nat
<1>1. LogOf(j) \in Seq(Event)
  BY TraceAssumption DEF LogTypes, LogOf
<1>2. \A i \in 1 .. Len(LogOf(j)) : LogOf(j)[i] \in Event
  BY <1>1
<1> QED
  BY <1>1, <1>2 DEF Places, Event

(* The events of j afterwards are those from position n + 1 on.            *)
Shifted(j, n) ==
  \A i \in Nat \ {0} :
    /\ i \in Places(j)' <=> i + n \in Places(j)
    /\ i \in Places(j)' => LogOf(j)'[i] = LogOf(j)[i + n]

(* Losing the oldest events of a job, or none, keeps what is known of it:  *)
(* with its submission all its events are still there.                     *)
LEMMA ShiftKeeps ==
  ASSUME LogTypes, LogTypes', NEW j \in Job, JobInv(j), NEW n \in Nat, Shifted(j, n),
         written'[j] = written[j], starts'[j] = starts[j], j \in running' <=> j \in running,
         j \in listed' => j \in listed, j \in held' => j \in held
  PROVE  JobInv(j)'
<1> DEFINE L == LogOf(j)
           P == Places(j)
<1>1. \A i \in P' : i \in Nat \ {0} /\ i + n \in P /\ L'[i] = L[i + n]
  <2>1. LogOf(j)' \in Seq(Event)
    BY TraceAssumption DEF LogTypes, LogOf
  <2>2. P' \subseteq Nat \ {0}
    BY <2>1 DEF Places
  <2> QED
    BY <2>2 DEF Shifted
<1>2. ASSUME NEW i \in P
      PROVE  i \in Nat \ {0} /\ (i > n => i - n \in P')
  <2>1. i \in Nat \ {0}
    BY PlaceTypes
  <2>2. i > n => i - n \in Nat \ {0} /\ (i - n) + n = i
    BY <2>1
  <2> QED
    BY <2>1, <2>2 DEF Shifted
<1>3. SubmitFirst(j)'
  BY <1>1 DEF JobInv, SubmitFirst
<1>4. Unsubmitted(j)'
  BY <1>1 DEF JobInv, Unsubmitted
<1>5. ASSUME Whole(j)'
      PROVE  InOrder(j)' /\ Current(j)'
  <2>1. PICK s \in P' : L'[s].kind = "submit"
    BY <1>5 DEF Whole
  <2>2. \A i \in P : i > n
    BY <1>1, <1>2, <2>1 DEF JobInv, SubmitFirst
  <2>3. \A i \in P : i - n \in P' /\ L'[i - n] = L[i]
    BY <1>1, <1>2, <2>2
  <2>4. Whole(j)
    BY <1>1, <1>5, <2>1, <2>3 DEF Whole
  <2>5. InOrder(j) /\ Current(j)
    BY <2>4 DEF JobInv
  <2>6. \A i \in Nat \ {0} : /\ i \in Execs(j)' <=> i + n \in Execs(j)
                             /\ i \in Ends(j)' <=> i + n \in Ends(j)
    BY <1>1 DEF Shifted, Execs, Ends
  <2>7. \A i \in Execs(j)' \cup Ends(j)' :
          i \in Nat \ {0} /\ i + n \in Execs(j) \cup Ends(j) /\ L'[i] = L[i + n]
    BY <1>1, <2>6 DEF Execs, Ends
  <2>8. \A i \in Execs(j) \cup Ends(j) : i \in Nat \ {0} /\ i - n \in Nat \ {0} /\ L'[i - n] = L[i]
    BY <1>2, <2>2, <2>3 DEF Execs, Ends
  <2>9. \A i \in Execs(j) : i - n \in Execs(j)'
    BY <2>6, <2>8
  <2>10. \A i \in Ends(j) : i - n \in Ends(j)'
    BY <2>6, <2>8
  <2> HIDE DEF L, P
  <2>11. Current(j)'
    BY <2>5, <2>6, <2>7, <2>8, <2>9, <2>10 DEF Current, L
  <2>12. InOrder(j)'
    <3>1. \A i \in Execs(j)' \cup Ends(j)' : L'[i].start = L[i + n].start
      BY <2>7
    <3>2. \A i \in Execs(j) \cup Ends(j) : L'[i - n].start = L[i].start /\ (i - n) + n = i
      BY <2>8
    <3>3. \A i, k \in Execs(j)' : i < k => L'[i].start < L'[k].start
      BY <2>5, <2>6, <2>7, <3>1 DEF InOrder, L
    <3>4. ASSUME NEW i \in Execs(j)'
          PROVE  /\ L'[i].start # 0
                 /\ L'[i].start # 1 =>
                      \E k \in Execs(j)' : k < i /\ L'[k].start + 1 = L'[i].start
      <4>1. i + n \in Execs(j) /\ i \in Nat /\ L'[i].start = L[i + n].start
        BY <2>6, <2>7, <3>1
      <4>2. ASSUME L'[i].start # 1
            PROVE  \E k \in Execs(j)' : k < i /\ L'[k].start + 1 = L'[i].start
        <5>1. PICK k \in Execs(j) : k < i + n /\ L[k].start + 1 = L[i + n].start
          BY <2>5, <4>1, <4>2 DEF InOrder, L
        <5>2. k - n \in Execs(j)' /\ k - n < i /\ L'[k - n].start = L[k].start
          BY <2>8, <2>9, <3>2, <4>1, <5>1
        <5> QED
          BY <4>1, <5>1, <5>2
      <4> QED
        BY <2>5, <4>1, <4>2 DEF InOrder, L
    <3>5. ASSUME NEW i \in Ends(j)', L'[i].start # 0
          PROVE  /\ \E k \in Execs(j)' : k < i /\ L'[k].start = L'[i].start
                 /\ \A k \in Execs(j)' : k < i => L'[k].start <= L'[i].start
      <4>1. i + n \in Ends(j) /\ i \in Nat /\ L'[i].start = L[i + n].start
        BY <2>6, <2>7, <3>1
      <4>2. PICK k \in Execs(j) : k < i + n /\ L[k].start = L[i + n].start
        BY <2>5, <3>5, <4>1 DEF InOrder, L
      <4>3. k - n \in Execs(j)' /\ k - n < i /\ L'[k - n].start = L[k].start
        BY <2>8, <2>9, <3>2, <4>1, <4>2
      <4>4. ASSUME NEW e \in Execs(j)', e < i
            PROVE  L'[e].start <= L'[i].start
        <5>1. e + n \in Execs(j) /\ e + n < i + n /\ L'[e].start = L[e + n].start
          BY <2>6, <2>7, <3>1, <4>1, <4>4
        <5> QED
          BY <2>5, <3>5, <4>1, <5>1 DEF InOrder, L
      <4> QED
        BY <4>1, <4>2, <4>3, <4>4
    <3>6. ASSUME NEW i \in Ends(j)', L'[i].start = 0, NEW k \in Execs(j)', k < i
          PROVE  \E m \in Ends(j)' : k < m /\ m < i
      <4>1. /\ i + n \in Ends(j) /\ i \in Nat /\ L'[i].start = L[i + n].start
            /\ k + n \in Execs(j) /\ k \in Nat /\ k + n < i + n
        BY <2>6, <2>7, <3>1, <3>6
      <4>2. PICK m \in Ends(j) : k + n < m /\ m < i + n
        BY <2>5, <3>6, <4>1 DEF InOrder, L
      <4> QED
        BY <2>8, <2>10, <4>1, <4>2
    <3> QED
      BY <3>3, <3>4, <3>5, <3>6 DEF InOrder, L
  <2> QED
    BY <2>11, <2>12
<1> QED
  BY <1>3, <1>4, <1>5 DEF JobInv

(* The event w of j written at the end of its log.                         *)
Wrote(j, w) ==
  /\ Places(j)' = Places(j) \cup {Len(LogOf(j)) + 1}
  /\ \A i \in Places(j) : i < Len(LogOf(j)) + 1 /\ LogOf(j)'[i] = LogOf(j)[i]
  /\ LogOf(j)'[Len(LogOf(j)) + 1] = w
  /\ written'[j] # 0

(* Write puts an event at the end of one log; the events of other jobs     *)
(* stay where they are.                                                    *)
LEMMA WriteEffect ==
  ASSUME LogTypes, NEW j \in Job, NEW kind \in EventKind, NEW n \in Nat, Write(j, kind, n)
  PROVE  /\ Wrote(j, [job |-> j, kind |-> kind, start |-> n])
         /\ \A k \in Job \ {j} : Shifted(k, 0) /\ written'[k] = written[k]
         /\ log' \in [Generation -> Seq(Event)] /\ written' \in [Job -> Nat]
<1> DEFINE w == [job |-> j, kind |-> kind, start |-> n]
<1>1. w \in Event /\ w.job = j
  BY DEF Event
<1>2. log' = [log EXCEPT ![GenOf[j]] = Append(log[GenOf[j]], w)]
  BY DEF Write
<1> HIDE DEF w
<1>3. \A k \in Job : GenOf[k] \in Generation /\ LogOf(k) \in Seq(Event) /\ Len(LogOf(k)) \in Nat
  BY PlaceTypes, TraceAssumption
<1>4. /\ LogOf(j)' = Append(LogOf(j), w)
      /\ log' \in [Generation -> Seq(Event)]
  BY <1>1, <1>2, <1>3 DEF LogTypes, LogOf
<1>5. /\ Len(LogOf(j)') = Len(LogOf(j)) + 1
      /\ \A i \in 1 .. Len(LogOf(j)) : LogOf(j)'[i] = LogOf(j)[i]
      /\ LogOf(j)'[Len(LogOf(j)) + 1] = w
  BY <1>1, <1>3, <1>4
<1>6. /\ written' \in [Job -> Nat] /\ written'[j] # 0
      /\ \A k \in Job \ {j} : written'[k] = written[k]
  BY DEF Write, LogTypes
<1>7. Wrote(j, w)
  BY <1>1, <1>3, <1>5, <1>6 DEF Wrote, Places
<1>8. ASSUME NEW k \in Job \ {j}
      PROVE  Shifted(k, 0)
  <2>1. CASE GenOf[k] # GenOf[j]
    <3>1. LogOf(k)' = LogOf(k)
      BY <1>2, <1>3, <2>1 DEF LogTypes, LogOf
    <3> QED
      BY <1>3, <3>1 DEF Shifted, Places
  <2>2. CASE GenOf[k] = GenOf[j]
    <3>1. LogOf(k) = LogOf(j) /\ LogOf(k)' = LogOf(j)'
      BY <2>2 DEF LogOf
    <3>2. \A i \in 1 .. Len(LogOf(k)') : i \in 1 .. Len(LogOf(k)) \/ LogOf(k)'[i].job = j
      BY <1>1, <1>3, <1>5, <3>1
    <3> QED
      BY <1>3, <1>5, <3>1, <3>2 DEF Shifted, Places
  <2> QED
    BY <2>1, <2>2
<1> QED
  BY <1>4, <1>6, <1>7, <1>8 DEF w

(* What an event of j that was written says of its log: order is kept if   *)
(* the new event is in order.                                              *)
LEMMA OwnEvent ==
  ASSUME LogTypes, NEW j \in Job, JobInv(j), NEW w \in Event, Wrote(j, w),
         w.kind # "submit" \/ Places(j) = {},
         starts'[j] = starts[j] \/ w.kind = "execute",
         starts'[j] \in Nat,
         w.kind = "execute" => w.start = starts[j] + 1 /\ starts'[j] = w.start /\ j \in running',
         w.kind = "end" => /\ j \notin running'
                           /\ w.start # 0 => w.start = starts[j]
                           /\ w.start = 0 => j \notin running,
         w.kind \notin {"execute", "end"} => (j \in running <=> j \in running'),
         w.kind = "submit" => starts[j] = 0
  PROVE  JobInv(j)'
<1> DEFINE L == LogOf(j)
           z == Len(L) + 1
<1>1. /\ \A i \in Places(j) : i \in Nat \ {0} /\ i < z /\ L'[i] = L[i] /\ L[i].start \in Nat
      /\ z \in Nat /\ L'[z] = w /\ Places(j)' = Places(j) \cup {z} /\ w.start \in Nat
      /\ starts[j] \in Nat
  <2>1. Len(L) \in Nat /\ \A i \in Places(j) : i \in Nat \ {0} /\ L[i].start \in Nat
    BY PlaceTypes
  <2>2. w.start \in Nat /\ starts[j] \in Nat
    BY DEF Event, LogTypes
  <2> QED
    BY <2>1, <2>2 DEF Wrote
<1>2. /\ Execs(j)' = Execs(j) \cup {i \in {z} : w.kind = "execute"}
      /\ Ends(j)' = Ends(j) \cup {i \in {z} : w.kind = "end"}
      /\ Execs(j) \subseteq Places(j) /\ Ends(j) \subseteq Places(j)
  BY <1>1 DEF Execs, Ends
<1> HIDE DEF L, z
<1>3. SubmitFirst(j)'
  BY <1>1 DEF JobInv, SubmitFirst, L
<1>4. Unsubmitted(j)'
  BY DEF Wrote, Unsubmitted
<1>5. CASE w.kind = "submit"
  <2>1. Places(j)' = {z} /\ Execs(j)' = {} /\ Ends(j)' = {} /\ starts'[j] = 0
    BY <1>1, <1>2, <1>5
  <2>2. InOrder(j)' /\ Current(j)'
    BY <2>1 DEF InOrder, Current
  <2> QED
    BY <1>3, <1>4, <2>2 DEF JobInv
<1>6. ASSUME w.kind # "submit", Whole(j)'
      PROVE  InOrder(j)' /\ Current(j)'
  <2>1. Whole(j)
    BY <1>1, <1>6 DEF Whole, L
  <2>2. InOrder(j) /\ Current(j)
    BY <2>1 DEF JobInv
  <2>3. CASE w.kind = "execute"
    <3>1. /\ Execs(j)' = Execs(j) \cup {z} /\ Ends(j)' = Ends(j)
          /\ w.start = starts[j] + 1 /\ starts'[j] = w.start /\ j \in running'
      BY <1>2, <2>3
    <3>2. InOrder(j)'
      BY <1>1, <1>2, <2>2, <3>1 DEF InOrder, Current, L
    <3>3. Current(j)'
      BY <1>1, <1>2, <2>2, <3>1 DEF Current, L
    <3> QED
      BY <3>2, <3>3
  <2>4. CASE w.kind = "end"
    <3>1. /\ Execs(j)' = Execs(j) /\ Ends(j)' = Ends(j) \cup {z}
          /\ starts'[j] = starts[j] /\ j \notin running'
          /\ w.start # 0 => w.start = starts[j]
          /\ w.start = 0 => j \notin running
      BY <1>2, <2>4
    <3>2. InOrder(j)'
      BY <1>1, <1>2, <2>2, <3>1 DEF InOrder, Current, L
    <3>3. Current(j)'
      BY <1>1, <1>2, <2>2, <3>1 DEF Current, L
    <3> QED
      BY <3>2, <3>3
  <2>5. CASE w.kind \notin {"execute", "end"}
    <3>1. /\ Execs(j)' = Execs(j) /\ Ends(j)' = Ends(j)
          /\ starts'[j] = starts[j] /\ (j \in running <=> j \in running')
      BY <1>2, <2>5
    <3> QED
      BY <1>1, <1>2, <2>2, <3>1 DEF InOrder, Current, L
  <2> QED
    BY <2>3, <2>4, <2>5
<1> QED
  BY <1>3, <1>4, <1>5, <1>6 DEF JobInv

(* The five actions that write an event.                                   *)
LEMMA WriteStep ==
  ASSUME LogInv, NEW j \in Job,
         Submit(j) \/ Execute(j) \/ EndExecution(j) \/ HoldIdle(j) \/ ReleaseHeld(j)
  PROVE  LogInv'
<1> DEFINE Effect(w) == /\ Wrote(j, w)
                        /\ \A k \in Job \ {j} : Shifted(k, 0) /\ written'[k] = written[k]
                        /\ log' \in [Generation -> Seq(Event)] /\ written' \in [Job -> Nat]
<1>1. LogTypes /\ JobInv(j) /\ starts[j] \in Nat /\ (j \in running => starts[j] # 0)
  BY DEF LogInv, LogTypes
<1>2. ASSUME NEW w \in Event, Effect(w), LogTypes', JobInv(j)',
             \A k \in Job \ {j} : /\ starts'[k] = starts[k] /\ (k \in running' <=> k \in running)
                                  /\ (k \in listed' => k \in listed) /\ (k \in held' => k \in held)
      PROVE  LogInv'
  <2>1. ASSUME NEW k \in Job \ {j}
        PROVE  JobInv(k)'
    BY <1>1, <1>2, ShiftKeeps DEF LogInv
  <2> QED
    BY <1>2, <2>1 DEF LogInv
<1>3. CASE Submit(j)
  <2> DEFINE w == [job |-> j, kind |-> "submit", start |-> 0]
  <2>1. Effect(w) /\ w \in Event
    <3>1. Write(j, "submit", 0) /\ "submit" \in EventKind /\ 0 \in Nat
      BY <1>1, <1>3 DEF Submit, EventKind
    <3>2. w \in Event
      BY <3>1 DEF Event
    <3> QED
      BY <1>1, <3>1, <3>2, WriteEffect
  <2>2. LogTypes'
    BY <1>1, <1>3, <2>1 DEF Submit, LogTypes, jobVars
  <2>3. JobInv(j)'
    BY <1>1, <1>3, <2>1, OwnEvent DEF Submit, JobInv, Unsubmitted, jobVars
  <2> QED
    BY <1>2, <1>3, <2>1, <2>2, <2>3 DEF Submit, jobVars
<1>4. CASE Execute(j)
  <2> DEFINE w == [job |-> j, kind |-> "execute", start |-> starts[j] + 1]
  <2>1. Effect(w) /\ w \in Event
    <3>1. Write(j, "execute", starts[j] + 1) /\ "execute" \in EventKind /\ starts[j] + 1 \in Nat
      BY <1>1, <1>4 DEF Execute, EventKind
    <3>2. w \in Event
      BY <3>1 DEF Event
    <3> QED
      BY <1>1, <3>1, <3>2, WriteEffect
  <2>2. starts' \in [Job -> Nat] /\ starts'[j] = starts[j] + 1 /\ j \in running'
    BY <1>1, <1>4 DEF Execute, LogTypes
  <2>3. LogTypes'
    BY <1>1, <1>4, <2>1, <2>2 DEF Execute, LogTypes, evidenceVars
  <2>4. JobInv(j)'
    BY <1>1, <2>1, <2>2, OwnEvent
  <2> QED
    BY <1>1, <1>2, <1>4, <2>1, <2>3, <2>4 DEF Execute, LogTypes, evidenceVars
<1>5. CASE EndExecution(j)
  <2> DEFINE w == [job |-> j, kind |-> "end", start |-> starts[j]]
  <2>1. Effect(w) /\ w \in Event
    BY <1>1, <1>5, WriteEffect DEF EndExecution, EventKind, Event
  <2>2. LogTypes'
    BY <1>1, <1>5, <2>1 DEF EndExecution, LogTypes, evidenceVars
  <2>3. JobInv(j)'
    BY <1>1, <1>5, <2>1, OwnEvent DEF EndExecution
  <2> QED
    BY <1>2, <1>5, <2>1, <2>2, <2>3 DEF EndExecution, evidenceVars
<1>6. CASE HoldIdle(j)
  <2> DEFINE w == [job |-> j, kind |-> "end", start |-> 0]
  <2>1. Effect(w) /\ w \in Event
    BY <1>1, <1>6, WriteEffect DEF HoldIdle, EventKind, Event
  <2>2. LogTypes'
    BY <1>1, <1>6, <2>1 DEF HoldIdle, LogTypes, evidenceVars
  <2>3. JobInv(j)'
    BY <1>1, <1>6, <2>1, OwnEvent DEF HoldIdle
  <2> QED
    BY <1>2, <1>6, <2>1, <2>2, <2>3 DEF HoldIdle, evidenceVars
<1>7. CASE ReleaseHeld(j)
  <2> DEFINE w == [job |-> j, kind |-> "other", start |-> 0]
  <2>1. Effect(w) /\ w \in Event
    BY <1>1, <1>7, WriteEffect DEF ReleaseHeld, EventKind, Event
  <2>2. LogTypes'
    BY <1>1, <1>7, <2>1 DEF ReleaseHeld, LogTypes, evidenceVars
  <2>3. JobInv(j)'
    BY <1>1, <1>7, <2>1, OwnEvent DEF ReleaseHeld
  <2> QED
    BY <1>2, <1>7, <2>1, <2>2, <2>3 DEF ReleaseHeld, evidenceVars
<1> QED
  BY <1>3, <1>4, <1>5, <1>6, <1>7

(* An event that cannot be read any more: the job it was of is not whole.  *)
LEMMA GarbleStep ==
  ASSUME LogInv, NEW g \in Generation, Garble(g)
  PROVE  LogInv'
<1>1. PICK p \in DOMAIN log[g] : log' = [log EXCEPT ![g][p].kind = "garbled"]
  BY DEF Garble
<1>2. LogTypes /\ log[g] \in Seq(Event) /\ p \in 1 .. Len(log[g]) /\ log[g][p] \in Event
  BY <1>1 DEF LogInv, LogTypes
<1> DEFINE e == [log[g][p] EXCEPT !.kind = "garbled"]
<1>3. e \in Event /\ e.job = log[g][p].job /\ e.kind = "garbled"
  BY <1>2 DEF Event, EventKind
<1>4. log' = [log EXCEPT ![g] = [log[g] EXCEPT ![p] = e]]
  BY <1>1, <1>2 DEF LogTypes
<1> HIDE DEF e
<1>5. /\ log' \in [Generation -> Seq(Event)]
      /\ Len(log'[g]) = Len(log[g])
      /\ \A i \in 1 .. Len(log[g]) : log'[g][i] = IF i = p THEN e ELSE log[g][i]
      /\ \A h \in Generation \ {g} : log'[h] = log[h]
  BY <1>2, <1>3, <1>4 DEF LogTypes
<1>6. LogTypes'
  BY <1>2, <1>5 DEF Garble, LogTypes, jobVars
<1>7. ASSUME NEW j \in Job
      PROVE  JobInv(j)'
  <2>1. JobInv(j) /\ GenOf[j] \in Generation /\ LogOf(j) \in Seq(Event) /\ Len(LogOf(j)) \in Nat
    BY <1>2, PlaceTypes, TraceAssumption DEF LogInv
  <2>2. Places(j)' = Places(j)
    BY <1>2, <1>3, <1>5, <2>1 DEF Places, LogOf
  <2>3. CASE GenOf[j] = g /\ p \in Places(j)
    <3>1. ~Whole(j)'
      BY <1>3, <1>5, <2>2, <2>3 DEF Whole, Places, LogOf
    <3>2. SubmitFirst(j)'
      BY <1>3, <1>5, <2>1, <2>2, <2>3 DEF JobInv, SubmitFirst, Places, LogOf
    <3>3. Unsubmitted(j)'
      BY <2>1, <2>2 DEF JobInv, Unsubmitted, Garble, jobVars
    <3> QED
      BY <3>1, <3>2, <3>3 DEF JobInv
  <2>4. CASE ~(GenOf[j] = g /\ p \in Places(j))
    <3>1. \A i \in Places(j) : LogOf(j)'[i] = LogOf(j)[i]
      BY <1>5, <2>1, <2>4 DEF Places, LogOf
    <3>2. Shifted(j, 0)
      BY <2>1, <2>2, <3>1 DEF Shifted
    <3> QED
      BY <1>2, <1>6, <2>1, <3>2, ShiftKeeps DEF Garble, jobVars
  <2> QED
    BY <2>3, <2>4
<1> QED
  BY <1>6, <1>7 DEF LogInv

(* The oldest events of a log are gone.                                    *)
LEMMA RotateStep ==
  ASSUME LogInv, NEW g \in Generation, Rotate(g)
  PROVE  LogInv'
<1>1. PICK n \in 1 .. Len(log[g]) : log' = [log EXCEPT ![g] = SubSeq(log[g], n + 1, Len(log[g]))]
  BY DEF Rotate
<1>2. LogTypes /\ log[g] \in Seq(Event) /\ Len(log[g]) \in Nat
  BY DEF LogInv, LogTypes
<1> DEFINE s == SubSeq(log[g], n + 1, Len(log[g]))
<1>3. /\ s \in Seq(Event) /\ Len(s) = Len(log[g]) - n
      /\ \A i \in 1 .. Len(s) : s[i] = log[g][i + n]
  BY <1>2, SubSeqProperties
<1> HIDE DEF s
<1>4. /\ log' \in [Generation -> Seq(Event)]
      /\ log'[g] = s /\ \A h \in Generation \ {g} : log'[h] = log[h]
  BY <1>1, <1>2, <1>3 DEF LogTypes, s
<1>5. LogTypes'
  BY <1>2, <1>4 DEF Rotate, LogTypes, jobVars
<1>6. ASSUME NEW j \in Job
      PROVE  JobInv(j)'
  <2>1. JobInv(j) /\ GenOf[j] \in Generation /\ LogOf(j) \in Seq(Event) /\ Len(LogOf(j)) \in Nat
    BY <1>2, PlaceTypes, TraceAssumption DEF LogInv
  <2>2. CASE GenOf[j] = g
    <3>1. LogOf(j)' = s /\ LogOf(j) = log[g]
      BY <1>4, <2>2 DEF LogOf
    <3>2. \A i \in Nat \ {0} : i \in 1 .. Len(s) <=> i + n \in 1 .. Len(log[g])
      BY <1>2, <1>3
    <3>3. Shifted(j, n)
      BY <1>3, <3>1, <3>2 DEF Shifted, Places
    <3> QED
      BY <1>2, <1>5, <2>1, <3>3, ShiftKeeps DEF Rotate, jobVars
  <2>3. CASE GenOf[j] # g
    <3>1. Shifted(j, 0)
      BY <1>4, <2>1, <2>3 DEF Shifted, Places, LogOf
    <3> QED
      BY <1>2, <1>5, <2>1, <3>1, ShiftKeeps DEF Rotate, jobVars
  <2> QED
    BY <2>2, <2>3
<1> QED
  BY <1>5, <1>6 DEF LogInv

(* The other steps write no event.                                         *)
LEMMA LogStep ==
  ASSUME LogInv, [Next]_vars
  PROVE  LogInv'
<1>1. ASSUME NEW j \in Job, Submit(j) \/ Execute(j) \/ EndExecution(j) \/ HoldIdle(j)
                             \/ ReleaseHeld(j)
      PROVE  LogInv'
  BY <1>1, WriteStep
<1>2. ASSUME UNCHANGED <<log, written, jobVars>>, listed' \subseteq listed,
             cut' \in [Generation -> Nat]
      PROVE  LogInv'
  <2>1. LogTypes'
    BY <1>2 DEF LogInv, LogTypes, jobVars
  <2>2. ASSUME NEW j \in Job
        PROVE  JobInv(j)'
    <3>1. Shifted(j, 0)
      BY <1>2 DEF Shifted, Places, LogOf
    <3> QED
      BY <1>2, <2>1, <3>1, ShiftKeeps DEF LogInv, jobVars
  <2> QED
    BY <2>1, <2>2 DEF LogInv
<1>3. ASSUME NEW j \in Job, RecordAttempt(j) \/ Forget(j)
      PROVE  LogInv'
  BY <1>2, <1>3 DEF RecordAttempt, Forget, jobVars, evidenceVars, LogInv, LogTypes
<1>4. ASSUME NEW g \in Generation, Outgrow(g)
      PROVE  LogInv'
  <2>1. cut' \in [Generation -> Nat]
    BY <1>4 DEF Outgrow, LogInv, LogTypes
  <2> QED
    BY <1>2, <1>4, <2>1 DEF Outgrow
<1>5. ASSUME NEW g \in Generation, Garble(g) \/ Rotate(g)
      PROVE  LogInv'
  BY <1>5, GarbleStep, RotateStep
<1>6. CASE UNCHANGED vars
  BY <1>2, <1>6 DEF vars, evidenceVars, LogInv, LogTypes
<1> QED
  BY <1>1, <1>3, <1>4, <1>5, <1>6 DEF Next

(* Nothing has been written yet.                                           *)
LEMMA LogInit == Init => LogInv
<1> SUFFICES ASSUME Init PROVE LogInv
  OBVIOUS
<1>1. LogTypes
  BY DEF Init, LogTypes
<1>2. ASSUME NEW j \in Job
      PROVE  JobInv(j)
  <2>1. Places(j) = {}
    BY TraceAssumption DEF Init, Places, LogOf
  <2> QED
    BY <2>1 DEF Init, JobInv, SubmitFirst, Unsubmitted, Whole
<1> QED
  BY <1>1, <1>2 DEF LogInv

----
(* The reader of a whole log                                               *)

(* A run shown as the k-th is the k-th start, with its own end or none.    *)
RunTrue(run, k) == run.execute.start = k /\ (run.end # NoEnd => run.end.start = k)

Run == [execute : Event, end : Event \cup {NoEnd}]

(* What the loop has after position i of j's log: the N-th execution is    *)
(* the N-th start, all starts so far are there, and an execution is open   *)
(* only if no end was written since the last start.                        *)
ReadTrue(j, i, acc) ==
  /\ acc.runs \in Seq(Run)
  /\ \A k \in 1 .. Len(acc.runs) : RunTrue(acc.runs[k], k)
  /\ \A e \in Execs(j) : e <= i => LogOf(j)[e].start <= Len(acc.runs)
  /\ Len(acc.runs) # 0 => \E e \in Execs(j) : e <= i /\ LogOf(j)[e].start = Len(acc.runs)
  /\ acc.open => /\ Len(acc.runs) # 0
                 /\ \E e \in Execs(j) : e <= i /\ \A m \in Ends(j) : ~(e < m /\ m <= i)

(* Each event keeps the reading true.                                      *)
LEMMA ReadStep ==
  ASSUME LogTypes, NEW j \in Job, InOrder(j), NEW i \in 1 .. Len(LogOf(j)), NEW acc,
         JobEvents(j) = Places(j), ReadTrue(j, i - 1, acc)
  PROVE  ReadTrue(j, i, ReadOne(j, i, acc))
<1> DEFINE L == LogOf(j)
           n == Len(acc.runs)
<1>1. /\ i \in Nat \ {0} /\ n \in Nat
      /\ \A p \in Places(j) : p \in Nat \ {0} /\ L[p] \in Event /\ L[p].start \in Nat
      /\ Execs(j) \subseteq Places(j) /\ Ends(j) \subseteq Places(j)
  <2>1. Len(LogOf(j)) \in Nat
    BY PlaceTypes
  <2> QED
    BY <2>1, PlaceTypes DEF ReadTrue, Execs, Ends
<1>2. CASE i \notin Execs(j) /\ (i \notin Ends(j) \/ ~acc.open)
  <2>1. ReadOne(j, i, acc) = acc
    BY <1>2 DEF ReadOne, AddEvent, Execs, Ends, LogOf
  <2>2. \A p \in Execs(j) : p <= i <=> p <= i - 1
    BY <1>1, <1>2
  <2>3. acc.open => \A p \in Ends(j) : p <= i <=> p <= i - 1
    BY <1>1, <1>2
  <2> QED
    BY <2>1, <2>2, <2>3 DEF ReadTrue
<1>3. CASE i \in Execs(j)
  <2> DEFINE run == [execute |-> L[i], end |-> NoEnd]
             new == [runs |-> Append(acc.runs, run), open |-> TRUE]
  <2>1. ReadOne(j, i, acc) = new
    BY <1>1, <1>3 DEF ReadOne, AddEvent, Execs, LogOf
  <2>2. run \in Run
    BY <1>1, <1>3 DEF Run
  <2>3. /\ new.runs \in Seq(Run) /\ Len(new.runs) = n + 1
        /\ \A k \in 1 .. n : new.runs[k] = acc.runs[k]
        /\ new.runs[n + 1] = run
    BY <2>2 DEF ReadTrue
  <2>4. L[i].start = n + 1
    <3>1. n < L[i].start
      BY <1>1, <1>3 DEF ReadTrue, InOrder
    <3>2. ASSUME L[i].start # 1
          PROVE  L[i].start <= n + 1
      <4>1. PICK k \in Execs(j) : k < i /\ L[k].start + 1 = L[i].start
        BY <1>3, <3>2 DEF InOrder
      <4>2. L[k].start <= n
        BY <1>1, <1>3, <4>1 DEF ReadTrue
      <4> QED
        BY <1>1, <4>1, <4>2
    <3> QED
      BY <1>1, <1>3, <3>1, <3>2
  <2> HIDE DEF new
  <2>5. \A e \in Execs(j) : e <= i => LogOf(j)[e].start <= Len(new.runs)
    BY <1>1, <1>3, <2>3, <2>4 DEF ReadTrue
  <2>6. \A k \in 1 .. Len(new.runs) : RunTrue(new.runs[k], k)
    <3>1. RunTrue(run, n + 1)
      BY <2>4 DEF RunTrue
    <3>2. RunTrue(new.runs[n + 1], n + 1)
      BY <2>3, <3>1
    <3>3. ASSUME NEW k \in 1 .. n
          PROVE  RunTrue(new.runs[k], k)
      <4>1. RunTrue(acc.runs[k], k)
        BY DEF ReadTrue
      <4> QED
        BY <2>3, <4>1
    <3>4. 1 .. Len(new.runs) = 1 .. n \cup {n + 1}
      BY <1>1, <2>3
    <3> QED
      BY <3>2, <3>3, <3>4
  <2>7. \A m \in Ends(j) : ~(i < m /\ m <= i)
    BY <1>1
  <2> QED
    BY <1>1, <1>3, <2>1, <2>3, <2>4, <2>5, <2>6, <2>7 DEF ReadTrue
<1>4. CASE i \in Ends(j) /\ acc.open
  <2> DEFINE new == [runs |-> [acc.runs EXCEPT ![n].end = L[i]], open |-> FALSE]
  <2>1. ReadOne(j, i, acc) = new
    BY <1>1, <1>4 DEF ReadOne, AddEvent, Ends, LogOf
  <2>2. n \in 1 .. n /\ acc.runs \in Seq(Run) /\ acc.runs[n] \in Run /\ L[i] \in Event
    BY <1>1, <1>4 DEF ReadTrue
  <2>3. [acc.runs[n] EXCEPT !.end = L[i]] \in Run
    BY <2>2 DEF Run
  <2>4. /\ new.runs \in Seq(Run) /\ Len(new.runs) = n
        /\ \A k \in 1 .. n : /\ new.runs[k].execute = acc.runs[k].execute
                             /\ k # n => new.runs[k] = acc.runs[k]
        /\ new.runs[n].end = L[i]
    <3>1. new.runs = [acc.runs EXCEPT ![n] = [acc.runs[n] EXCEPT !.end = L[i]]]
      BY <2>2
    <3> QED
      BY <2>2, <2>3, <3>1 DEF Run
  <2>5. L[i].start = n
    <3>1. PICK e \in Execs(j) : e <= i - 1 /\ \A m \in Ends(j) : ~(e < m /\ m <= i - 1)
      BY <1>4 DEF ReadTrue
    <3>2. L[i].start # 0
      BY <1>1, <1>4, <3>1 DEF InOrder
    <3>3. PICK k \in Execs(j) : k < i /\ L[k].start = L[i].start
      BY <1>4, <3>2 DEF InOrder
    <3>4. L[i].start <= n
      BY <1>1, <3>3 DEF ReadTrue
    <3>5. PICK f \in Execs(j) : f <= i - 1 /\ L[f].start = n
      BY <2>2, <1>1 DEF ReadTrue
    <3>6. \A p \in Execs(j) : p < i => L[p].start <= L[i].start
      BY <1>4, <3>2 DEF InOrder
    <3>7. f < i
      BY <1>1, <3>5
    <3>8. n <= L[i].start
      BY <3>5, <3>6, <3>7
    <3> QED
      BY <1>1, <1>4, <3>4, <3>8
  <2> HIDE DEF new
  <2>6. \A k \in 1 .. Len(new.runs) : RunTrue(new.runs[k], k)
    <3>1. \A k \in 1 .. n : RunTrue(acc.runs[k], k)
      BY DEF ReadTrue
    <3>2. RunTrue(new.runs[n], n)
      BY <2>2, <2>4, <2>5, <3>1 DEF RunTrue
    <3> QED
      BY <2>4, <3>1, <3>2
  <2>7. ~new.open
    BY DEF new
  <2>8. i \notin Execs(j) /\ \A p \in Execs(j) : p <= i <=> p <= i - 1
    BY <1>1, <1>4 DEF Execs, Ends
  <2> QED
    BY <1>1, <2>1, <2>4, <2>6, <2>7, <2>8 DEF ReadTrue
<1> QED
  BY <1>2, <1>3, <1>4

(* A job shown as complete from its submission is read as it ran.          *)
LEMMA WholeRead ==
  ASSUME LogInv, NEW j \in Job, CompleteFromSubmit(j)
  PROVE  ReadTrue(j, Len(LogOf(j)), Reading(j)[Len(LogOf(j))])
<1> DEFINE N == Len(LogOf(j))
           Untrue == {i \in 0 .. N : ~ReadTrue(j, i, Reading(j)[i])}
<1>1. LogTypes /\ JobInv(j) /\ N \in Nat /\ GenOf[j] \in Generation
  BY PlaceTypes, TraceAssumption DEF LogInv
<1>2. cut[GenOf[j]] = 0 /\ Retained(GenOf[j]) = 1 .. N
  BY <1>1 DEF CompleteFromSubmit, Incomplete, Truncated, Retained, LogTypes, LogOf
<1>3. JobEvents(j) = Places(j) /\ Whole(j)
  BY <1>2 DEF CompleteFromSubmit, Incomplete, ParseErrors, JobEvents, Places, Whole, LogOf
<1>4. InOrder(j)
  BY <1>1, <1>3 DEF JobInv
<1>5. Reads(j, N, Reading(j))
  BY <1>1, ReadingExists DEF LogOf
<1>6. 0 \notin Untrue
  <2>1. Reading(j)[0] = Unread
    BY <1>1, <1>5 DEF Reads
  <2>2. \A e \in Execs(j) : ~(e <= 0)
    BY <1>1, PlaceTypes DEF Execs
  <2>3. Unread.runs \in Seq(Run) /\ Len(Unread.runs) = 0 /\ ~Unread.open
    BY DEF Unread
  <2>4. ReadTrue(j, 0, Unread)
    BY <2>2, <2>3 DEF ReadTrue
  <2> QED
    BY <2>1, <2>4
<1>7. ASSUME NEW i \in 1 .. N, i - 1 \notin Untrue
      PROVE  i \notin Untrue
  <2>1. ReadTrue(j, i - 1, Reading(j)[i - 1])
    BY <1>1, <1>7
  <2>2. Reading(j)[i] = ReadOne(j, i, Reading(j)[i - 1])
    BY <1>1, <1>5 DEF Reads
  <2> QED
    BY <1>1, <1>3, <1>4, <2>1, <2>2, ReadStep
<1>8. Untrue = {}
  <2> SUFFICES ASSUME Untrue # {} PROVE FALSE
    OBVIOUS
  <2>1. Untrue \subseteq Nat
    BY <1>1
  <2>2. PICK i \in Untrue : \A m \in Untrue : <<m, i>> \notin OpToRel(<, Nat)
    <3> HIDE DEF Untrue
    <3> QED
      BY <2>1, WFMin, NatLessThanWellFounded
  <2>3. i \in 1 .. N
    BY <1>1, <1>6
  <2>4. i - 1 \notin Untrue
    <3>1. i - 1 \in Nat /\ i - 1 < i
      BY <1>1, <2>3
    <3> HIDE DEF Untrue
    <3> QED
      BY <2>1, <2>2, <3>1 DEF OpToRel
  <2> QED
    BY <1>7, <2>2, <2>3, <2>4
<1> QED
  BY <1>1, <1>8

(* For any jobs, logs and losses: a timeline that is labeled as complete   *)
(* from its submission shows the N-th start of the job as the N-th         *)
(* execution, with the end of that start.                                  *)
THEOREM TimelinesTrue == Spec => []TimelineTrue
<1>1. LogInv => TimelineTrue
  <2> SUFFICES ASSUME LogInv, NEW j \in Job, CompleteFromSubmit(j), NEW k \in DOMAIN Executions(j)
               PROVE  /\ Executions(j)[k].execute.start = k
                      /\ Executions(j)[k].end # NoEnd => Executions(j)[k].end.start = k
    BY DEF TimelineTrue
  <2>1. ReadTrue(j, Len(LogOf(j)), Reading(j)[Len(LogOf(j))])
    BY WholeRead
  <2>2. Executions(j) = Reading(j)[Len(LogOf(j))].runs
    BY DEF Executions, LogOf
  <2>3. Executions(j) \in Seq(Run) /\ k \in 1 .. Len(Executions(j))
    BY <2>1, <2>2 DEF ReadTrue
  <2> QED
    BY <2>1, <2>2, <2>3 DEF ReadTrue, RunTrue
<1> QED
  BY <1>1, LogInit, LogStep, PTL DEF Spec

----
(* Where the trace shows an attempt                                        *)

(* Workers are Condor jobs that have started.                              *)
TraceInv ==
  /\ attempts \subseteq Attempt
  /\ starts \in [Job -> Nat]
  /\ running \subseteq {j \in Job : starts[j] > 0}
  /\ listed \subseteq Job

(* Nothing has started yet.                                                *)
LEMMA TraceInit == Init => TraceInv
  BY DEF Init, TraceInv

(* An attempt is recorded by a worker that runs in the job's last start.   *)
LEMMA RecordAttemptInv ==
  ASSUME TraceInv, NEW j \in Job, RecordAttempt(j)
  PROVE  TraceInv'
<1>1. starts[j] \in Nat \ {0}
  BY DEF TraceInv, RecordAttempt
<1>2. [job |-> j, known |-> FALSE, start |-> 0, ran |-> starts[j]] \in Attempt
  BY <1>1 DEF Attempt
<1>3. ASSUME NEW lag \in Lags, lag <= starts[j]
      PROVE  [job |-> j, known |-> TRUE, start |-> starts[j] - lag, ran |-> starts[j]] \in Attempt
  <2>1. starts[j] - lag \in Nat
    BY <1>1, <1>3, TraceAssumption
  <2> QED
    BY <1>1, <2>1 DEF Attempt
<1>4. attempts' \subseteq Attempt
  <2>1. CASE attempts' = attempts \cup
               {[job |-> j, known |-> FALSE, start |-> 0, ran |-> starts[j]]}
    BY <1>2, <2>1 DEF TraceInv
  <2>2. ASSUME NEW lag \in Lags, lag <= starts[j],
               attempts' = attempts \cup
                 {[job |-> j, known |-> TRUE, start |-> starts[j] - lag, ran |-> starts[j]]}
        PROVE  attempts' \subseteq Attempt
    BY <1>3, <2>2 DEF TraceInv
  <2> QED
    BY <2>1, <2>2 DEF RecordAttempt
<1> QED
  BY <1>4 DEF TraceInv, RecordAttempt, jobVars, evidenceVars

(* TraceInv is inductive.                                                  *)
LEMMA TraceStep ==
  ASSUME TraceInv, [Next]_vars
  PROVE  TraceInv'
<1>1. ASSUME NEW j \in Job, Submit(j) \/ Execute(j) \/ EndExecution(j) \/ HoldIdle(j)
                             \/ ReleaseHeld(j) \/ Forget(j)
      PROVE  TraceInv'
  BY <1>1 DEF TraceInv, Submit, Execute, EndExecution, HoldIdle, ReleaseHeld, Forget,
              jobVars, evidenceVars
<1>2. ASSUME NEW j \in Job, RecordAttempt(j)
      PROVE  TraceInv'
  BY <1>2, RecordAttemptInv
<1>3. CASE UNCHANGED <<attempts, jobVars, listed>>
  BY <1>3 DEF TraceInv, jobVars
<1> QED
  BY <1>1, <1>2, <1>3 DEF Next, Outgrow, Garble, Rotate, vars, evidenceVars

(* A job is shown under one generation, the one it belongs to, or nowhere. *)
LEMMA ShownOnce ==
  ASSUME NEW j \in Job, NEW g \in Generation
  PROVE  j \in JobsOf(g) <=> g = GenOf[j] /\ j \in Shown
  BY TraceAssumption DEF JobsOf, Appended, Shown, PlacedByDagman

(* An attempt that names its job is at an execution of it or unlinked, and *)
(* only there.                                                             *)
LEMMA AttemptPlaced ==
  ASSUME TraceInv, NEW a \in attempts, NEW j \in Job
  PROVE  /\ a \in Attached(j) => a \in Claiming(j)
         /\ a \in Claiming(j) <=> a.known /\ a.job = j
         /\ a \in Unlinked(j) <=> a \in Claiming(j) /\ a \notin Attached(j)
  BY DEF Attached, Direct, Unlinked, Claiming

(* For any jobs and generations, and whatever evidence was lost: every     *)
(* attempt appears in the trace exactly once.                              *)
THEOREM AttemptsShown == Spec => []EveryAttemptShown
<1>1. TraceInv => EveryAttemptShown
  <2> SUFFICES ASSUME TraceInv, NEW a \in attempts
               PROVE  Cardinality({at \in Generation \X Job :
                                     at[2] \in JobsOf(at[1]) /\ a \in Attached(at[2])})
                      + Cardinality({at \in Generation \X Job :
                                       at[2] \in JobsOf(at[1]) /\ a \in Unlinked(at[2])})
                      + Cardinality(Orphans \cap {a}) = 1
    BY DEF EveryAttemptShown
  <2> DEFINE attached == {at \in Generation \X Job :
                            at[2] \in JobsOf(at[1]) /\ a \in Attached(at[2])}
             unlinked == {at \in Generation \X Job :
                            at[2] \in JobsOf(at[1]) /\ a \in Unlinked(at[2])}
             home == <<GenOf[a.job], a.job>>
  <2>1. a.job \in Job /\ GenOf[a.job] \in Generation
    BY TraceAssumption DEF TraceInv, Attempt
  <2>2. \A at \in Generation \X Job :
          at[2] \in JobsOf(at[1]) /\ a \in Claiming(at[2])
            <=> at = home /\ a.job \in Shown /\ a.known
    BY <2>1, ShownOnce, AttemptPlaced
  <2>3. a \in Orphans <=> ~(a.job \in Shown /\ a.known)
    BY <2>1, AttemptPlaced DEF Orphans, Shown
  <2> SUFFICES Cardinality(attached) + Cardinality(unlinked) + Cardinality(Orphans \cap {a}) = 1
    OBVIOUS
  <2>4. CASE a.job \in Shown /\ a.known /\ a \in Attached(a.job)
    <3>1. attached = {home} /\ unlinked = {} /\ Orphans \cap {a} = {}
      BY <2>1, <2>2, <2>3, <2>4, AttemptPlaced
    <3>2. Cardinality({}) = 0
      BY FS_EmptySet
    <3>3. Cardinality({home}) = 1 /\ Cardinality({a}) = 1
      BY FS_Singleton
    <3> HIDE DEF attached, unlinked, home
    <3> QED
      BY <3>1, <3>2, <3>3
  <2>5. CASE a.job \in Shown /\ a.known /\ a \notin Attached(a.job)
    <3>1. attached = {} /\ unlinked = {home} /\ Orphans \cap {a} = {}
      BY <2>1, <2>2, <2>3, <2>5, AttemptPlaced
    <3>2. Cardinality({}) = 0
      BY FS_EmptySet
    <3>3. Cardinality({home}) = 1 /\ Cardinality({a}) = 1
      BY FS_Singleton
    <3> HIDE DEF attached, unlinked, home
    <3> QED
      BY <3>1, <3>2, <3>3
  <2>6. CASE ~(a.job \in Shown /\ a.known)
    <3>1. attached = {} /\ unlinked = {} /\ Orphans \cap {a} = {a}
      BY <2>2, <2>3, <2>6, AttemptPlaced
    <3>2. Cardinality({}) = 0
      BY FS_EmptySet
    <3>3. Cardinality({home}) = 1 /\ Cardinality({a}) = 1
      BY FS_Singleton
    <3> HIDE DEF attached, unlinked, home
    <3> QED
      BY <3>1, <3>2, <3>3
  <2> QED
    BY <2>4, <2>5, <2>6
<1> QED
  BY <1>1, TraceInit, TraceStep, PTL DEF Spec
====
