------------------------- MODULE RunnerOutputProofs -------------------------
(***************************************************************************)
(* TLAPS proofs about RunnerOutput: no line of a run is lost unless it was *)
(* dropped for want of room, and then a note is kept of it, or a write of  *)
(* it failed; lines are first seen in order, and the job rows agree with   *)
(* them.  For any script, any sizes of the queue and of a batch, and any   *)
(* number of faults, failed writes among them.                             *)
(***************************************************************************)
EXTENDS RunnerOutput, NatSets, FiniteSetTheorems, SequenceTheorems, TLAPS

(* What is queued, sent and logged: a line or a note.                      *)
Notes == { Line(n) : n \in 1..Len(Script) } \cup { Marker(k, d) : k \in Nat \ {0}, d \in Nat }

Steps == [key : Nat, status : States]
JobStates == [row : Nat, status : States, steps : Seq(Steps)]
Requests == [kind : {"none", "events", "complete"}, lines : Seq(Notes), stage : Stages,
             rec : Nat, until : Nat, live : BOOLEAN]
Recorders == [state : {"ready", "loading", "null", "rejected"}, pending : Seq(Notes),
              handled : Nat, closed : BOOLEAN, known : SUBSET Jobs, jobs : [Jobs -> JobStates]]
Rows == [job : Jobs, status : States, steps : Seq(Steps)]

RunnerTypes ==
  /\ out \in 0..Len(Script) /\ queue \in Seq(Notes) /\ batch \in Seq(Notes)
  /\ dropped \in Nat /\ late \in BOOLEAN /\ sending \in BOOLEAN
  /\ phase \in {"running", "flush", "await", "complete", "sleep", "over"}
  /\ trimmed \subseteq 1..Len(Script) /\ drops \in Nat /\ unheard \subseteq Int

ServerTypes ==
  /\ over \in BOOLEAN /\ recorders \in Seq(Recorders) /\ current \in 0..Len(recorders)
  /\ rows \in Seq(Rows) /\ log \in Seq(Notes) /\ failed \subseteq 1..Len(Script)

Types ==
  /\ RunnerTypes /\ ServerTypes
  /\ requests \in [Slots -> Requests]
  /\ faults \in 0..MaxFaults /\ abandoned \in BOOLEAN

-----------------------------------------------------------------------------
(* The requests of the server: the runner waits for one at most, and it    *)
(* has given up as many as there were faults.                              *)
Given == { i \in Slots : requests[i] # Free /\ ~requests[i].live }

SlotsOK ==
  \A i \in Slots :
    LET q == requests[i]
    IN  /\ q.kind = "none" <=> q = Free
        /\ q.rec <= Len(recorders)
        /\ q.stage = "free" => q = Free
        /\ q.stage \in {"wait", "settled"} => q.rec # 0 /\ recorders[q.rec].state = "ready"
        /\ q.stage = "settled" => q.kind = "complete" /\ recorders[q.rec].closed

LiveOK ==
  /\ \A i \in Slots : Live(i) =>
       /\ requests[i].kind = "events" => sending /\ requests[i].lines = batch
       /\ requests[i].kind = "complete" => phase = "complete"
  /\ \A i, j \in Slots : Live(i) /\ Live(j) => i = j
  /\ sending \/ phase = "complete" => \E i \in Slots : Live(i)
  /\ sending => phase \in {"running", "flush", "await"}
  /\ ~sending => batch = <<>>

GivenOK == Cardinality(Given) <= faults

RequestsOK == SlotsOK /\ LiveOK /\ GivenOK

(* A recorder that is not ready has nothing to do.                         *)
RecordersOK ==
  \A r \in DOMAIN recorders :
    /\ recorders[r].state # "ready" => recorders[r].pending = <<>> /\ ~recorders[r].closed
    /\ recorders[r].state = "null" => over

-----------------------------------------------------------------------------
(* Where the lines are.  They wait at the runner in the order of the       *)
(* script; a line that does not wait there is in the log or was lost: the  *)
(* runner dropped it or the server failed to record it.                    *)
Kept == batch \o queue
Gone == trimmed \cup failed
Seen == Gone \cup LinesOf(log)

Sorted(q) == \A i, j \in DOMAIN q : i < j /\ q[j].line > 0 => q[i].line < q[j].line
Below(q, m) == \A k \in DOMAIN q : q[k].line <= m

Covered(q, m, S) == Sorted(q) /\ Below(q, m) /\ 1..m \subseteq S \cup LinesOf(q)

WaitingOK == Covered(Kept, out, Seen)

(* Whoever gets to see a line has seen, or sees before it, the earlier     *)
(* ones that were not lost.                                                *)
Orderly(q, m, S) ==
  /\ Below(q, m)
  /\ \A k \in DOMAIN q : \A n \in 1..(q[k].line - 1) : n \in S \/ \E h \in 1..(k - 1) : q[h].line = n

OrderOK ==
  /\ \A i \in Slots : Orderly(requests[i].lines, out, Seen)
  /\ \A r \in DOMAIN recorders : Orderly(recorders[r].pending, out, Seen)

LogOK == Orderly(log, out, Gone)

(* What the server has been given and the runner waits for is logged, or   *)
(* will be before the answer.                                              *)
Awaited(until, r, b, l, F) ==
  /\ until <= r.handled + Len(r.pending)
  /\ \A n \in DOMAIN b :
       \/ r.closed \/ b[n].line \in F \/ \E k \in DOMAIN l : l[k] = b[n]
       \/ \E k \in DOMAIN r.pending : k + r.handled <= until /\ r.pending[k] = b[n]

WaitOK ==
  \A i \in Slots : requests[i].kind = "events" /\ requests[i].stage = "wait" /\ requests[i].live =>
    Awaited(requests[i].until, recorders[requests[i].rec], batch, log, failed)

(* When the result is on its way the script has ended and every line is    *)
(* where it should be.                                                     *)
AllSeen == phase # "running" /\ 1..out \subseteq Seen

Ending ==
  \/ over
  \/ \E i \in Slots : requests[i].kind = "complete"
  \/ \E r \in DOMAIN recorders : recorders[r].closed

EndingOK == Ending => AllSeen

(* Nothing is noted unless lines were dropped.                             *)
Noted(q) == \E n \in DOMAIN q : q[n].gone > 0

NotesOK ==
  trimmed = {} =>
    /\ dropped = 0 /\ ~Noted(Kept) /\ ~Noted(log)
    /\ \A i \in Slots : ~Noted(requests[i].lines)
    /\ \A r \in DOMAIN recorders : ~Noted(recorders[r].pending)

-----------------------------------------------------------------------------
(* As long as no request was given up there is one at a time, and but for  *)
(* those that are closed one recorder.                                     *)
Waits(r) == \E i \in Slots : requests[i].stage = "wait" /\ requests[i].rec = r
Settles == \E i \in Slots : requests[i].stage = "settled"
Ends(i) == requests[i].kind = "complete" /\ requests[i].stage \in {"wait", "settled"}

Calm ==
  /\ \A i \in Slots : requests[i] # Free => requests[i].live
  /\ \A i \in Slots : requests[i].stage = "wait" =>
       LET r == recorders[requests[i].rec]
       IN  requests[i].until = r.handled + Len(r.pending) /\ ~r.closed
  /\ \A i \in Slots :
       /\ Ends(i) => current = 0
       /\ requests[i].stage \in {"sent", "read"} => requests[i].rec \in {0, current}
  /\ over => phase = "over"
  /\ \A r \in DOMAIN recorders :
       /\ recorders[r].pending # <<>> => Waits(r)
       /\ recorders[r].closed => r # current
       /\ ~recorders[r].closed =>
            r = current \/ over \/ \E i \in Slots : Ends(i) /\ requests[i].rec = r

CalmOK == ~abandoned => Calm

(* Then a job has one row, and the recorder knows what is in it, as far as *)
(* the writes have succeeded.                                              *)
EndFailed(j) == \E e \in failed : EventOf(e, "end", j)

Knows(recorder, j) ==
  LET job == recorder.jobs[j]
  IN  IF RowOf(j) = {} THEN job.row = 0 /\ (j \in recorder.known => failed # {})
      ELSE /\ j \in recorder.known /\ job.row \in RowOf(j)
           /\ job.status = rows[job.row].status \/ EndFailed(j)
           /\ job.steps = rows[job.row].steps \/ failed # {}

Table ==
  /\ \A m, n \in DOMAIN rows : rows[m].job = rows[n].job => m = n
  /\ \A r \in DOMAIN recorders :
       recorders[r].state = "ready" /\ ~recorders[r].closed
         => \A j \in Jobs : Knows(recorders[r], j)
  /\ over \/ Settles => \A n \in DOMAIN rows :
       rows[n].status # "in_progress" \/ EndFailed(rows[n].job)

TableOK == ~abandoned => Table

(* And if nothing was dropped or repeated, the log is the script so far,   *)
(* and a step is in progress from its start to its finish.                 *)
Begun(key, j) == \E p \in 1..Len(log) : EventOf(p, "start", j) /\ Script[p].step = key
Ended(j) == \E q \in 1..Len(log) : EventOf(q, "end", j)
Unfinished(key, j) ==
  \E p \in 1..Len(log) :
    /\ EventOf(p, "start", j) /\ Script[p].step = key
    /\ \A q \in (p + 1)..Len(log) : ~(EventOf(q, "finish", j) /\ Script[q].step = key)

Told(j, job) ==
  /\ \A k \in DOMAIN job.steps :
       /\ Begun(job.steps[k].key, j)
       /\ job.steps[k].status = "in_progress" => Unfinished(job.steps[k].key, j)
  /\ \A k, l \in DOMAIN job.steps : job.steps[k].key = job.steps[l].key => k = l
  /\ job.status # "in_progress" =>
       Ended(j) \/ (AllSeen /\ \A k \in DOMAIN job.steps : job.steps[k].status # "in_progress")

Plain == ActFinishes /\ ~abandoned /\ Gone = {} /\ ~Repeated

StepsOK ==
  Plain => /\ \A k \in DOMAIN log : log[k].line = k
           /\ \A n \in DOMAIN rows : Told(rows[n].job, rows[n])

FlowInv == Types /\ RequestsOK /\ RecordersOK /\ WaitingOK /\ OrderOK /\ LogOK /\ WaitOK /\ EndingOK

-----------------------------------------------------------------------------
(* Sequences: a suffix, a prefix, and one after the other.                 *)
LEMMA SuffixOf ==
  ASSUME NEW S, NEW q \in Seq(S), NEW e \in 0..Len(q)
  PROVE  LET s == SubSeq(q, e + 1, Len(q))
         IN  /\ s \in Seq(S) /\ Len(s) = Len(q) - e /\ DOMAIN s = 1..Len(s)
             /\ \A k \in DOMAIN s : k + e \in DOMAIN q /\ s[k] = q[k + e]
             /\ \A k \in DOMAIN q : k > e => k - e \in DOMAIN s /\ s[k - e] = q[k]
<1> DEFINE s == SubSeq(q, e + 1, Len(q))
<1>1. /\ Len(q) \in Nat /\ DOMAIN q = 1..Len(q) /\ \A i \in 1..Len(q) : q[i] \in S
  BY LenProperties, ElementOfSeq
<1>2. e \in Nat /\ e <= Len(q)
  BY <1>1
<1>3. /\ s \in Seq(S) /\ Len(s) = Len(q) - e
      /\ \A i \in 1..(Len(q) - e) : s[i] = q[i + e]
  <2>1. e + 1 \in Int /\ Len(q) \in Int /\ \A i \in (e + 1)..Len(q) : q[i] \in S
    BY <1>1, <1>2
  <2>2. /\ s \in Seq(S)
        /\ Len(s) = IF e + 1 <= Len(q) THEN Len(q) - (e + 1) + 1 ELSE 0
        /\ \A i \in 1..(Len(q) - (e + 1) + 1) : s[i] = q[(e + 1) + i - 1]
    BY <2>1, SubSeqProperties
  <2> HIDE DEF s
  <2>3. Len(s) = Len(q) - e
    <3>1. Len(s) = IF e + 1 <= Len(q) THEN Len(q) - (e + 1) + 1 ELSE 0
      BY <2>2
    <3>2. Len(q) \in Nat
      BY <1>1
    <3> QED
      BY <3>1, <3>2, <1>2
  <2>4. ASSUME NEW i \in 1..(Len(q) - e)
        PROVE  s[i] = q[i + e]
    <3>1. i \in 1..(Len(q) - (e + 1) + 1) /\ (e + 1) + i - 1 = i + e
      BY <1>1, <1>2
    <3> QED
      BY <2>2, <3>1
  <2> QED
    BY <2>2, <2>3, <2>4
<1>4. DOMAIN s = 1..Len(s)
  BY <1>3, LenProperties
<1> HIDE DEF s
<1>5. \A k \in DOMAIN s : k + e \in DOMAIN q /\ s[k] = q[k + e]
  BY <1>1, <1>2, <1>3, <1>4
<1>6. ASSUME NEW k \in DOMAIN q, k > e
      PROVE  k - e \in DOMAIN s /\ s[k - e] = q[k]
  <2>1. k - e \in 1..(Len(q) - e) /\ (k - e) + e = k
    BY <1>1, <1>2, <1>6
  <2> QED
    BY <1>3, <1>4, <2>1
<1> QED
  BY <1>3, <1>4, <1>5, <1>6 DEF s

LEMMA PrefixOf ==
  ASSUME NEW S, NEW q \in Seq(S), NEW n \in 0..Len(q)
  PROVE  LET s == SubSeq(q, 1, n)
         IN  /\ s \in Seq(S) /\ Len(s) = n /\ DOMAIN s = 1..n
             /\ \A k \in 1..n : k \in DOMAIN q /\ s[k] = q[k]
<1>1. /\ Len(q) \in Nat /\ DOMAIN q = 1..Len(q) /\ \A i \in 1..Len(q) : q[i] \in S
  BY LenProperties, ElementOfSeq
<1>2. /\ SubSeq(q, 1, n) \in Seq(S)
      /\ Len(SubSeq(q, 1, n)) = n
      /\ \A i \in 1..n : SubSeq(q, 1, n)[i] = q[i]
  <2>1. n \in Int /\ \A i \in 1..n : q[i] \in S
    BY <1>1
  <2>2. /\ SubSeq(q, 1, n) \in Seq(S)
        /\ Len(SubSeq(q, 1, n)) = IF 1 <= n THEN n - 1 + 1 ELSE 0
        /\ \A i \in 1..(n - 1 + 1) : SubSeq(q, 1, n)[i] = q[1 + i - 1]
    BY <2>1, SubSeqProperties
  <2> QED
    BY <1>1, <2>2
<1>3. DOMAIN SubSeq(q, 1, n) = 1..n
  BY <1>2, LenProperties
<1> QED
  BY <1>1, <1>2, <1>3

LEMMA Joined ==
  ASSUME NEW S, NEW q \in Seq(S), NEW n \in 0..Len(q)
  PROVE  SubSeq(q, 1, n) \o SubSeq(q, n + 1, Len(q)) = q
<1>1. Len(q) \in Nat
  BY LenProperties
<1>2. 1 \in 1..(Len(q) + 1) /\ n \in (1 - 1)..Len(q) /\ Len(q) \in n..Len(q)
  BY <1>1
<1>3. SubSeq(q, 1, n) \o SubSeq(q, n + 1, Len(q)) = SubSeq(q, 1, Len(q))
  BY <1>2, ConcatAdjacentSubSeq
<1> QED
  BY <1>3, SubSeqFull

LEMMA Concat ==
  ASSUME NEW S, NEW p \in Seq(S), NEW q \in Seq(S)
  PROVE  /\ p \o q \in Seq(S) /\ Len(p \o q) = Len(p) + Len(q) /\ DOMAIN (p \o q) = 1..(Len(p) + Len(q))
         /\ Len(p) \in Nat /\ Len(q) \in Nat /\ DOMAIN p = 1..Len(p) /\ DOMAIN q = 1..Len(q)
         /\ \A k \in DOMAIN p : k \in DOMAIN (p \o q) /\ (p \o q)[k] = p[k]
         /\ \A k \in DOMAIN q : k + Len(p) \in DOMAIN (p \o q) /\ (p \o q)[k + Len(p)] = q[k]
         /\ \A k \in DOMAIN (p \o q) : k > Len(p) => k - Len(p) \in DOMAIN q /\ (p \o q)[k] = q[k - Len(p)]
         /\ \A k \in DOMAIN (p \o q) : k <= Len(p) => k \in DOMAIN p /\ (p \o q)[k] = p[k]
<1>1. /\ Len(p) \in Nat /\ Len(q) \in Nat /\ DOMAIN p = 1..Len(p) /\ DOMAIN q = 1..Len(q)
  BY LenProperties
<1>2. /\ p \o q \in Seq(S) /\ Len(p \o q) = Len(p) + Len(q)
      /\ \A i \in 1..(Len(p) + Len(q)) : (p \o q)[i] = IF i <= Len(p) THEN p[i] ELSE q[i - Len(p)]
  BY ConcatProperties
<1>3. DOMAIN (p \o q) = 1..(Len(p) + Len(q))
  BY <1>2, LenProperties
<1> QED
  BY <1>1, <1>2, <1>3

LEMMA Appended ==
  ASSUME NEW S, NEW q \in Seq(S), NEW e \in S
  PROVE  LET s == Append(q, e)
         IN  /\ s \in Seq(S) /\ Len(s) = Len(q) + 1 /\ DOMAIN s = 1..(Len(q) + 1)
             /\ Len(q) \in Nat /\ DOMAIN q = 1..Len(q)
             /\ \A k \in DOMAIN q : s[k] = q[k]
             /\ s[Len(q) + 1] = e
<1>1. Append(q, e) \in Seq(S) /\ Len(Append(q, e)) = Len(q) + 1
  BY AppendProperties
<1>2. DOMAIN Append(q, e) = 1..(Len(q) + 1) /\ Len(q) \in Nat /\ DOMAIN q = 1..Len(q)
  BY <1>1, LenProperties
<1> QED
  BY <1>1, <1>2, AppendProperties

LEMMA Rest ==
  ASSUME NEW S, NEW q \in Seq(S), q # <<>>
  PROVE  /\ Head(q) = q[1] /\ 1 \in DOMAIN q /\ Head(q) \in S
         /\ Tail(q) \in Seq(S) /\ Len(Tail(q)) = Len(q) - 1 /\ DOMAIN Tail(q) = 1..(Len(q) - 1)
         /\ Len(q) \in Nat \ {0} /\ DOMAIN q = 1..Len(q)
         /\ \A k \in DOMAIN Tail(q) : k + 1 \in DOMAIN q /\ Tail(q)[k] = q[k + 1]
<1>1. Head(q) \in S /\ Tail(q) \in Seq(S) /\ Len(Tail(q)) = Len(q) - 1
      /\ \A i \in 1..Len(Tail(q)) : Tail(q)[i] = q[i + 1]
  BY HeadTailProperties
<1>2. Len(q) \in Nat \ {0} /\ DOMAIN q = 1..Len(q) /\ DOMAIN Tail(q) = 1..Len(Tail(q))
  BY <1>1, EmptySeq, LenProperties
<1> QED
  BY <1>1, <1>2

(* Lines and notes.                                                        *)
LEMMA NoteType ==
  ASSUME NEW e \in Notes
  PROVE  /\ e.line \in 0..Len(Script) /\ e.gone \in Nat
         /\ e.line = 0 <=> e.gone > 0
         /\ e.upto \in Nat /\ e = [line |-> e.line, gone |-> e.gone, upto |-> e.upto]
<1>1. Len(Script) \in Nat
  BY ScriptAssumption, LenProperties
<1> QED
  BY <1>1 DEF Notes, Line, Marker

LEMMA SeqNote ==
  ASSUME NEW q \in Seq(Notes), NEW k \in DOMAIN q
  PROVE  k \in Nat \ {0} /\ q[k] \in Notes /\ q[k].line \in 0..Len(Script) /\ q[k].gone \in Nat
<1>1. k \in 1..Len(q) /\ Len(q) \in Nat
  BY LenProperties
<1> QED
  BY <1>1, ElementOfSeq, NoteType

LEMMA InLines ==
  ASSUME NEW q, NEW n
  PROVE  n \in LinesOf(q) <=> n # 0 /\ \E k \in DOMAIN q : q[k].line = n
BY DEF LinesOf

-----------------------------------------------------------------------------
(* Waiting lines: dropping the oldest, sending some, printing one more.    *)
LEMMA Elements ==
  ASSUME NEW q \in Seq(Notes)
  PROVE  /\ Len(q) \in Nat /\ DOMAIN q = 1..Len(q)
         /\ \A k \in DOMAIN q : k \in Nat \ {0} /\ q[k] \in Notes /\ q[k].line \in 0..Len(Script)
                                /\ q[k].line \in Nat /\ q[k].gone \in Nat
<1>1. Len(q) \in Nat /\ DOMAIN q = 1..Len(q) /\ Len(Script) \in Nat
  BY LenProperties, ScriptAssumption
<1> QED
  BY <1>1, SeqNote

LEMMA LinesJoined ==
  ASSUME NEW p \in Seq(Notes), NEW q \in Seq(Notes)
  PROVE  LinesOf(p \o q) = LinesOf(p) \cup LinesOf(q)
<1> DEFINE w == p \o q
<1>1. /\ Len(p) \in Nat /\ DOMAIN p = 1..Len(p) /\ DOMAIN w \subseteq Nat
      /\ \A k \in DOMAIN p : k \in DOMAIN w /\ w[k] = p[k]
      /\ \A k \in DOMAIN q : k + Len(p) \in DOMAIN w /\ w[k + Len(p)] = q[k]
      /\ \A k \in DOMAIN w : k > Len(p) => k - Len(p) \in DOMAIN q /\ w[k] = q[k - Len(p)]
      /\ \A k \in DOMAIN w : k <= Len(p) => k \in DOMAIN p /\ w[k] = p[k]
  BY Concat
<1> HIDE DEF w
<1>2. ASSUME NEW k \in DOMAIN w
      PROVE  (\E i \in DOMAIN p : p[i] = w[k]) \/ (\E i \in DOMAIN q : q[i] = w[k])
  <2>1. k <= Len(p) \/ k > Len(p)
    BY <1>1
  <2> QED
    BY <1>1, <2>1
<1>3. LinesOf(w) \subseteq LinesOf(p) \cup LinesOf(q)
  BY <1>2 DEF LinesOf
<1>4. LinesOf(p) \subseteq LinesOf(w) /\ LinesOf(q) \subseteq LinesOf(w)
  BY <1>1 DEF LinesOf
<1> QED
  BY <1>3, <1>4 DEF w

LEMMA CoveredTrimmed ==
  ASSUME NEW p \in Seq(Notes), NEW q \in Seq(Notes), NEW e \in 0..Len(q), NEW m \in Nat, NEW S,
         Covered(p \o q, m, S)
  PROVE  Covered(p \o SubSeq(q, e + 1, Len(q)), m, S \cup LinesOf(SubSeq(q, 1, e)))
<1> DEFINE s == SubSeq(q, e + 1, Len(q))
           d == SubSeq(q, 1, e)
<1>1. /\ s \in Seq(Notes) /\ d \in Seq(Notes) /\ d \o s = q /\ Len(s) = Len(q) - e
      /\ \A k \in DOMAIN s : k + e \in DOMAIN q /\ s[k] = q[k + e]
  <2>1. s \in Seq(Notes) /\ Len(s) = Len(q) - e /\ \A k \in DOMAIN s : k + e \in DOMAIN q
          /\ s[k] = q[k + e]
    BY SuffixOf
  <2>2. d \in Seq(Notes)
    BY PrefixOf
  <2>3. d \o s = q
    BY Joined
  <2> QED
    BY <2>1, <2>2, <2>3
<1> HIDE DEF s, d
<1>2. /\ LinesOf(p \o q) = LinesOf(p) \cup LinesOf(d) \cup LinesOf(s)
      /\ LinesOf(p \o s) = LinesOf(p) \cup LinesOf(s)
  <2>1. LinesOf(q) = LinesOf(d) \cup LinesOf(s)
    BY <1>1, LinesJoined
  <2>2. LinesOf(p \o q) = LinesOf(p) \cup LinesOf(q)
    BY LinesJoined
  <2>3. LinesOf(p \o s) = LinesOf(p) \cup LinesOf(s)
    BY <1>1, LinesJoined
  <2> QED
    BY <2>1, <2>2, <2>3
<1> DEFINE at(k) == IF k <= Len(p) THEN k ELSE k + e
<1>3. ASSUME NEW k \in DOMAIN (p \o s)
      PROVE  at(k) \in DOMAIN (p \o q) /\ (p \o s)[k] = (p \o q)[at(k)] /\ k \in Nat
  <2>0. s \in Seq(Notes) /\ e \in Nat
    BY <1>1, Elements
  <2>1. DOMAIN (p \o s) = 1..(Len(p) + Len(s)) /\ Len(p) \in Nat /\ Len(s) \in Nat
    BY <2>0, Concat
  <2>2. CASE k <= Len(p)
    <3>1. k \in DOMAIN p /\ (p \o s)[k] = p[k]
      BY <1>1, <2>2, Concat
    <3>2. k \in DOMAIN (p \o q) /\ (p \o q)[k] = p[k]
      BY <3>1, Concat
    <3> QED
      BY <2>1, <2>2, <3>1, <3>2
  <2>3. CASE k > Len(p)
    <3>1. k - Len(p) \in DOMAIN s /\ (p \o s)[k] = s[k - Len(p)]
      BY <1>1, <2>3, Concat
    <3>2. k - Len(p) + e \in DOMAIN q /\ s[k - Len(p)] = q[k - Len(p) + e]
      BY <1>1, <3>1
    <3>3. k - Len(p) + e + Len(p) \in DOMAIN (p \o q)
            /\ (p \o q)[k - Len(p) + e + Len(p)] = q[k - Len(p) + e]
      BY <3>2, Concat
    <3>4. k - Len(p) + e + Len(p) = k + e /\ k \in Nat /\ ~(k <= Len(p))
      BY <2>0, <2>1, <2>3
    <3> QED
      BY <3>1, <3>2, <3>3, <3>4
  <2> QED
    BY <2>1, <2>2, <2>3
<1>4. ASSUME NEW i \in DOMAIN (p \o s), NEW j \in DOMAIN (p \o s), i < j
      PROVE  at(i) < at(j)
  BY <1>3, <1>4, Concat
<1> HIDE DEF at
<1>5. Sorted(p \o s)
  BY <1>3, <1>4 DEF Covered, Sorted
<1>6. Below(p \o s, m)
  BY <1>3 DEF Covered, Below
<1> QED
  BY <1>2, <1>5, <1>6 DEF Covered, s, d

LEMMA CoveredSent ==
  ASSUME NEW p \in Seq(Notes), NEW q \in Seq(Notes), NEW m \in Nat, NEW S,
         Covered(p \o q, m, S), LinesOf(p) \subseteq S
  PROVE  Covered(q, m, S)
<1>1. \A k \in DOMAIN q : k + Len(p) \in DOMAIN (p \o q) /\ (p \o q)[k + Len(p)] = q[k] /\ k \in Nat
  BY Concat, Elements
<1>2. LinesOf(p \o q) = LinesOf(p) \cup LinesOf(q) /\ Len(p) \in Nat
  BY LinesJoined, Concat
<1>3. Sorted(q)
  <2> SUFFICES ASSUME NEW i \in DOMAIN q, NEW j \in DOMAIN q, i < j, q[j].line > 0
               PROVE  q[i].line < q[j].line
    BY DEF Sorted
  <2>1. i + Len(p) < j + Len(p)
    BY <1>1, <1>2
  <2> QED
    BY <1>1, <2>1 DEF Covered, Sorted
<1>4. Below(q, m)
  BY <1>1 DEF Covered, Below
<1> QED
  BY <1>2, <1>3, <1>4 DEF Covered

LEMMA CoveredNote ==
  ASSUME NEW q \in Seq(Notes), NEW m \in Nat, NEW S, NEW n \in {0, m + 1},
         NEW e \in Notes, e.line = n, Covered(q, m, S)
  PROVE  Covered(Append(q, e), IF n = 0 THEN m ELSE n, S)
<1> DEFINE a == Append(q, e)
           M == IF n = 0 THEN m ELSE n
<1>1. /\ DOMAIN a = 1..(Len(q) + 1) /\ Len(q) \in Nat /\ DOMAIN q = 1..Len(q)
      /\ \A h \in DOMAIN q : a[h] = q[h]
      /\ a[Len(q) + 1] = e
  BY Appended
<1> HIDE DEF a
<1>2. \A h \in DOMAIN q : q[h].line \in Nat /\ q[h].line <= m
  BY Elements DEF Covered, Below
<1>3. Below(a, M)
  BY <1>1, <1>2 DEF Below
<1>4. Sorted(a)
  <2> SUFFICES ASSUME NEW i \in DOMAIN a, NEW j \in DOMAIN a, i < j, a[j].line > 0
               PROVE  a[i].line < a[j].line
    BY DEF Sorted
  <2>1. i \in DOMAIN q /\ a[i] = q[i]
    BY <1>1
  <2>2. CASE j \in DOMAIN q
    BY <1>1, <2>1, <2>2 DEF Covered, Sorted
  <2>3. CASE j \notin DOMAIN q
    <3>1. j = Len(q) + 1
      BY <1>1, <2>3
    <3> QED
      BY <1>1, <1>2, <2>1, <3>1
  <2> QED
    BY <2>2, <2>3
<1>5. LinesOf(q) \subseteq LinesOf(a) /\ (n # 0 => n \in LinesOf(a))
  BY <1>1 DEF LinesOf
<1>6. 1..M \subseteq (1..m) \cup {n} /\ (n = 0 => M = m)
  OBVIOUS
<1> QED
  BY <1>3, <1>4, <1>5, <1>6 DEF Covered, a

LEMMA CoveredWider ==
  ASSUME NEW q, NEW m, NEW S, NEW T, Covered(q, m, S), S \subseteq T
  PROVE  Covered(q, m, T)
BY DEF Covered

(* Lines in order.                                                         *)
LEMMA OrderlyWider ==
  ASSUME NEW q \in Seq(Notes), NEW m \in Nat, NEW w \in Nat, NEW S, NEW T,
         Orderly(q, m, S), m <= w, S \subseteq T
  PROVE  Orderly(q, w, T)
<1>1. Below(q, w)
  BY Elements DEF Orderly, Below
<1> QED
  BY <1>1 DEF Orderly

LEMMA OrderlyEmpty ==
  ASSUME NEW m, NEW S
  PROVE  Orderly(<<>>, m, S)
BY DEF Orderly, Below

LEMMA OrderlyAllSeen ==
  ASSUME NEW q \in Seq(Notes), NEW m \in Nat, NEW S, Below(q, m), 1..m \subseteq S
  PROVE  Orderly(q, m, S)
BY Elements DEF Orderly, Below

LEMMA OrderlyBatch ==
  ASSUME NEW p \in Seq(Notes), NEW q \in Seq(Notes), NEW m \in Nat, NEW S, Covered(p \o q, m, S)
  PROVE  Orderly(p, m, S)
<1> DEFINE w == p \o q
<1>1. /\ w \in Seq(Notes) /\ \A k \in DOMAIN p : k \in DOMAIN w /\ w[k] = p[k]
      /\ DOMAIN p = 1..Len(p) /\ Len(p) \in Nat /\ DOMAIN w = 1..Len(w) /\ Len(w) \in Nat
  BY Concat, Elements
<1> HIDE DEF w
<1>2. Sorted(w) /\ Below(w, m) /\ 1..m \subseteq S \cup LinesOf(w)
  BY DEF Covered, w
<1>3. \A k \in DOMAIN w : w[k].line \in Nat
  BY <1>1, Elements
<1>4. Below(p, m)
  BY <1>1, <1>2 DEF Below
<1>5. ASSUME NEW k \in DOMAIN p, NEW n \in 1..(p[k].line - 1), n \notin S
      PROVE  \E h \in 1..(k - 1) : p[h].line = n
  <2>1. p[k].line \in Nat /\ p[k].line <= m /\ w[k].line = p[k].line /\ k \in DOMAIN w
    BY <1>1, <1>2, <1>3 DEF Below
  <2>2. n \in LinesOf(w)
    BY <1>2, <1>5, <2>1
  <2>3. PICK h \in DOMAIN w : w[h].line = n
    BY <2>2, InLines
  <2>4. ~(k < h) /\ h # k
    BY <1>2, <2>1, <2>3 DEF Sorted
  <2>5. h \in 1..(k - 1) /\ h \in DOMAIN p
    BY <1>1, <2>1, <2>4
  <2> QED
    BY <1>1, <2>3, <2>5
<1> QED
  BY <1>4, <1>5 DEF Orderly

LEMMA OrderlyJoined ==
  ASSUME NEW p \in Seq(Notes), NEW q \in Seq(Notes), NEW m \in Nat, NEW S,
         Orderly(p, m, S), Orderly(q, m, S)
  PROVE  Orderly(p \o q, m, S)
<1> DEFINE w == p \o q
<1>1. /\ DOMAIN p = 1..Len(p) /\ Len(p) \in Nat /\ DOMAIN w = 1..(Len(p) + Len(q)) /\ Len(q) \in Nat
      /\ DOMAIN q = 1..Len(q)
      /\ \A k \in DOMAIN p : k \in DOMAIN w /\ w[k] = p[k]
      /\ \A k \in DOMAIN q : k + Len(p) \in DOMAIN w /\ w[k + Len(p)] = q[k]
      /\ \A k \in DOMAIN w : k > Len(p) => k - Len(p) \in DOMAIN q /\ w[k] = q[k - Len(p)]
  BY Concat
<1> HIDE DEF w
<1>2. ASSUME NEW k \in DOMAIN w, k <= Len(p)
      PROVE  w[k].line <= m /\ \A n \in 1..(w[k].line - 1) : n \in S \/ \E h \in 1..(k - 1) : w[h].line = n
  <2>1. k \in DOMAIN p /\ w[k] = p[k] /\ \A h \in 1..(k - 1) : h \in DOMAIN p
    BY <1>1, <1>2
  <2> QED
    BY <1>1, <2>1 DEF Orderly, Below
<1>3. ASSUME NEW k \in DOMAIN w, k > Len(p)
      PROVE  w[k].line <= m /\ \A n \in 1..(w[k].line - 1) : n \in S \/ \E h \in 1..(k - 1) : w[h].line = n
  <2>1. k - Len(p) \in DOMAIN q /\ w[k] = q[k - Len(p)]
    BY <1>1, <1>3
  <2>2. ASSUME NEW h \in 1..(k - Len(p) - 1)
        PROVE  h + Len(p) \in 1..(k - 1) /\ w[h + Len(p)] = q[h]
    <3>1. k \in 1..(Len(p) + Len(q)) /\ k - Len(p) \in 1..Len(q)
      BY <1>1, <2>1
    <3>2. h \in 1..Len(q) /\ h + Len(p) \in 1..(k - 1)
      BY <1>1, <3>1
    <3> QED
      BY <1>1, <3>2
  <2>3. w[k].line <= m
    BY <2>1 DEF Orderly, Below
  <2>4. ASSUME NEW n \in 1..(w[k].line - 1), n \notin S
        PROVE  \E h \in 1..(k - 1) : w[h].line = n
    <3>1. PICK h \in 1..(k - Len(p) - 1) : q[h].line = n
      BY <2>1, <2>4 DEF Orderly
    <3> QED
      BY <2>2, <3>1
  <2> QED
    BY <2>3, <2>4
<1>4. \A k \in DOMAIN w : k <= Len(p) \/ k > Len(p)
  BY <1>1
<1>5. Below(w, m)
  BY <1>2, <1>3, <1>4 DEF Below
<1> QED
  BY <1>2, <1>3, <1>4, <1>5 DEF Orderly, w

LEMMA OrderlyTail ==
  ASSUME NEW q \in Seq(Notes), q # <<>>, NEW m \in Nat, NEW S, Orderly(q, m, S)
  PROVE  Orderly(Tail(q), m, S \cup {Head(q).line})
<1> DEFINE t == Tail(q)
<1>1. /\ Head(q) = q[1] /\ 1 \in DOMAIN q
      /\ DOMAIN t = 1..(Len(q) - 1)
      /\ Len(q) \in Nat \ {0} /\ DOMAIN q = 1..Len(q)
      /\ \A k \in DOMAIN t : k + 1 \in DOMAIN q /\ t[k] = q[k + 1]
  BY Rest
<1> HIDE DEF t
<1>2. Below(t, m)
  BY <1>1 DEF Orderly, Below
<1>3. ASSUME NEW k \in DOMAIN t, NEW n \in 1..(t[k].line - 1), n \notin S \cup {Head(q).line}
      PROVE  \E h \in 1..(k - 1) : t[h].line = n
  <2>1. PICK h \in 1..(k + 1 - 1) : q[h].line = n
    BY <1>1, <1>3 DEF Orderly
  <2>2. h # 1
    BY <1>1, <1>3, <2>1
  <2>3. h - 1 \in 1..(k - 1) /\ h - 1 \in DOMAIN t /\ (h - 1) + 1 = h
    BY <1>1, <2>1, <2>2
  <2> QED
    BY <1>1, <2>1, <2>3
<1> QED
  BY <1>2, <1>3 DEF Orderly, t

(* The log and a line that is next.                                        *)
LEMMA OrderlyLogged ==
  ASSUME NEW l \in Seq(Notes), NEW q \in Seq(Notes), q # <<>>, NEW m \in Nat, NEW S,
         Orderly(l, m, S), Orderly(q, m, S \cup LinesOf(l))
  PROVE  /\ Append(l, Head(q)) \in Seq(Notes)
         /\ Orderly(Append(l, Head(q)), m, S)
         /\ Orderly(Tail(q), m, S \cup LinesOf(Append(l, Head(q))))
<1> DEFINE a == Append(l, Head(q))
<1>1. Head(q) = q[1] /\ 1 \in DOMAIN q /\ Head(q) \in Notes /\ Tail(q) \in Seq(Notes)
  BY Rest
<1>2. /\ a \in Seq(Notes) /\ DOMAIN a = 1..(Len(l) + 1) /\ Len(l) \in Nat /\ DOMAIN l = 1..Len(l)
      /\ \A h \in DOMAIN l : a[h] = l[h]
      /\ a[Len(l) + 1] = Head(q)
  BY <1>1, Appended
<1> HIDE DEF a
<1>3. Below(a, m)
  <2>1. Head(q).line <= m
    BY <1>1 DEF Orderly, Below
  <2> QED
    BY <1>2, <2>1 DEF Orderly, Below
<1>4. ASSUME NEW k \in DOMAIN a, NEW n \in 1..(a[k].line - 1), n \notin S
      PROVE  \E h \in 1..(k - 1) : a[h].line = n
  <2>1. CASE k \in DOMAIN l
    <3>1. n \in 1..(l[k].line - 1)
      BY <1>2, <1>4, <2>1
    <3>2. PICK h \in 1..(k - 1) : l[h].line = n
      BY <1>4, <2>1, <3>1 DEF Orderly
    <3>3. h \in DOMAIN l
      BY <1>2, <2>1, <3>2
    <3> QED
      BY <1>2, <3>2, <3>3
  <2>2. CASE k \notin DOMAIN l
    <3>1. k = Len(l) + 1
      BY <1>2, <2>2
    <3>2. n \in 1..(q[1].line - 1)
      BY <1>1, <1>2, <1>4, <3>1
    <3>3. n \in LinesOf(l) \/ \E h \in 1..(1 - 1) : q[h].line = n
      BY <1>1, <1>4, <3>2 DEF Orderly
    <3>4. n \in LinesOf(l)
      BY <3>3
    <3>5. PICK h \in DOMAIN l : l[h].line = n
      BY <3>4, InLines
    <3> QED
      BY <1>2, <3>1, <3>5
  <2> QED
    BY <2>1, <2>2
<1>5. Orderly(a, m, S)
  BY <1>3, <1>4 DEF Orderly
<1>6. LinesOf(l) \subseteq LinesOf(a) /\ (Head(q).line # 0 => Head(q).line \in LinesOf(a))
  BY <1>2 DEF LinesOf
<1>7. Orderly(Tail(q), m, S \cup LinesOf(l) \cup {Head(q).line})
  BY OrderlyTail
<1>8. Orderly(Tail(q), m, S \cup LinesOf(a))
  <2>1. \A k \in DOMAIN Tail(q) : \A n \in 1..(Tail(q)[k].line - 1) : n # 0
    BY <1>1, Elements
  <2> QED
    BY <1>6, <1>7, <2>1 DEF Orderly
<1> QED
  BY <1>2, <1>5, <1>8 DEF a

-----------------------------------------------------------------------------
(* What the steps do.  A request the runner posts takes a free slot: those *)
(* that are not free hold requests it has given up, at most one for each   *)
(* fault.                                                                  *)
LEMMA Sizes ==
  /\ MaxQueue \in Nat \ {0} /\ MaxBatch \in Nat \ {0} /\ MaxFaults \in Nat /\ Len(Script) \in Nat
  /\ Slots = 1..(MaxFaults + 1) /\ Free \in Requests /\ Free.kind = "none" /\ Free.lines = <<>>
  /\ Free.stage = "free" /\ Free.rec = 0 /\ Free.live = FALSE
  /\ \A i \in 1..Len(Script) : Script[i] \in LogEvents
<1>1. Len(Script) \in Nat /\ \A i \in 1..Len(Script) : Script[i] \in LogEvents
  BY ScriptAssumption, LenProperties, ElementOfSeq
<1>2. <<>> \in Seq(Notes)
  BY EmptySeq
<1> QED
  BY <1>1, <1>2, SizesAssumption DEF Slots, Free, Requests, Stages

LEMMA NewRequestType ==
  ASSUME NEW kind \in {"events", "complete"}, NEW lines \in Seq(Notes)
  PROVE  /\ NewRequest(kind, lines) \in Requests /\ NewRequest(kind, lines) # Free
         /\ NewRequest(kind, lines).kind = kind /\ NewRequest(kind, lines).lines = lines
         /\ NewRequest(kind, lines).stage = "sent" /\ NewRequest(kind, lines).rec = 0
         /\ NewRequest(kind, lines).live = TRUE
BY DEF NewRequest, Requests, Stages, Free

LEMMA SomeSlotFree ==
  ASSUME Types, RequestsOK, ~sending, phase # "complete"
  PROVE  \E i \in Slots : requests[i] = Free /\ \A k \in 1..(i - 1) : requests[k] # Free
<1>1. \A i \in Slots : ~Live(i)
  BY DEF Types, RequestsOK, SlotsOK, LiveOK, GivenOK, Requests, Live
<1>2. \A i \in Slots : requests[i] # Free => i \in Given
  BY <1>1 DEF Types, RequestsOK, SlotsOK, LiveOK, GivenOK, Requests, Live, Given
<1>3. IsFiniteSet(Slots) /\ Cardinality(Slots) = MaxFaults + 1
  <2>1. 1 \in Int /\ MaxFaults + 1 \in Int /\ ~(1 > MaxFaults + 1) /\ Slots = 1..(MaxFaults + 1)
    BY Sizes
  <2> DEFINE b == MaxFaults + 1
  <2> HIDE DEF b
  <2>2. IsFiniteSet(1..b) /\ Cardinality(1..b) = IF 1 > b THEN 0 ELSE b - 1 + 1
    BY <2>1, FS_Interval DEF b
  <2> QED
    BY <2>1, <2>2, Sizes DEF b
<1>4. Given # Slots
  BY <1>3, Sizes DEF RequestsOK, SlotsOK, LiveOK, GivenOK, Types
<1> DEFINE F == { i \in Slots : requests[i] = Free }
<1>5. F \in SUBSET Nat /\ F # {}
  BY <1>2, <1>4, Sizes DEF Given
<1>6. IsFiniteSet(F)
  BY <1>3, FS_Subset
<1> HIDE DEF F
<1>7. PICK i \in F : \A k \in F : i <= k
  BY <1>5, <1>6, SmallestOfNat
<1>8. \A k \in 1..(i - 1) : k \in Slots /\ ~(i <= k)
  BY <1>7, Sizes DEF F
<1> QED
  BY <1>7, <1>8 DEF F

LEMMA PostEffect ==
  ASSUME Types, RequestsOK, ~sending, phase # "complete", NEW kind, NEW lines, Post(kind, lines)
  PROVE  \E i \in Slots : requests[i] = Free
                           /\ requests' = [requests EXCEPT ![i] = NewRequest(kind, lines)]
<1> DEFINE i == CHOOSE n \in Slots : requests[n] = Free /\ \A k \in 1..(n - 1) : requests[k] # Free
<1>1. i \in Slots /\ requests[i] = Free
  BY SomeSlotFree
<1>2. requests' = [requests EXCEPT ![i] = NewRequest(kind, lines)]
  BY DEF Post
<1> QED
  BY <1>1, <1>2

(* The lines that go and the lines that stay.                              *)
LEMMA LinesRange ==
  ASSUME NEW q \in Seq(Notes)
  PROVE  LinesOf(q) \subseteq 1..Len(Script)
BY Elements, Sizes DEF LinesOf

LEMMA Trim ==
  ASSUME NEW q \in Seq(Notes)
  PROVE  /\ Excess(q) \in 0..Len(q) /\ Excess(q) \in Nat
         /\ SubSeq(q, Excess(q) + 1, Len(q)) \in Seq(Notes)
         /\ SubSeq(q, 1, Excess(q)) \in Seq(Notes)
         /\ LinesOf(SubSeq(q, 1, Excess(q))) \subseteq 1..Len(Script)
<1>1. Len(q) \in Nat
  BY LenProperties
<1>2. Excess(q) \in 0..Len(q) /\ Excess(q) \in Nat
  BY <1>1, Sizes DEF Excess
<1>3. SubSeq(q, Excess(q) + 1, Len(q)) \in Seq(Notes)
  BY <1>2, SuffixOf
<1>4. SubSeq(q, 1, Excess(q)) \in Seq(Notes)
  BY <1>2, PrefixOf
<1> QED
  BY <1>2, <1>3, <1>4, LinesRange

LEMMA Batch ==
  ASSUME NEW q \in Seq(Notes)
  PROVE  LET n == IF Len(q) < MaxBatch THEN Len(q) ELSE MaxBatch
         IN  /\ SubSeq(q, 1, n) \in Seq(Notes) /\ SubSeq(q, n + 1, Len(q)) \in Seq(Notes)
             /\ SubSeq(q, 1, n) \o SubSeq(q, n + 1, Len(q)) = q
             /\ q = <<>> => SubSeq(q, 1, n) = <<>> /\ SubSeq(q, n + 1, Len(q)) = <<>>
<1> DEFINE n == IF Len(q) < MaxBatch THEN Len(q) ELSE MaxBatch
<1>1. n \in 0..Len(q) /\ Len(q) \in Nat
  BY Sizes, LenProperties
<1> HIDE DEF n
<1>2. SubSeq(q, 1, n) \in Seq(Notes) /\ Len(SubSeq(q, 1, n)) = n
  BY <1>1, PrefixOf
<1>3. SubSeq(q, n + 1, Len(q)) \in Seq(Notes) /\ Len(SubSeq(q, n + 1, Len(q))) = Len(q) - n
  BY <1>1, SuffixOf
<1>4. SubSeq(q, 1, n) \o SubSeq(q, n + 1, Len(q)) = q
  BY <1>1, Joined
<1>5. ASSUME q = <<>>
      PROVE  SubSeq(q, 1, n) = <<>> /\ SubSeq(q, n + 1, Len(q)) = <<>>
  <2>1. Len(q) = 0 /\ n = 0
    BY <1>1, <1>5
  <2> QED
    BY <1>2, <1>3, <2>1, EmptySeq
<1> QED
  BY <1>2, <1>3, <1>4, <1>5 DEF n

LEMMA DropType ==
  ASSUME Types, NEW s \in Seq(Notes), Drop(s)
  PROVE  trimmed' \subseteq 1..Len(Script) /\ drops' \in Nat /\ unheard' \subseteq Int
<1>1. \A i \in DOMAIN s : About(s[i]) \subseteq Int
  BY Elements, NoteType DEF About
<1>2. trimmed' \subseteq 1..Len(Script)
  BY LinesRange DEF Drop, Types, RunnerTypes
<1>3. drops' \in Nat
  BY Elements DEF Drop, Types, RunnerTypes
<1>4. unheard' \subseteq Int
  BY <1>1 DEF Drop, Types, RunnerTypes
<1> QED
  BY <1>2, <1>3, <1>4

LEMMA KeptType ==
  ASSUME Types
  PROVE  /\ queue \in Seq(Notes) /\ batch \in Seq(Notes) /\ Kept \in Seq(Notes) /\ log \in Seq(Notes)
         /\ out \in Nat /\ out <= Len(Script) /\ trimmed \subseteq 1..Len(Script)
BY Concat, Sizes DEF Types, RunnerTypes, ServerTypes, Kept

LEMMA AnnouncedType ==
  ASSUME Types
  PROVE  Announced \in Seq(Notes)
<1>1. dropped > 0 => Marker(dropped, drops) \in Notes
  BY DEF Types, RunnerTypes, Notes
<1> QED
  BY <1>1, KeptType, Appended DEF Announced

(* A flush.                                                                *)
Flushed(i) ==
  /\ requests[i] = Free /\ requests' = [requests EXCEPT ![i] = NewRequest("events", batch')]
  /\ batch' \in Seq(Notes) /\ queue' \in Seq(Notes) /\ sending' = TRUE
  /\ Kept' = SubSeq(Announced, Excess(Announced) + 1, Len(Announced))
  /\ dropped' = Excess(Announced)
  /\ trimmed' = trimmed \cup LinesOf(SubSeq(Announced, 1, Excess(Announced)))
  /\ Drop(SubSeq(Announced, 1, Excess(Announced)))

LEMMA FlushEffect ==
  ASSUME Types, RequestsOK, ~sending, phase # "complete", StartFlush
  PROVE  \E i \in Slots : Flushed(i)
<1> DEFINE kept == SubSeq(Announced, Excess(Announced) + 1, Len(Announced))
           n == IF Len(kept) < MaxBatch THEN Len(kept) ELSE MaxBatch
<1>1. /\ dropped' = Excess(Announced)
      /\ trimmed' = trimmed \cup LinesOf(SubSeq(Announced, 1, Excess(Announced)))
      /\ Drop(SubSeq(Announced, 1, Excess(Announced)))
      /\ batch' = SubSeq(kept, 1, n)
      /\ queue' = SubSeq(kept, n + 1, Len(kept))
      /\ sending' = TRUE
      /\ Post("events", batch')
  BY DEF StartFlush, Flush, Drop
<1>2. kept \in Seq(Notes)
  BY AnnouncedType, Trim
<1> HIDE DEF kept
<1>3. /\ SubSeq(kept, 1, n) \in Seq(Notes) /\ SubSeq(kept, n + 1, Len(kept)) \in Seq(Notes)
      /\ SubSeq(kept, 1, n) \o SubSeq(kept, n + 1, Len(kept)) = kept
  BY <1>2, Batch
<1> HIDE DEF n
<1>4. Kept' = kept
  BY <1>1, <1>3 DEF Kept
<1>5. PICK i \in Slots : requests[i] = Free
        /\ requests' = [requests EXCEPT ![i] = NewRequest("events", batch')]
  BY <1>1, PostEffect
<1> QED
  BY <1>1, <1>3, <1>4, <1>5 DEF Flushed, kept

(* A request that fails: its lines are in front of the others again.       *)
LEMMA FailedEffect ==
  ASSUME Types, NEW kind, kind # "complete", Failed(kind)
  PROVE  /\ batch' = <<>> /\ sending' = FALSE /\ late' = TRUE /\ queue' \in Seq(Notes) /\ Kept' = queue' /\ out' = out
         /\ queue' = SubSeq(Kept, Excess(Kept) + 1, Len(Kept))
         /\ dropped' = dropped + Excess(Kept)
         /\ trimmed' = trimmed \cup LinesOf(SubSeq(Kept, 1, Excess(Kept)))
         /\ Drop(SubSeq(Kept, 1, Excess(Kept)))
         /\ phase' = IF phase \in {"await", "complete"} THEN "sleep" ELSE phase
<1>1. /\ queue' = SubSeq(Kept, Excess(Kept) + 1, Len(Kept))
      /\ dropped' = dropped + Excess(Kept)
      /\ trimmed' = trimmed \cup LinesOf(SubSeq(Kept, 1, Excess(Kept)))
      /\ Drop(SubSeq(Kept, 1, Excess(Kept)))
      /\ phase' = IF phase \in {"await", "complete"} THEN "sleep" ELSE phase
      /\ batch' = <<>> /\ sending' = FALSE /\ late' = TRUE /\ out' = out
  BY DEF Failed, Enqueue, Drop, Kept
<1>2. queue' \in Seq(Notes)
  BY <1>1, KeptType, Trim
<1>3. Kept' = queue'
  BY <1>1, <1>2, ConcatEmptySeq DEF Kept
<1> QED
  BY <1>1, <1>2, <1>3

(* An answer: nobody waits for it, or the next batch or the result takes   *)
(* its slot, or nothing does.                                              *)
Ignored(i) ==
  ~requests[i].live /\ requests' = [requests EXCEPT ![i] = Free] /\ UNCHANGED runnerVars

NextBatch(i) ==
  /\ requests[i].live /\ requests[i].kind = "events" /\ sending'
  /\ requests' = [requests EXCEPT ![i] = NewRequest("events", batch')]
  /\ phase' = phase

NextResult(i) ==
  /\ requests[i].live /\ requests[i].kind = "events" /\ ~sending' /\ phase = "await"
  /\ requests' = [requests EXCEPT ![i] = NewRequest("complete", <<>>)]
  /\ phase' = "complete"
  /\ queue = <<>> /\ batch' = <<>>

NextNothing(i) ==
  /\ requests[i].live /\ requests[i].kind = "events" /\ ~sending' /\ phase # "await"
  /\ requests' = [requests EXCEPT ![i] = Free]
  /\ phase' = phase
  /\ queue = <<>> /\ batch' = <<>>

NextLines ==
  /\ batch' \in Seq(Notes) /\ queue' \in Seq(Notes) /\ Kept' = queue /\ late' = FALSE
  /\ UNCHANGED <<out, dropped, lost>>

ResultTaken(i) ==
  /\ requests[i].live /\ requests[i].kind = "complete"
  /\ requests' = [requests EXCEPT ![i] = Free]
  /\ phase' = "over"
  /\ UNCHANGED <<out, queue, dropped, late, batch, sending, lost>>

LEMMA AnswerEffect ==
  ASSUME Types, RequestsOK, NEW i \in Slots, requests[i] # Free, Answer(i)
  PROVE  \/ Ignored(i)
         \/ NextLines /\ (NextBatch(i) \/ NextResult(i) \/ NextNothing(i))
         \/ ResultTaken(i)
<1>1. /\ requests[i].live \in BOOLEAN /\ requests[i].kind \in {"none", "events", "complete"}
      /\ requests[i].kind # "none" /\ queue \in Seq(Notes)
  BY KeptType DEF Types, RequestsOK, SlotsOK, LiveOK, GivenOK, Requests
<1>2. CASE ~requests[i].live
  BY <1>2 DEF Answer, Ignored
<1>3. CASE requests[i].live /\ requests[i].kind = "complete"
  BY <1>3 DEF Answer, ResultAnswered, ResultTaken
<1>4. CASE requests[i].live /\ requests[i].kind = "events"
  <2> DEFINE n == IF Len(queue) < MaxBatch THEN Len(queue) ELSE MaxBatch
  <2>1. /\ late' = FALSE
        /\ batch' = SubSeq(queue, 1, n)
        /\ queue' = SubSeq(queue, n + 1, Len(queue))
        /\ sending' = (queue # <<>>)
        /\ phase' = IF queue = <<>> /\ phase = "await" THEN "complete" ELSE phase
        /\ requests' = [requests EXCEPT ![i] =
                          IF queue # <<>> THEN NewRequest("events", batch')
                          ELSE IF phase = "await" THEN NewRequest("complete", <<>>) ELSE Free]
        /\ UNCHANGED <<out, dropped, lost>>
    BY <1>4 DEF Answer, BatchAnswered
  <2>2. /\ SubSeq(queue, 1, n) \in Seq(Notes) /\ SubSeq(queue, n + 1, Len(queue)) \in Seq(Notes)
        /\ SubSeq(queue, 1, n) \o SubSeq(queue, n + 1, Len(queue)) = queue
        /\ queue = <<>> => SubSeq(queue, 1, n) = <<>>
    BY <1>1, Batch
  <2> HIDE DEF n
  <2>4. NextLines
    BY <2>1, <2>2 DEF NextLines, Kept
  <2>5. CASE queue # <<>>
    BY <1>4, <2>1, <2>4, <2>5 DEF NextBatch
  <2>6. CASE queue = <<>> /\ phase = "await"
    BY <1>4, <2>1, <2>2, <2>4, <2>6 DEF NextResult
  <2>7. CASE queue = <<>> /\ phase # "await"
    BY <1>4, <2>1, <2>2, <2>4, <2>7 DEF NextNothing
  <2> QED
    BY <2>5, <2>6, <2>7
<1> QED
  BY <1>1, <1>2, <1>3, <1>4

-----------------------------------------------------------------------------
(* Type correctness.  What a line does to a job and its row.               *)
LEMMA FunSeq ==
  ASSUME NEW S, NEW n \in Nat, NEW f \in [1..n -> S]
  PROVE  f \in Seq(S) /\ Len(f) = n /\ DOMAIN f = 1..n
<1>1. f \in Seq(S)
  BY SeqDef
<1> QED
  BY <1>1, LenProperties

LEMMA SetToSeqFacts ==
  ASSUME NEW S, NEW T \in SUBSET S, IsFiniteSet(T)
  PROVE  /\ SetToSeq(T) \in Seq(S)
         /\ \A k \in DOMAIN SetToSeq(T) : SetToSeq(T)[k] \in T
         /\ \A k, l \in DOMAIN SetToSeq(T) : SetToSeq(T)[k] = SetToSeq(T)[l] => k = l
<1>1. Cardinality(T) \in Nat /\ ExistsBijection(1..Cardinality(T), T)
  BY FS_CardinalityType
<1>2. PICK f \in [1..Cardinality(T) -> T] : IsInjective(f)
  BY <1>1 DEF ExistsBijection, Bijection, Injection, IsInjective
<1>3. SetToSeq(T) \in [1..Cardinality(T) -> T] /\ IsInjective(SetToSeq(T))
  BY <1>2 DEF SetToSeq
<1>4. SetToSeq(T) \in [1..Cardinality(T) -> S]
  BY <1>3
<1> QED
  BY <1>1, <1>3, <1>4, FunSeq DEF IsInjective

LEMMA EventType ==
  ASSUME NEW n \in 1..Len(Script)
  PROVE  /\ Script[n] \in LogEvents /\ Script[n].job \in Jobs /\ Script[n].step \in Nat
         /\ Script[n].event \in {"start", "finish", "end"} /\ Script[n].result \in Results
         /\ Results \subseteq States /\ "in_progress" \in States /\ "in_progress" \notin Results
BY Sizes DEF LogEvents, Results, States

LEMMA LastStepFacts ==
  ASSUME NEW steps \in Seq(Steps), NEW key
  PROVE  LET n == LastStep(steps, key)
         IN  \/ n = 0 /\ \A k \in DOMAIN steps : steps[k].key # key
             \/ n \in DOMAIN steps /\ steps[n].key = key
                /\ \A k \in DOMAIN steps : steps[k].key = key => k <= n
<1> DEFINE at == { n \in DOMAIN steps : steps[n].key = key }
<1>1. CASE at = {}
  BY <1>1 DEF LastStep
<1>2. CASE at # {}
  <2>1. at \in SUBSET Nat /\ Len(steps) \in Nat /\ \A n \in at : n <= Len(steps)
    BY LenProperties
  <2>2. \E n \in at : \A k \in at : k <= n
    BY <1>2, <2>1, LargestOfNat
  <2>3. LastStep(steps, key) = CHOOSE n \in at : \A k \in at : k <= n
    BY <1>2 DEF LastStep
  <2> QED
    BY <2>2, <2>3
<1> QED
  BY <1>1, <1>2

LEMMA HandledType ==
  ASSUME NEW job \in JobStates, NEW e \in LogEvents
  PROVE  Handled(job, e) \in JobStates /\ Handled(job, e).row = job.row
<1>1. /\ e.event \in {"start", "finish", "end"} /\ e.step \in Nat /\ e.result \in States
      /\ "in_progress" \in States /\ job.steps \in Seq(Steps)
  BY DEF LogEvents, States, Results, JobStates
<1>2. CASE e.event = "start"
  <2>1. [key |-> e.step, status |-> "in_progress"] \in Steps
    BY <1>1 DEF Steps
  <2>2. Append(job.steps, [key |-> e.step, status |-> "in_progress"]) \in Seq(Steps)
    BY <1>1, <2>1, AppendProperties
  <2>3. Handled(job, e) = [job EXCEPT !.steps = Append(job.steps, [key |-> e.step, status |-> "in_progress"])]
    BY <1>2 DEF Handled
  <2> QED
    BY <2>2, <2>3 DEF JobStates
<1>3. CASE e.event = "finish"
  <2> DEFINE n == LastStep(job.steps, e.step)
  <2>1. Handled(job, e) = IF n = 0 THEN job ELSE [job EXCEPT !.steps[n].status = e.result]
    BY <1>3 DEF Handled
  <2>2. n = 0 \/ n \in DOMAIN job.steps
    BY <1>1, LastStepFacts
  <2> HIDE DEF n
  <2>3. CASE n = 0
    BY <2>1, <2>3
  <2>4. CASE n # 0
    <3>1. n \in 1..Len(job.steps)
      BY <1>1, <2>2, <2>4, LenProperties
    <3>2. job.steps[n] \in Steps
      BY <1>1, <3>1, ElementOfSeq
    <3>3. [job.steps[n] EXCEPT !.status = e.result] \in Steps
      BY <1>1, <3>2 DEF Steps
    <3>4. [job.steps EXCEPT ![n] = [job.steps[n] EXCEPT !.status = e.result]] \in Seq(Steps)
      BY <1>1, <3>1, <3>3, ExceptSeq
    <3>5. Handled(job, e) = [job EXCEPT !.steps = [job.steps EXCEPT ![n] = [job.steps[n] EXCEPT !.status = e.result]]]
      BY <2>1, <2>4
    <3> QED
      BY <3>4, <3>5 DEF JobStates
  <2> QED
    BY <2>3, <2>4
<1>4. CASE e.event = "end"
  <2>1. Handled(job, e) = [job EXCEPT !.status = e.result]
    BY <1>4 DEF Handled
  <2> QED
    BY <1>1, <2>1 DEF JobStates
<1> QED
  BY <1>1, <1>2, <1>3, <1>4

LEMMA StartedType ==
  ASSUME Types
  PROVE  /\ StartedJob \in JobStates /\ StartedJob.row = Len(rows) + 1 /\ StartedJob.row # 0
         /\ StartedJob.status = "in_progress" /\ StartedJob.steps = <<>>
         /\ \A r \in DOMAIN recorders : \A j \in Jobs : Started(recorders[r], j) \in JobStates
<1>1. Len(rows) \in Nat /\ <<>> \in Seq(Steps) /\ "in_progress" \in States
  BY LenProperties, EmptySeq DEF Types, ServerTypes, States
<1>2. StartedJob \in JobStates /\ StartedJob.row = Len(rows) + 1 /\ StartedJob.row # 0
      /\ StartedJob.status = "in_progress" /\ StartedJob.steps = <<>>
  BY <1>1 DEF StartedJob, JobStates
<1>3. ASSUME NEW r \in DOMAIN recorders, NEW j \in Jobs
      PROVE  Started(recorders[r], j) \in JobStates
  <2>1. recorders[r] \in Recorders
    BY LenProperties, ElementOfSeq DEF Types, ServerTypes
  <2> QED
    BY <1>2, <2>1 DEF Started, Recorders
<1> QED
  BY <1>2, <1>3

LEMMA RowFacts ==
  ASSUME Types
  PROVE  /\ Len(rows) \in Nat /\ DOMAIN rows = 1..Len(rows)
         /\ \A n \in DOMAIN rows : rows[n] \in Rows /\ rows[n].job \in Jobs /\ rows[n].status \in States
                                   /\ rows[n].steps \in Seq(Steps)
<1>1. Len(rows) \in Nat /\ DOMAIN rows = 1..Len(rows) /\ \A n \in 1..Len(rows) : rows[n] \in Rows
  BY LenProperties, ElementOfSeq DEF Types, ServerTypes
<1> QED
  BY <1>1 DEF Rows

RowAt(job) == IF job.row > Len(rows) THEN Len(rows) + 1 ELSE job.row

LEMMA PersistEffect ==
  ASSUME Types, NEW j \in Jobs, NEW job \in JobStates, job.row # 0
  PROVE  /\ Persist(rows, j, job) \in Seq(Rows)
         /\ DOMAIN Persist(rows, j, job) = DOMAIN rows \cup {RowAt(job)}
         /\ Persist(rows, j, job)[RowAt(job)] = [job |-> j, status |-> job.status, steps |-> job.steps]
         /\ \A k \in DOMAIN rows : k # RowAt(job) => Persist(rows, j, job)[k] = rows[k]
<1> DEFINE m == RowAt(job)
<1> DEFINE row == [job |-> j, status |-> job.status, steps |-> job.steps]
<1>1. row \in Rows /\ Len(rows) \in Nat /\ job.row \in Nat /\ DOMAIN rows = 1..Len(rows)
  BY RowFacts DEF Rows, JobStates
<1> HIDE DEF row
<1>2. CASE job.row > Len(rows)
  <2>1. Persist(rows, j, job) = Append(rows, row)
    BY <1>2 DEF Persist, row
  <2>3. rows \in Seq(Rows)
    BY DEF Types, ServerTypes
  <2>2. /\ Append(rows, row) \in Seq(Rows) /\ DOMAIN Append(rows, row) = 1..(Len(rows) + 1)
        /\ \A k \in DOMAIN rows : Append(rows, row)[k] = rows[k]
        /\ Append(rows, row)[Len(rows) + 1] = row
    BY <1>1, <2>3, Appended
  <2> QED
    BY <1>1, <1>2, <2>1, <2>2 DEF row, RowAt
<1>3. CASE ~(job.row > Len(rows))
  <2>1. Persist(rows, j, job) = [rows EXCEPT ![job.row] = row]
    BY <1>3 DEF Persist, row
  <2>2. job.row \in 1..Len(rows)
    BY <1>1, <1>3
  <2>6. rows \in Seq(Rows)
    BY DEF Types, ServerTypes
  <2>3. [rows EXCEPT ![job.row] = row] \in Seq(Rows)
    BY <1>1, <2>2, <2>6, ExceptSeq
  <2>4. m = job.row /\ m \in DOMAIN rows
    BY <1>1, <1>3, <2>2 DEF RowAt
  <2>5. /\ DOMAIN [rows EXCEPT ![m] = row] = DOMAIN rows \cup {m}
        /\ [rows EXCEPT ![m] = row][m] = row
        /\ \A k \in DOMAIN rows : k # m => [rows EXCEPT ![m] = row][k] = rows[k]
    BY <2>4
  <2> QED
    <3>1. Persist(rows, j, job) = [rows EXCEPT ![m] = row]
      BY <2>1, <2>4
    <3> QED
      BY <2>3, <2>4, <2>5, <3>1 DEF row
<1> QED
  BY <1>2, <1>3

LEMMA RememberedFacts ==
  ASSUME Types, NEW j \in Jobs
  PROVE  /\ Remembered(j) \in JobStates
         /\ IF RowOf(j) = {} THEN Remembered(j) = Unknown
            ELSE /\ Remembered(j).row \in RowOf(j)
                 /\ Remembered(j).status = rows[Remembered(j).row].status
                 /\ Remembered(j).steps = rows[Remembered(j).row].steps
<1>1. CASE RowOf(j) = {}
  BY <1>1, EmptySeq DEF Remembered, Unknown, JobStates, States
<1>2. CASE RowOf(j) # {}
  <2> DEFINE n == CHOOSE k \in RowOf(j) : \A l \in RowOf(j) : l <= k
  <2>1. RowOf(j) \in SUBSET Nat /\ Len(rows) \in Nat /\ \A k \in RowOf(j) : k <= Len(rows)
    BY RowFacts DEF RowOf
  <2>2. \E k \in RowOf(j) : \A l \in RowOf(j) : l <= k
    BY <1>2, <2>1, LargestOfNat
  <2>3. n \in RowOf(j)
    BY <2>2
  <2>4. Remembered(j) = [row |-> n, status |-> rows[n].status, steps |-> rows[n].steps]
    BY <1>2 DEF Remembered
  <2> HIDE DEF n
  <2>5. n \in Nat /\ rows[n].status \in States /\ rows[n].steps \in Seq(Steps)
    BY <2>3, RowFacts DEF RowOf
  <2> QED
    BY <1>2, <2>3, <2>4, <2>5 DEF JobStates
<1> QED
  BY <1>1, <1>2

LEMMA SettledFacts ==
  ASSUME NEW job \in JobStates
  PROVE  /\ Settled(job) \in JobStates /\ Settled(job).row = job.row
         /\ job.row # 0 => Settled(job).status # "in_progress"
         /\ job.row # 0 /\ job.status = "in_progress" =>
              /\ DOMAIN Settled(job).steps = DOMAIN job.steps
              /\ \A k \in DOMAIN job.steps : /\ Settled(job).steps[k].key = job.steps[k].key
                                             /\ Settled(job).steps[k].status # "in_progress"
<1>1. CASE job.row = 0 \/ job.status # "in_progress"
  BY <1>1 DEF Settled
<1>2. CASE job.row # 0 /\ job.status = "in_progress"
  <2> DEFINE steps == [n \in DOMAIN job.steps |->
                         IF job.steps[n].status = "in_progress"
                           THEN [job.steps[n] EXCEPT !.status = "failure"] ELSE job.steps[n]]
  <2>1. Settled(job) = [job EXCEPT !.status = "failure", !.steps = steps]
    BY <1>2 DEF Settled
  <2>2. job.steps \in Seq(Steps) /\ "failure" \in States
    BY DEF JobStates, States, Results
  <2>3. Len(job.steps) \in Nat /\ DOMAIN job.steps = 1..Len(job.steps)
        /\ \A n \in 1..Len(job.steps) : job.steps[n] \in Steps
    BY <2>2, LenProperties, ElementOfSeq
  <2>4. ASSUME NEW n \in DOMAIN job.steps
        PROVE  steps[n] \in Steps /\ steps[n].key = job.steps[n].key /\ steps[n].status # "in_progress"
    <3>1. job.steps[n] \in Steps
      BY <2>3
    <3> QED
      BY <2>2, <3>1 DEF Steps
  <2>5. steps \in [1..Len(job.steps) -> Steps]
    BY <2>3, <2>4
  <2>6. steps \in Seq(Steps) /\ DOMAIN steps = DOMAIN job.steps
    BY <2>3, <2>5, FunSeq
  <2> HIDE DEF steps
  <2>7. Settled(job) \in JobStates /\ Settled(job).steps = steps /\ Settled(job).status = "failure"
        /\ Settled(job).row = job.row
    BY <2>1, <2>2, <2>6 DEF JobStates
  <2> QED
    BY <2>4, <2>6, <2>7
<1> QED
  BY <1>1, <1>2

LEMMA RecorderFacts ==
  ASSUME Types, NEW r \in DOMAIN recorders
  PROVE  /\ r \in 1..Len(recorders) /\ DOMAIN recorders = 1..Len(recorders) /\ Len(recorders) \in Nat
         /\ recorders[r] \in Recorders /\ recorders[r].pending \in Seq(Notes)
              /\ recorders[r].handled \in Nat
         /\ recorders[r].closed \in BOOLEAN /\ recorders[r].known \in SUBSET Jobs
         /\ recorders[r].state \in {"ready", "loading", "null", "rejected"}
         /\ recorders[r].jobs \in [Jobs -> JobStates]
         /\ Len(recorders[r].pending) \in Nat
<1>1. DOMAIN recorders = 1..Len(recorders) /\ Len(recorders) \in Nat
  BY LenProperties DEF Types, ServerTypes
<1>2. recorders[r] \in Recorders
  BY <1>1, ElementOfSeq DEF Types, ServerTypes
<1>3. recorders[r].pending \in Seq(Notes)
  BY <1>2 DEF Recorders
<1> QED
  BY <1>1, <1>2, <1>3, LenProperties DEF Recorders

LEMMA RequestFacts ==
  ASSUME Types, NEW i \in Slots
  PROVE  /\ requests[i] \in Requests /\ requests[i].kind \in {"none", "events", "complete"}
         /\ requests[i].lines \in Seq(Notes) /\ requests[i].stage \in Stages
         /\ requests[i].rec \in Nat /\ requests[i].until \in Nat /\ requests[i].live \in BOOLEAN
BY DEF Types, Requests

(* The recorder of a request is one of the recorders.                      *)
LEMMA RecOf ==
  ASSUME Types, RequestsOK, NEW i \in Slots, requests[i].rec # 0
  PROVE  requests[i].rec \in DOMAIN recorders
<1>1. Len(recorders) \in Nat /\ DOMAIN recorders = 1..Len(recorders)
  BY LenProperties DEF Types, ServerTypes
<1> QED
  BY <1>1, RequestFacts DEF RequestsOK, SlotsOK, LiveOK, GivenOK

LEMMA SettledRowsFacts ==
  ASSUME Types, NEW r \in DOMAIN recorders
  PROVE  /\ SettledRows(r) \in Seq(Rows) /\ DOMAIN rows \subseteq DOMAIN SettledRows(r)
         /\ \A n \in DOMAIN rows :
              LET job == recorders[r].jobs[rows[n].job]
              IN  SettledRows(r)[n] = IF job.row = n /\ job.status = "in_progress"
                                        THEN [job |-> rows[n].job, status |-> Settled(job).status,
                                              steps |-> Settled(job).steps]
                                        ELSE rows[n]
         /\ \A n \in DOMAIN SettledRows(r) \ DOMAIN rows :
              /\ SettledRows(r)[n].job \in NeverStarted(r) /\ SettledRows(r)[n].status = "skipped"
              /\ SettledRows(r)[n].steps = <<>>
         /\ \A m, n \in DOMAIN SettledRows(r) \ DOMAIN rows :
              SettledRows(r)[m].job = SettledRows(r)[n].job => m = n
<1> DEFINE jobs == recorders[r].jobs
           new(n) == IF jobs[rows[n].job].row = n /\ jobs[rows[n].job].status = "in_progress"
                       THEN [job |-> rows[n].job, status |-> Settled(jobs[rows[n].job]).status,
                             steps |-> Settled(jobs[rows[n].job]).steps]
                       ELSE rows[n]
           updated == [n \in DOMAIN rows |-> new(n)]
           skipped == IF NeverStarted(r) = Jobs THEN {} ELSE NeverStarted(r)
           T == { [job |-> j, status |-> "skipped", steps |-> <<>>] : j \in skipped }
           f == [j \in skipped |-> [job |-> j, status |-> "skipped", steps |-> <<>>]]
<1>1. SettledRows(r) = updated \o SetToSeq(T)
  BY DEF SettledRows
<1>2. jobs \in [Jobs -> JobStates]
  BY RecorderFacts
<1>3. Len(rows) \in Nat /\ DOMAIN rows = 1..Len(rows)
      /\ \A n \in DOMAIN rows : rows[n] \in Rows /\ rows[n].job \in Jobs
  BY RowFacts
<1> HIDE DEF jobs
<1>4. ASSUME NEW n \in DOMAIN rows
      PROVE  new(n) \in Rows
  <2>1. Settled(jobs[rows[n].job]) \in JobStates
    BY <1>2, <1>3, SettledFacts
  <2> QED
    BY <1>3, <2>1 DEF Rows, JobStates
<1>5. updated \in [1..Len(rows) -> Rows]
  BY <1>3, <1>4
<1>6. updated \in Seq(Rows) /\ Len(updated) = Len(rows) /\ DOMAIN updated = DOMAIN rows
  BY <1>3, <1>5, FunSeq
<1>7. skipped \subseteq Jobs /\ skipped \subseteq NeverStarted(r) /\ IsFiniteSet(skipped)
  <2>1. skipped \subseteq Jobs /\ skipped \subseteq NeverStarted(r)
    BY DEF NeverStarted
  <2> QED
    BY <2>1, JobsAssumption, FS_Subset
<1>8. IsFiniteSet(T)
  <2>1. f \in Surjection(skipped, T)
    BY DEF Surjection
  <2> QED
    BY <1>7, <2>1, FS_Surjection
<1>9. T \subseteq Rows /\ \A t \in T : t.job \in NeverStarted(r) /\ t.status = "skipped" /\ t.steps = <<>>
  <2>1. <<>> \in Seq(Steps) /\ "skipped" \in States
    BY EmptySeq DEF States
  <2>2. ASSUME NEW t \in T
        PROVE  t \in Rows /\ t.job \in NeverStarted(r) /\ t.status = "skipped" /\ t.steps = <<>>
    <3>1. PICK j \in skipped : t = [job |-> j, status |-> "skipped", steps |-> <<>>]
      OBVIOUS
    <3>2. j \in Jobs /\ j \in NeverStarted(r)
      BY <1>7
    <3> HIDE DEF T, skipped
    <3> QED
      BY <2>1, <3>1, <3>2 DEF Rows
  <2> HIDE DEF T
  <2> QED
    BY <2>2
<1>10. \A s, t \in T : s.job = t.job => s = t
  OBVIOUS
<1> HIDE DEF T, skipped, f
<1> DEFINE S == SetToSeq(T)
<1>11. /\ S \in Seq(Rows) /\ \A k \in DOMAIN S : S[k] \in T
       /\ \A k, l \in DOMAIN S : S[k] = S[l] => k = l
  BY <1>8, <1>9, SetToSeqFacts
<1> HIDE DEF S
<1> DEFINE all == updated \o S
<1>12. /\ all \in Seq(Rows) /\ DOMAIN all = 1..(Len(rows) + Len(S)) /\ Len(S) \in Nat
       /\ \A n \in DOMAIN rows : n \in DOMAIN all /\ all[n] = updated[n]
       /\ \A n \in DOMAIN all : n > Len(rows) => n - Len(rows) \in DOMAIN S /\ all[n] = S[n - Len(rows)]
  <2> HIDE DEF updated
  <2>1. /\ all \in Seq(Rows) /\ DOMAIN all = 1..(Len(updated) + Len(S)) /\ Len(S) \in Nat
        /\ \A n \in DOMAIN updated : n \in DOMAIN all /\ all[n] = updated[n]
        /\ \A n \in DOMAIN all : n > Len(updated) => n - Len(updated) \in DOMAIN S
             /\ all[n] = S[n - Len(updated)]
    BY <1>6, <1>11, Concat
  <2>2. Len(updated) = Len(rows) /\ DOMAIN updated = DOMAIN rows
    BY <1>6
  <2> HIDE DEF all
  <2>3. all \in Seq(Rows) /\ DOMAIN all = 1..(Len(rows) + Len(S)) /\ Len(S) \in Nat
    BY <2>1, <2>2
  <2>4. \A n \in DOMAIN rows : n \in DOMAIN all /\ all[n] = updated[n]
    BY <2>1, <2>2
  <2>5. \A n \in DOMAIN all : n > Len(rows) => n - Len(rows) \in DOMAIN S /\ all[n] = S[n - Len(rows)]
    BY <2>1, <2>2
  <2> QED
    BY <2>3, <2>4, <2>5
<1> HIDE DEF all
<1>13. ASSUME NEW n \in DOMAIN all \ DOMAIN rows
       PROVE  n - Len(rows) \in DOMAIN S /\ all[n] = S[n - Len(rows)] /\ n \in Nat
  <2> HIDE DEF new, updated
  <2>1. n \in DOMAIN all /\ n \notin DOMAIN rows
    OBVIOUS
  <2>2. DOMAIN all = 1..(Len(rows) + Len(S)) /\ Len(S) \in Nat
    BY <1>12
  <2>3. n > Len(rows) /\ n \in Nat
    <3>1. DOMAIN rows = 1..Len(rows) /\ Len(rows) \in Nat
      BY <1>3
    <3> QED
      BY <2>1, <2>2, <3>1
  <2>4. \A k \in DOMAIN all : k > Len(rows) => k - Len(rows) \in DOMAIN S /\ all[k] = S[k - Len(rows)]
    BY <1>12
  <2> QED
    BY <2>1, <2>3, <2>4
<1>14. SettledRows(r) = all
  BY <1>1 DEF all, S
<1>15. ASSUME NEW m \in DOMAIN all \ DOMAIN rows, NEW n \in DOMAIN all \ DOMAIN rows,
              all[m].job = all[n].job
       PROVE  m = n
  <2>1. m - Len(rows) = n - Len(rows)
    BY <1>10, <1>11, <1>13, <1>15
  <2> QED
    BY <1>3, <1>13, <2>1
<1>16. \A n \in DOMAIN all \ DOMAIN rows :
         all[n].job \in NeverStarted(r) /\ all[n].status = "skipped" /\ all[n].steps = <<>>
  BY <1>9, <1>11, <1>13
<1>17. \A n \in DOMAIN rows : all[n] = new(n) /\ n \in DOMAIN all
  BY <1>12
<1> QED
  BY <1>12, <1>14, <1>15, <1>16, <1>17 DEF jobs

-----------------------------------------------------------------------------
(* The kinds of steps.                                                     *)
Phases == {"running", "flush", "await", "complete", "sleep", "over"}

Idles ==
  /\ late' \in BOOLEAN /\ phase' \in Phases
  /\ phase' = "running" => phase = "running"
  /\ phase' = "complete" <=> phase = "complete"
  /\ sending => phase' \in {"running", "flush", "await"}
  /\ phase = "over" => phase' = "over"
  /\ UNCHANGED <<out, queue, dropped, batch, sending, lost, requests, serverVars, faults, abandoned>>

Flushes ==
  /\ ~sending /\ phase \in {"running", "flush"} /\ phase' \in {"running", "flush", "await"}
  /\ phase' = "running" => phase = "running"
  /\ \E i \in Slots : Flushed(i)
  /\ UNCHANGED <<out, late, serverVars, faults, abandoned>>

(* The recorders stay, but one that is finished may have been closed.      *)
Keeps ==
  /\ recorders' \in Seq(Recorders) /\ Len(recorders') = Len(recorders)
  /\ \A r \in DOMAIN recorders :
       /\ recorders'[r].state = recorders[r].state /\ recorders'[r].pending = recorders[r].pending
       /\ recorders'[r].handled = recorders[r].handled
       /\ recorders[r].closed => recorders'[r].closed
       /\ recorders'[r].closed => \/ recorders[r].closed
                                  \/ /\ recorders[r].state = "ready"
                                     /\ \E i \in Slots : requests[i].kind = "complete"

(* An answer, or a refusal that nobody waits for.                          *)
Answers(i) ==
  /\ requests[i] # Free /\ Answer(i)
  /\ over' \in BOOLEAN /\ (over => over') /\ current' \in {0, current}
  /\ \/ over \/ ~requests[i].live
     \/ requests[i].stage = "settled" /\ over'
     \/ Drained(i) /\ requests[i].kind = "events" /\ over' = over /\ current' = current
     \/ requests[i].stage = "read" /\ requests[i].rec # 0 /\ recorders[requests[i].rec].state = "null"
  /\ over' => over \/ requests[i].kind = "complete"
  /\ Keeps /\ rows' \in Seq(Rows) /\ faults' \in 0..MaxFaults /\ faults <= faults'
  /\ requests[i].live => UNCHANGED <<recorders, rows>>
  /\ UNCHANGED <<log, failed, abandoned>>

Accepts(i) ==
  /\ requests[i].stage = "sent" /\ ~over
  /\ requests' = [requests EXCEPT ![i].stage = "read"]
  /\ UNCHANGED <<runnerVars, serverVars, faults, abandoned>>

Takes(i) ==
  LET r == requests[i].rec
  IN  /\ requests[i].stage = "read" /\ requests[i].kind = "events" /\ r \in DOMAIN recorders
      /\ recorders[r].state = "ready"
      /\ recorders' = [recorders EXCEPT ![r].pending = @ \o requests[i].lines]
      /\ requests' = [requests EXCEPT ![i].stage = "wait",
                        ![i].until = recorders[r].handled + Len(recorders[r].pending \o requests[i].lines)]
      /\ UNCHANGED <<runnerVars, over, current, rows, log, failed, faults, abandoned>>

Detaches(i) ==
  LET r == requests[i].rec
  IN  /\ requests[i].stage = "read" /\ requests[i].kind = "complete" /\ r \in DOMAIN recorders
      /\ recorders[r].state = "ready" /\ current' = 0
      /\ requests' = [requests EXCEPT ![i].stage = "wait",
                        ![i].until = recorders[r].handled + Len(recorders[r].pending)]
      /\ UNCHANGED <<runnerVars, over, recorders, rows, log, failed, faults, abandoned>>

Refuses(i) ==
  /\ Live(i) /\ Refuse(i)
  /\ \/ requests[i].stage \in {"read", "settled"} /\ UNCHANGED <<recorders, rows>>
     \/ FinishRowsFails(i)
  /\ Keeps /\ rows' \in Seq(Rows) /\ faults' \in 0..MaxFaults /\ faults' \in {faults, faults + 1}
  /\ UNCHANGED <<over, current, log, failed, abandoned>>

Fault ==
  /\ faults < MaxFaults /\ faults' = faults + 1
  /\ \/ \E i \in Slots : Fail(i)
     \/ \E i \in Slots : Abandon(i)
     \/ Restart

Loses == Fault \/ \E i \in Slots : Refuses(i)

Records(r) == Resume(r) \/ ResumeFails(r) \/ HandleLine(r) \/ HandleFails(r)

(* The recorder of finish(), whatever becomes of the rows.                 *)
Finishing(i, jobs) ==
  LET r == requests[i].rec
  IN  /\ requests[i].kind = "complete" /\ Drained(i) /\ r \in DOMAIN recorders
      /\ recorders[r].state = "ready" /\ jobs \in [Jobs -> JobStates] /\ rows' \in Seq(Rows)
      /\ recorders' = [recorders EXCEPT ![r] = [recorders[r] EXCEPT !.closed = TRUE, !.jobs = jobs]]

LEMMA FinishingEffect ==
  ASSUME Types, RequestsOK, NEW i \in Slots, FinishRows(i) \/ FinishRowsFails(i)
  PROVE  \E jobs : Finishing(i, jobs)
<1> DEFINE r == requests[i].rec
<1>1. requests[i].kind = "complete" /\ Drained(i)
  <2>1. CASE FinishRows(i)
    BY <2>1 DEF FinishRows
  <2>2. CASE FinishRowsFails(i)
    BY <2>2, Zenon DEF FinishRowsFails
  <2> QED
    BY <2>1, <2>2
<1>2. requests[i].stage = "wait" /\ r # 0 /\ recorders[r].state = "ready"
  BY <1>1 DEF Drained, RequestsOK, SlotsOK
<1>3. r \in DOMAIN recorders
  BY <1>2, RecOf
<1>4. recorders[r] \in Recorders /\ recorders[r].jobs \in [Jobs -> JobStates]
  BY <1>3, RecorderFacts
<1>5. CASE FinishRows(i)
  <2> DEFINE settled == [j \in Jobs |-> Settled(recorders[r].jobs[j])]
  <2>1. settled \in [Jobs -> JobStates]
    BY <1>4, SettledFacts
  <2>2. /\ rows' = SettledRows(r)
        /\ recorders' = [recorders EXCEPT ![r] = [recorders[r] EXCEPT !.closed = TRUE, !.jobs = settled]]
    BY <1>5 DEF FinishRows
  <2> HIDE DEF settled
  <2>3. rows' \in Seq(Rows)
    BY <1>3, <2>2, SettledRowsFacts
  <2> QED
    BY <1>1, <1>2, <1>3, <2>1, <2>2, <2>3, Zenon DEF Finishing
<1>6. CASE FinishRowsFails(i)
  <2> DEFINE all == SettledRows(r)
  <2>0. \E left \in SUBSET DOMAIN rows, m \in Len(rows)..Len(all) :
          \E at \in IF left = {} THEN {0} ELSE left :
            /\ left = {} \/ m = Len(rows)
            /\ rows' = [n \in 1..m |-> IF n \in left THEN rows[n] ELSE all[n]]
            /\ recorders' = [recorders EXCEPT ![r].closed = TRUE,
                 ![r].jobs = [j \in Jobs |-> IF recorders[r].jobs[j].row \in left \ {at}
                                              THEN recorders[r].jobs[j]
                                              ELSE Settled(recorders[r].jobs[j])]]
    BY <1>6, Zenon DEF FinishRowsFails
  <2>1. PICK left \in SUBSET DOMAIN rows, m \in Len(rows)..Len(all) :
          \E at \in IF left = {} THEN {0} ELSE left :
            /\ left = {} \/ m = Len(rows)
            /\ rows' = [n \in 1..m |-> IF n \in left THEN rows[n] ELSE all[n]]
            /\ recorders' = [recorders EXCEPT ![r].closed = TRUE,
                 ![r].jobs = [j \in Jobs |-> IF recorders[r].jobs[j].row \in left \ {at}
                                              THEN recorders[r].jobs[j]
                                              ELSE Settled(recorders[r].jobs[j])]]
    BY <2>0, Zenon
  <2>5. PICK at :
          /\ rows' = [n \in 1..m |-> IF n \in left THEN rows[n] ELSE all[n]]
          /\ recorders' = [recorders EXCEPT ![r].closed = TRUE,
               ![r].jobs = [j \in Jobs |-> IF recorders[r].jobs[j].row \in left \ {at}
                                            THEN recorders[r].jobs[j]
                                            ELSE Settled(recorders[r].jobs[j])]]
    BY <2>1, Zenon
  <2> DEFINE settled == [j \in Jobs |-> IF recorders[r].jobs[j].row \in left \ {at}
                                          THEN recorders[r].jobs[j]
                                          ELSE Settled(recorders[r].jobs[j])]
  <2>2. settled \in [Jobs -> JobStates]
    BY <1>4, SettledFacts
  <2>3. recorders' = [recorders EXCEPT ![r] = [recorders[r] EXCEPT !.closed = TRUE, !.jobs = settled]]
    BY <2>5
  <2> HIDE DEF settled
  <2>4. rows' \in Seq(Rows)
    <3>1. all \in Seq(Rows) /\ Len(rows) \in Nat /\ \A n \in DOMAIN rows : rows[n] \in Rows
      BY <1>3, SettledRowsFacts, RowFacts
    <3> HIDE DEF all
    <3>2. Len(all) \in Nat /\ \A n \in 1..Len(all) : all[n] \in Rows
      BY <3>1, LenProperties, ElementOfSeq
    <3>3. m \in Nat /\ 1..m \subseteq 1..Len(all)
      BY <3>1, <3>2
    <3>4. rows' \in [1..m -> Rows]
      BY <2>5, <3>1, <3>2, <3>3
    <3> QED
      BY <3>3, <3>4, FunSeq
  <2> QED
    BY <1>1, <1>2, <1>3, <2>2, <2>3, <2>4, Zenon DEF Finishing
<1> QED
  BY <1>5, <1>6

LEMMA KeepsAll ==
  ASSUME Types, recorders' = recorders
  PROVE  Keeps
BY DEF Keeps, Types, ServerTypes

LEMMA FinishingKeeps ==
  ASSUME Types, NEW i \in Slots, NEW jobs, Finishing(i, jobs)
  PROVE  Keeps
<1> DEFINE r == requests[i].rec
           new == [recorders[r] EXCEPT !.closed = TRUE, !.jobs = jobs]
<1>1. r \in 1..Len(recorders) /\ recorders[r] \in Recorders /\ recorders \in Seq(Recorders)
  BY RecorderFacts DEF Finishing, Types, ServerTypes
<1>2. /\ new \in Recorders /\ new.state = recorders[r].state /\ new.pending = recorders[r].pending
      /\ new.handled = recorders[r].handled /\ new.closed
  BY <1>1 DEF Finishing, Recorders
<1>3. recorders' = [recorders EXCEPT ![r] = new]
  BY DEF Finishing
<1> HIDE DEF new
<1>4. recorders' \in Seq(Recorders) /\ Len(recorders') = Len(recorders)
  BY <1>1, <1>2, <1>3, ExceptSeq
<1>5. \A k \in DOMAIN recorders : recorders'[k] = IF k = r THEN new ELSE recorders[k]
  BY <1>3
<1>6. recorders[r].state = "ready" /\ requests[i].kind = "complete"
  BY DEF Finishing
<1> HIDE DEF r
<1> QED
  BY <1>2, <1>4, <1>5, <1>6 DEF Keeps

(* A request that is answered was not free.                                *)
LEMMA StepKinds ==
  ASSUME Types, RequestsOK, RecordersOK, [Next]_vars
  PROVE  \/ Idles \/ PrintLine \/ Flushes \/ Loses
         \/ \E i \in Slots : Answers(i) \/ Accepts(i) \/ Open(i) \/ Takes(i) \/ Detaches(i)
              \/ FinishRows(i)
         \/ \E r \in DOMAIN recorders : Records(r)
<1>1. /\ late \in BOOLEAN /\ phase \in Phases /\ sending \in BOOLEAN /\ over \in BOOLEAN
      /\ sending => phase \in {"running", "flush", "await"}
  BY DEF Types, RunnerTypes, ServerTypes, RequestsOK, SlotsOK, LiveOK, GivenOK, Phases
<1>2. /\ \A i \in Slots : requests[i].stage \in Stages
           /\ (requests[i].stage # "free" => requests[i] # Free /\ requests[i].kind # "none")
      /\ faults \in 0..MaxFaults /\ MaxFaults \in Nat
  BY RequestFacts, Sizes DEF RequestsOK, SlotsOK, LiveOK, GivenOK, Types
<1>0. /\ faults' = faults => faults' \in 0..MaxFaults /\ faults <= faults' /\ faults' \in {faults, faults + 1}
      /\ faults < MaxFaults /\ faults' = faults + 1 =>
           faults' \in 0..MaxFaults /\ faults <= faults' /\ faults' \in {faults, faults + 1}
      /\ rows' = rows => rows' \in Seq(Rows)
      /\ recorders' = recorders => Keeps
  <2>1. faults' = faults => faults' \in 0..MaxFaults /\ faults <= faults' /\ faults' \in {faults, faults + 1}
    BY <1>2
  <2>2. faults < MaxFaults /\ faults' = faults + 1 =>
           faults' \in 0..MaxFaults /\ faults <= faults' /\ faults' \in {faults, faults + 1}
    BY <1>2
  <2> QED
    BY <2>1, <2>2, KeepsAll DEF Types, ServerTypes
<1>3. CASE UNCHANGED vars
  BY <1>1, <1>3 DEF vars, runnerVars, serverVars, Idles
<1>4. CASE Exit
  BY <1>1, <1>4 DEF Exit, Idles, Phases
<1>5. CASE RetryDue
  BY <1>1, <1>5 DEF RetryDue, Idles, Phases
<1>6. CASE Retry
  BY <1>1, <1>6 DEF Retry, Idles, Phases
<1>7. CASE FinalFlush
  <2>1. CASE sending
    BY <1>1, <1>7, <2>1 DEF FinalFlush, Idles, Phases
  <2>2. CASE ~sending
    <3>1. StartFlush /\ phase = "flush" /\ phase' = "await"
            /\ UNCHANGED <<out, late, serverVars, faults, abandoned>>
      BY <1>7, <2>2 DEF FinalFlush
    <3> QED
      BY <2>2, <3>1, FlushEffect DEF Flushes
  <2> QED
    BY <2>1, <2>2
<1>8. CASE Tick
  <2>1. /\ StartFlush /\ phase = "running" /\ phase' = "running" /\ ~sending
        /\ UNCHANGED <<out, late, serverVars, faults, abandoned>>
    BY <1>8 DEF Tick
  <2> QED
    BY <2>1, FlushEffect DEF Flushes
<1>9. CASE Restart
  BY <1>9 DEF Restart, Loses, Fault
<1>10. ASSUME NEW i \in Slots, ReadRun(i)
       PROVE  Answers(i) \/ Accepts(i)
  <2>1. CASE over
    BY <1>0, <1>1, <1>2, <1>10, <2>1 DEF ReadRun, Answers, serverVars
  <2>2. CASE ~over
    BY <1>10, <2>2 DEF ReadRun, Accepts
  <2> QED
    BY <2>1, <2>2
<1>11. ASSUME NEW i \in Slots, Refuse(i), requests[i].stage \in {"read", "settled"},
              UNCHANGED <<over, current, recorders, rows, log, failed, abandoned>>,
              faults' = faults \/ (faults < MaxFaults /\ faults' = faults + 1)
       PROVE  Answers(i) \/ Refuses(i)
  <2>1. requests[i] # Free /\ requests[i].kind # "none"
    BY <1>2, <1>11
  <2>2. CASE requests[i].live
    BY <1>0, <1>11, <2>1, <2>2 DEF Refuses, Live
  <2>3. CASE ~requests[i].live
    <3>1. Answer(i)
      BY <1>11, <2>3 DEF Refuse, Answer
    <3> QED
      BY <1>0, <1>1, <1>11, <2>1, <2>3, <3>1 DEF Answers
  <2> QED
    BY <2>2, <2>3
<1>12. ASSUME NEW i \in Slots, Push(i)
       PROVE  Answers(i) \/ Takes(i) \/ Refuses(i)
  <2>1. /\ requests[i].stage = "read" /\ requests[i].kind = "events" /\ requests[i].rec # 0
        /\ requests[i].rec \in DOMAIN recorders
        /\ UNCHANGED <<over, current, rows, log, failed, faults, abandoned>>
    BY <1>12, RecOf DEF Push
  <2>2. CASE recorders[requests[i].rec].state = "null" /\ Answer(i) /\ UNCHANGED recorders
    BY <1>0, <1>1, <1>2, <2>1, <2>2 DEF Answers
  <2>3. CASE Refuse(i) /\ UNCHANGED recorders
    BY <1>11, <2>1, <2>3
  <2> DEFINE r == requests[i].rec
  <2>4. CASE /\ recorders[r].state = "ready"
             /\ recorders' = [recorders EXCEPT ![r].pending = @ \o requests[i].lines]
             /\ requests' = [requests EXCEPT ![i].stage = "wait",
                               ![i].until = recorders[r].handled + Len(recorders'[r].pending)]
             /\ UNCHANGED runnerVars
    <3>2. recorders'[r].pending = recorders[r].pending \o requests[i].lines
      BY <2>1, <2>4, RecorderFacts DEF Recorders
    <3> DEFINE waiting(p) == [requests EXCEPT ![i].stage = "wait", ![i].until = recorders[r].handled + Len(p)]
    <3>3. requests' = waiting(recorders'[r].pending)
      BY <2>4
    <3> HIDE DEF waiting
    <3>4. requests' = waiting(recorders[r].pending \o requests[i].lines)
      BY <3>2, <3>3
    <3> QED
      BY <2>1, <2>4, <3>4, Zenon DEF Takes, waiting
  <2> QED
    BY <1>12, <2>2, <2>3, <2>4 DEF Push
<1>13. ASSUME NEW i \in Slots, Close(i)
       PROVE  Answers(i) \/ Detaches(i) \/ Refuses(i)
  <2>1. /\ requests[i].stage = "read" /\ requests[i].kind = "complete" /\ requests[i].rec # 0
        /\ requests[i].rec \in DOMAIN recorders
        /\ current' = IF recorders[requests[i].rec].state = "rejected" THEN current ELSE 0
        /\ recorders[requests[i].rec].state # "loading"
        /\ UNCHANGED <<over, recorders, rows, log, failed, faults, abandoned>>
    BY <1>13, RecOf DEF Close
  <2>2. CASE recorders[requests[i].rec].state = "null"
    <3>1. Answer(i)
      BY <1>13, <2>2 DEF Close
    <3> QED
      BY <1>0, <1>1, <1>2, <2>1, <2>2, <3>1 DEF Answers
  <2>3. CASE recorders[requests[i].rec].state = "rejected"
    <3>1. Refuse(i)
      BY <1>13, <2>3 DEF Close
    <3> QED
      BY <1>11, <2>1, <2>3, <3>1
  <2>4. CASE recorders[requests[i].rec].state = "ready"
    BY <1>13, <2>1, <2>4 DEF Close, Detaches
  <2> QED
    BY <2>1, <2>2, <2>3, <2>4, RecorderFacts
<1>14. ASSUME NEW i \in Slots, AnswerEvents(i)
       PROVE  Answers(i)
  BY <1>0, <1>1, <1>2, <1>14 DEF AnswerEvents, Answers, Drained, serverVars
<1>15. ASSUME NEW i \in Slots, FinishRun(i)
       PROVE  Answers(i)
  <2>1. requests[i].kind = "complete"
    BY <1>15 DEF FinishRun, RequestsOK, SlotsOK
  <2> QED
    BY <1>0, <1>1, <1>2, <1>15, <2>1 DEF FinishRun, Answers
<1>16. ASSUME NEW i \in Slots, Fail(i) \/ Abandon(i)
       PROVE  Loses
  BY <1>16 DEF Fail, Abandon, Loses, Fault
<1>17. ASSUME NEW i \in Slots, FinishRunFails(i)
       PROVE  Answers(i) \/ Refuses(i)
  BY <1>11, <1>17 DEF FinishRunFails, serverVars
<1>18. ASSUME NEW i \in Slots, FinishRowsFails(i)
       PROVE  Answers(i) \/ Refuses(i)
  <2>1. PICK jobs : Finishing(i, jobs)
    BY <1>18, FinishingEffect
  <2>2. Keeps /\ rows' \in Seq(Rows)
    <3>1. rows' \in Seq(Rows)
      BY <2>1, Zenon DEF Finishing
    <3> QED
      BY <2>1, <3>1, FinishingKeeps
  <2>3. requests[i] # Free /\ requests[i].kind # "none"
    <3>1. requests[i].stage = "wait"
      BY <2>1, Zenon DEF Finishing, Drained
    <3> QED
      BY <1>2, <3>1
  <2>4. /\ Refuse(i) /\ UNCHANGED <<over, current, log, failed, abandoned>>
        /\ faults < MaxFaults /\ faults' = faults + 1
    BY <1>18 DEF FinishRowsFails
  <2>5. CASE requests[i].live
    BY <1>0, <1>18, <2>2, <2>3, <2>4, <2>5 DEF Refuses, Live
  <2>6. CASE ~requests[i].live
    <3>1. Answer(i)
      BY <2>4, <2>6 DEF Refuse, Answer
    <3> QED
      BY <1>0, <1>1, <2>2, <2>3, <2>4, <2>6, <3>1 DEF Answers
  <2> QED
    BY <2>5, <2>6
<1>19. ASSUME NEW i \in Slots, Refuses(i)
       PROVE  Loses
  BY <1>19 DEF Loses
<1>20. CASE Runner \/ Report
  BY <1>4, <1>5, <1>6, <1>7, <1>8, <1>20 DEF Runner, Report
<1>21. \A i \in Slots : Handle(i) =>
         Answers(i) \/ Accepts(i) \/ Open(i) \/ Takes(i) \/ Detaches(i) \/ FinishRows(i) \/ Refuses(i)
  BY <1>10, <1>12, <1>13, <1>14, <1>15 DEF Handle
<1> QED
  BY <1>3, <1>9, <1>16, <1>17, <1>18, <1>19, <1>20, <1>21 DEF Next, Record, Records

(* A fault: nobody waits for a request any more, and the lines of the one  *)
(* in flight are queued again.                                             *)
Dropped(i) == requests'[i] = [requests[i] EXCEPT !.live = FALSE] /\ requests[i] # Free

Requeued ==
  /\ batch' = <<>> /\ sending' = FALSE /\ late' = TRUE /\ queue' \in Seq(Notes) /\ Kept' = queue'
  /\ queue' = SubSeq(Kept, Excess(Kept) + 1, Len(Kept))
  /\ dropped' = dropped + Excess(Kept)
  /\ trimmed' = trimmed \cup LinesOf(SubSeq(Kept, 1, Excess(Kept)))
  /\ Drop(SubSeq(Kept, 1, Excess(Kept)))
  /\ phase # "complete" /\ phase' = IF phase = "await" THEN "sleep" ELSE phase

NotRequeued ==
  /\ UNCHANGED <<queue, dropped, late, batch, sending, trimmed, lost>> /\ ~sending
  /\ phase' = IF phase = "complete" THEN "sleep" ELSE phase

Lost ==
  /\ faults' \in 0..MaxFaults /\ UNCHANGED <<out, over, log, failed>>
  /\ requests' \in [Slots -> Requests]
  /\ \A i \in Slots : ~requests'[i].live /\ (requests'[i] = Free \/ Dropped(i))
  /\ \E i \in Slots :
       /\ \A k \in Slots : requests'[k] # Free /\ k # i => requests'[k] = requests[k] /\ ~requests[k].live
       /\ faults' = faults + 1 \/ (faults' = faults /\ requests'[i] = Free)
  /\ Requeued \/ NotRequeued
  /\ rows' \in Seq(Rows)
  /\ \/ Keeps /\ current' = current
     \/ recorders' = <<>> /\ current' = 0 /\ \A i \in Slots : requests'[i] = Free
  /\ abandoned' \in BOOLEAN /\ (abandoned => abandoned')
  /\ \A i \in Slots : Dropped(i) /\ requests[i].live => abandoned'

LEMMA DroppedNotFree ==
  ASSUME NEW i, requests[i] \in Requests, requests[i] = Free \/ requests[i].kind # "none", Dropped(i)
  PROVE  requests'[i] # Free
<1>1. requests'[i] = [requests[i] EXCEPT !.live = FALSE] /\ requests[i].kind # "none"
  BY DEF Dropped
<1>2. [requests[i] EXCEPT !.live = FALSE].kind = requests[i].kind
  BY DEF Requests
<1> QED
  BY <1>1, <1>2, Sizes

LEMMA FailureKind ==
  ASSUME Types, RequestsOK, NEW i \in Slots, Live(i), Failed(requests[i].kind)
  PROVE  (Requeued \/ NotRequeued) /\ out' = out
<1>1. requests[i].kind \in {"events", "complete"}
  BY RequestFacts DEF Live
<1>2. CASE requests[i].kind = "complete"
  <2>1. phase = "complete" /\ ~sending
    BY <1>2 DEF RequestsOK, SlotsOK, LiveOK, GivenOK
  <2> QED
    BY <1>2, <2>1 DEF Failed, NotRequeued, lost
<1>3. CASE requests[i].kind = "events"
  <2>1. sending /\ phase \in {"running", "flush", "await"}
    BY <1>3 DEF RequestsOK, SlotsOK, LiveOK, GivenOK
  <2> QED
    BY <1>3, <2>1, FailedEffect DEF Requeued
<1> QED
  BY <1>1, <1>2, <1>3

LEMMA LosesEffect ==
  ASSUME Types, RequestsOK, Loses
  PROVE  Lost
<1>1. faults' \in 0..MaxFaults /\ (faults' = faults + 1 \/ faults' = faults)
  BY Sizes DEF Loses, Fault, Types, Refuses
<1>0. rows \in Seq(Rows) /\ (recorders' = recorders => Keeps)
  BY KeepsAll DEF Types, ServerTypes
<1>2. ASSUME NEW i \in Slots, Fail(i) \/ Abandon(i) \/ Refuses(i)
      PROVE  Lost
  <2>1. Live(i) /\ Failed(requests[i].kind)
    BY <1>2 DEF Fail, Abandon, Refuses, Refuse, Live
  <2>2. (Requeued \/ NotRequeued) /\ out' = out
    BY <2>1, FailureKind
  <2>3. \A k \in Slots : k # i => ~Live(k)
    BY <2>1 DEF RequestsOK, SlotsOK, LiveOK, GivenOK
  <2>4. requests \in [Slots -> Requests]
        /\ \A k \in Slots : requests[k] = Free \/ requests[k].kind # "none"
    BY DEF Types, RequestsOK, SlotsOK, LiveOK, GivenOK
  <2>5. \A k \in Slots : k # i => ~requests[k].live /\ requests[k] = [requests[k] EXCEPT !.live = FALSE]
    BY <2>3, <2>4, Sizes DEF Live, Requests
  <2>6. requests[i].live /\ requests[i] # Free /\ abandoned \in BOOLEAN
    BY <2>1, Sizes DEF Live, Types
  <2>7. /\ UNCHANGED <<over, log, failed>> /\ rows' \in Seq(Rows) /\ Keeps /\ current' = current
    BY <1>0, <1>2 DEF Fail, Abandon, Refuses, serverVars
  <2>8. CASE Fail(i) \/ Refuses(i)
    <3>1. requests' = [requests EXCEPT ![i] = Free] /\ abandoned' = abandoned
      BY <2>8 DEF Fail, Refuses, Refuse
    <3>2. /\ requests' \in [Slots -> Requests] /\ requests'[i] = Free
          /\ \A k \in Slots : k # i => requests'[k] = requests[k]
      BY <2>4, <3>1, Sizes
    <3>3. \A k \in Slots : ~requests'[k].live /\ (requests'[k] = Free \/ Dropped(k))
      BY <2>5, <3>2, Sizes DEF Dropped
    <3>4. \A k \in Slots : Dropped(k) /\ requests[k].live => abandoned'
      <4>1. \A k \in Slots : k # i => ~requests[k].live
        BY <2>5
      <4>2. ~Dropped(i)
        BY <2>4, <2>6, <3>2, DroppedNotFree
      <4> QED
        BY <4>1, <4>2
    <3>5. \A k \in Slots : requests'[k] # Free /\ k # i => requests'[k] = requests[k] /\ ~requests[k].live
      BY <2>5, <3>2
    <3> QED
      BY <1>1, <2>2, <2>6, <2>7, <3>1, <3>2, <3>3, <3>4, <3>5 DEF Lost
  <2>9. CASE Abandon(i)
    <3>1. requests' = [requests EXCEPT ![i].live = FALSE] /\ abandoned' = TRUE /\ faults' = faults + 1
      BY <2>9 DEF Abandon
    <3>2. /\ requests' \in [Slots -> Requests] /\ requests'[i] = [requests[i] EXCEPT !.live = FALSE]
          /\ ~requests'[i].live
          /\ \A k \in Slots : k # i => requests'[k] = requests[k]
      BY <2>4, <3>1 DEF Requests
    <3>3. \A k \in Slots : ~requests'[k].live /\ (requests'[k] = Free \/ Dropped(k))
      BY <2>5, <2>6, <3>2 DEF Dropped
    <3>4. \A k \in Slots : requests'[k] # Free /\ k # i => requests'[k] = requests[k] /\ ~requests[k].live
      BY <2>5, <3>2
    <3> QED
      BY <1>1, <2>2, <2>6, <2>7, <3>1, <3>2, <3>3, <3>4 DEF Lost
  <2> QED
    BY <1>2, <2>8, <2>9
<1>3. CASE Restart
  <2>1. /\ requests' = [i \in Slots |-> Free] /\ recorders' = <<>> /\ current' = 0
        /\ UNCHANGED <<over, rows, log, failed, abandoned>>
        /\ IF \E i \in Slots : Live(i)
             THEN Failed((CHOOSE q \in { requests[i] : i \in Slots } : q.live).kind)
             ELSE UNCHANGED runnerVars
    BY <1>3 DEF Restart
  <2>2. requests' \in [Slots -> Requests] /\ \A i \in Slots : requests'[i] = Free /\ ~Free.live
    BY <2>1, Sizes
  <2>3. (Requeued \/ NotRequeued) /\ out' = out
    <3>1. CASE \E i \in Slots : Live(i)
      <4> DEFINE q == CHOOSE q \in { requests[i] : i \in Slots } : q.live
      <4>1. \E r \in { requests[i] : i \in Slots } : r.live
        BY <3>1 DEF Live
      <4>2. q \in { requests[i] : i \in Slots } /\ q.live
        BY <4>1
      <4>3. PICK i \in Slots : q = requests[i]
        BY <4>2
      <4>4. Live(i)
        <5>1. requests[i].live /\ ~Free.live
          BY <4>2, <4>3, Sizes
        <5>2. requests[i] # Free
          BY <5>1
        <5>3. requests[i].kind # "none"
          BY <5>2 DEF RequestsOK, SlotsOK
        <5> QED
          BY <5>1, <5>3 DEF Live
      <4>5. Failed(requests[i].kind)
        BY <2>1, <3>1, <4>3
      <4> QED
        BY <4>4, <4>5, FailureKind
    <3>2. CASE ~\E i \in Slots : Live(i)
      <4>1. ~sending /\ phase # "complete"
        BY <3>2 DEF RequestsOK, SlotsOK, LiveOK, GivenOK
      <4> QED
        BY <2>1, <3>2, <4>1 DEF NotRequeued, runnerVars, lost
    <3> QED
      BY <3>1, <3>2
  <2>4. 1 \in Slots /\ \A k \in Slots : ~Dropped(k)
    <3>1. \A k \in Slots : requests[k] \in Requests /\ (requests[k] = Free \/ requests[k].kind # "none")
      BY RequestFacts DEF RequestsOK, SlotsOK, LiveOK, GivenOK
    <3>2. \A k \in Slots : ~Dropped(k)
      BY <2>2, <3>1, DroppedNotFree
    <3> QED
      BY <3>2, Sizes
  <2>5. abandoned' \in BOOLEAN /\ (abandoned => abandoned') /\ rows' \in Seq(Rows)
    BY <1>0, <2>1 DEF Types
  <2>6. \E i \in Slots :
          /\ \A k \in Slots : requests'[k] # Free /\ k # i => requests'[k] = requests[k] /\ ~requests[k].live
          /\ faults' = faults + 1 \/ (faults' = faults /\ requests'[i] = Free)
    BY <1>1, <2>2, <2>4
  <2> QED
    BY <1>1, <2>1, <2>2, <2>3, <2>4, <2>5, <2>6 DEF Lost
<1> QED
  BY <1>2, <1>3 DEF Loses, Fault

-----------------------------------------------------------------------------
(* Types are preserved.                                                    *)
LEMMA TypesOfRunner ==
  ASSUME Types, Requeued \/ NotRequeued, out' = out
  PROVE  RunnerTypes'
<1>1. /\ Kept \in Seq(Notes) /\ out \in 0..Len(Script) /\ queue \in Seq(Notes) /\ batch \in Seq(Notes)
      /\ dropped \in Nat /\ late \in BOOLEAN /\ sending \in BOOLEAN /\ phase \in Phases
      /\ trimmed \subseteq 1..Len(Script) /\ drops \in Nat /\ unheard \subseteq Int
  BY KeptType DEF Types, RunnerTypes, Phases
<1>2. CASE Requeued
  <2>1. Excess(Kept) \in Nat /\ SubSeq(Kept, 1, Excess(Kept)) \in Seq(Notes)
    BY <1>1, Trim
  <2>2. <<>> \in Seq(Notes)
    BY EmptySeq
  <2>3. dropped' \in Nat /\ trimmed' \subseteq 1..Len(Script) /\ drops' \in Nat /\ unheard' \subseteq Int
    <3>1. dropped' = dropped + Excess(Kept) /\ dropped \in Nat /\ Drop(SubSeq(Kept, 1, Excess(Kept)))
      BY <1>1, <1>2 DEF Requeued
    <3>2. dropped' \in Nat
      BY <2>1, <3>1
    <3> QED
      BY <2>1, <3>1, <3>2, DropType
  <2>4. queue' \in Seq(Notes) /\ batch' \in Seq(Notes) /\ late' \in BOOLEAN /\ sending' \in BOOLEAN
    BY <1>2, <2>2 DEF Requeued
  <2>5. phase' \in Phases
    BY <1>1, <1>2 DEF Requeued, Phases
  <2> QED
    BY <1>1, <2>3, <2>4, <2>5 DEF RunnerTypes, Phases
<1>3. CASE NotRequeued
  BY <1>1, <1>3 DEF NotRequeued, RunnerTypes, Phases, lost
<1> QED
  BY <1>2, <1>3

LEMMA TypesPrintLine ==
  ASSUME Types, PrintLine
  PROVE  Types'
<1> DEFINE q == Append(queue, Line(out + 1))
<1>1. Line(out + 1) \in Notes /\ out + 1 \in 0..Len(Script)
  <2>1. out + 1 \in 1..Len(Script) /\ out + 1 \in 0..Len(Script)
    BY Sizes DEF Types, RunnerTypes, PrintLine
  <2> QED
    BY <2>1 DEF Notes
<1>2. q \in Seq(Notes)
  BY <1>1, KeptType, Appended
<1> HIDE DEF q
<1>3. /\ Excess(q) \in Nat /\ SubSeq(q, Excess(q) + 1, Len(q)) \in Seq(Notes)
      /\ SubSeq(q, 1, Excess(q)) \in Seq(Notes)
  BY <1>2, Trim
<1>4. /\ out' = out + 1 /\ queue' = SubSeq(q, Excess(q) + 1, Len(q)) /\ dropped' = dropped + Excess(q)
      /\ Drop(SubSeq(q, 1, Excess(q)))
      /\ UNCHANGED <<late, batch, sending, phase, requests, serverVars, faults, abandoned>>
  BY DEF PrintLine, Enqueue, q
<1>5. dropped' \in Nat /\ queue' \in Seq(Notes) /\ out' \in 0..Len(Script)
  <2>1. dropped \in Nat
    BY DEF Types, RunnerTypes
  <2>2. dropped' \in Nat
    BY <1>3, <1>4, <2>1
  <2> QED
    BY <1>1, <1>3, <1>4, <2>2
<1>6. trimmed' \subseteq 1..Len(Script) /\ drops' \in Nat /\ unheard' \subseteq Int
  BY <1>3, <1>4, DropType
<1>7. RunnerTypes'
  BY <1>4, <1>5, <1>6 DEF Types, RunnerTypes
<1> QED
  BY <1>4, <1>7 DEF Types, ServerTypes, serverVars

LEMMA TypesFlushes ==
  ASSUME Types, Flushes
  PROVE  Types'
<1>1. PICK i \in Slots : Flushed(i)
  BY DEF Flushes
<1>2. Excess(Announced) \in Nat /\ SubSeq(Announced, 1, Excess(Announced)) \in Seq(Notes)
  BY AnnouncedType, Trim
<1>6. trimmed' \subseteq 1..Len(Script) /\ drops' \in Nat /\ unheard' \subseteq Int
  BY <1>1, <1>2, DropType DEF Flushed
<1>3. RunnerTypes'
  BY <1>1, <1>2, <1>6 DEF Flushes, Flushed, Types, RunnerTypes
<1>4. NewRequest("events", batch') \in Requests
  BY <1>1, NewRequestType DEF Flushed
<1>5. requests' \in [Slots -> Requests]
  BY <1>1, <1>4 DEF Flushed, Types
<1> QED
  BY <1>3, <1>5 DEF Flushes, Types, ServerTypes, serverVars

LEMMA TypesLoses ==
  ASSUME Types, RequestsOK, Loses
  PROVE  Types'
<1>1. Lost
  BY LosesEffect
<1>2. RunnerTypes'
  BY <1>1, TypesOfRunner DEF Lost
<1>3. <<>> \in Seq(Recorders) /\ Len(<<>>) = 0
  BY EmptySeq
<1>4. ServerTypes'
  <2>1. CASE Keeps /\ current' = current
    BY <1>1, <2>1 DEF Lost, Keeps, Types, ServerTypes
  <2>2. CASE recorders' = <<>> /\ current' = 0
    <3>1. current' \in 0..Len(recorders') /\ recorders' \in Seq(Recorders)
      BY <1>3, <2>2
    <3> QED
      BY <1>1, <3>1 DEF Lost, Types, ServerTypes
  <2> QED
    BY <1>1, <2>1, <2>2 DEF Lost
<1> QED
  BY <1>1, <1>2, <1>4 DEF Lost, Types

LEMMA TypesAnswers ==
  ASSUME Types, RequestsOK, NEW i \in Slots, Answers(i)
  PROVE  Types'
<1>1. \/ Ignored(i)
      \/ NextLines /\ (NextBatch(i) \/ NextResult(i) \/ NextNothing(i))
      \/ ResultTaken(i)
  BY AnswerEffect DEF Answers
<1>2. /\ out \in 0..Len(Script) /\ queue \in Seq(Notes) /\ batch \in Seq(Notes)
      /\ dropped \in Nat /\ late \in BOOLEAN /\ sending \in BOOLEAN /\ phase \in Phases
      /\ trimmed \subseteq 1..Len(Script) /\ requests \in [Slots -> Requests] /\ Free \in Requests
      /\ drops \in Nat /\ unheard \subseteq Int
  BY Sizes DEF Types, RunnerTypes, Phases
<1>3. sending' \in BOOLEAN
  BY <1>1, <1>2 DEF Answers, Answer, BatchAnswered, ResultAnswered, runnerVars
<1>4. RunnerTypes' /\ requests' \in [Slots -> Requests]
  <2>1. CASE Ignored(i)
    BY <1>2, <2>1 DEF Ignored, RunnerTypes, runnerVars, lost, Phases
  <2>2. CASE NextLines /\ NextBatch(i)
    <3>1. NewRequest("events", batch') \in Requests
      BY <2>2, NewRequestType DEF NextLines
    <3> QED
      BY <1>2, <1>3, <2>2, <3>1 DEF NextLines, NextBatch, RunnerTypes, Phases, lost
  <2>3. CASE NextLines /\ NextResult(i)
    <3>1. NewRequest("complete", <<>>) \in Requests
      BY NewRequestType, EmptySeq
    <3> QED
      BY <1>2, <1>3, <2>3, <3>1 DEF NextLines, NextResult, RunnerTypes, Phases, lost
  <2>4. CASE NextLines /\ NextNothing(i)
    BY <1>2, <1>3, <2>4 DEF NextLines, NextNothing, RunnerTypes, Phases, lost
  <2>5. CASE ResultTaken(i)
    BY <1>2, <2>5 DEF ResultTaken, RunnerTypes, Phases, lost
  <2> QED
    BY <1>1, <2>1, <2>2, <2>3, <2>4, <2>5
<1>5. ServerTypes'
  <2>1. Len(recorders) \in Nat /\ current \in 0..Len(recorders)
    BY LenProperties DEF Types, ServerTypes
  <2>2. current' \in 0..Len(recorders')
    BY <2>1 DEF Answers, Keeps
  <2> QED
    BY <2>2 DEF Answers, Keeps, Types, ServerTypes
<1> QED
  BY <1>4, <1>5 DEF Answers, Types

LEMMA NewRecorderType ==
  ASSUME NEW state \in {"ready", "loading", "null", "rejected"}
  PROVE  /\ NewRecorder(state) \in Recorders /\ NewRecorder(state).state = state
         /\ NewRecorder(state).pending = <<>> /\ ~NewRecorder(state).closed
         /\ \A j \in Jobs : NewRecorder(state).jobs[j].row = 0
<1>1. Unknown \in JobStates /\ Unknown.row = 0
  BY EmptySeq DEF Unknown, JobStates, States
<1>2. <<>> \in Seq(Notes)
  BY EmptySeq
<1> QED
  BY <1>1, <1>2 DEF NewRecorder, Recorders

LEMMA TypesHandles ==
  ASSUME Types, RequestsOK, NEW i \in Slots, Accepts(i) \/ Open(i) \/ Takes(i) \/ Detaches(i)
  PROVE  Types'
<1>1. /\ requests \in [Slots -> Requests] /\ requests[i] \in Requests /\ "read" \in Stages
           /\ "wait" \in Stages
      /\ recorders \in Seq(Recorders) /\ Len(recorders) \in Nat /\ current \in 0..Len(recorders)
  BY LenProperties, RequestFacts DEF Types, ServerTypes, Stages
<1>2. CASE Accepts(i)
  <2>1. requests' \in [Slots -> Requests]
    BY <1>1, <1>2 DEF Accepts, Requests
  <2> QED
    BY <1>2, <2>1 DEF Accepts, Types, RunnerTypes, ServerTypes, runnerVars, lost, serverVars
<1>3. CASE Open(i)
  <2>1. CASE current # 0
    <3>1. requests' = [requests EXCEPT ![i].rec = current] /\ current \in Nat
      BY <1>1, <1>3, <2>1 DEF Open
    <3>2. requests' \in [Slots -> Requests]
      BY <1>1, <3>1 DEF Requests
    <3> QED
      BY <1>3, <2>1, <3>2 DEF Open, Types, RunnerTypes, ServerTypes, runnerVars, lost
  <2>2. CASE current = 0
    <3>1. /\ recorders' = Append(recorders, NewRecorder("loading")) /\ current' = Len(recorders) + 1
          /\ requests' = [requests EXCEPT ![i].rec = Len(recorders) + 1]
      BY <1>3, <2>2 DEF Open
    <3>2. NewRecorder("loading") \in Recorders
      BY NewRecorderType
    <3>3. recorders' \in Seq(Recorders) /\ Len(recorders') = Len(recorders) + 1
      BY <1>1, <3>1, <3>2, AppendProperties
    <3>4. requests' \in [Slots -> Requests]
      <4> DEFINE n == Len(recorders) + 1
      <4>1. n \in Nat /\ requests' = [requests EXCEPT ![i].rec = n]
        BY <1>1, <3>1
      <4> HIDE DEF n
      <4> QED
        BY <1>1, <4>1 DEF Requests
    <3>5. current' \in 0..Len(recorders')
      <4>1. Len(recorders) + 1 \in 0..(Len(recorders) + 1)
        BY <1>1
      <4> QED
        BY <3>1, <3>3, <4>1
    <3> QED
      BY <1>3, <3>3, <3>4, <3>5 DEF Open, Types, RunnerTypes, ServerTypes, runnerVars, lost
  <2> QED
    BY <2>1, <2>2
<1>4. CASE Takes(i)
  <2> DEFINE r == requests[i].rec
             p == recorders[r].pending \o requests[i].lines
  <2>1. /\ r \in 1..Len(recorders) /\ recorders[r] \in Recorders /\ recorders[r].pending \in Seq(Notes)
        /\ recorders[r].handled \in Nat /\ requests[i].lines \in Seq(Notes)
    BY <1>4, RecorderFacts, RequestFacts DEF Takes
  <2>2. p \in Seq(Notes) /\ Len(p) \in Nat
    BY <2>1, ConcatProperties, LenProperties
  <2>3. /\ recorders' = [recorders EXCEPT ![r] = [recorders[r] EXCEPT !.pending = p]]
        /\ requests' = [requests EXCEPT ![i].stage = "wait", ![i].until = recorders[r].handled + Len(p)]
    BY <1>4, <2>1 DEF Takes
  <2> HIDE DEF p, r
  <2>4. [recorders[r] EXCEPT !.pending = p] \in Recorders
    BY <2>1, <2>2 DEF Recorders
  <2>5. recorders' \in Seq(Recorders) /\ Len(recorders') = Len(recorders)
    BY <1>1, <2>1, <2>3, <2>4, ExceptSeq
  <2>6. recorders[r].handled + Len(p) \in Nat
    BY <2>1, <2>2
  <2>7. requests' \in [Slots -> Requests]
    BY <1>1, <2>3, <2>6 DEF Requests
  <2> QED
    BY <1>4, <2>5, <2>7 DEF Takes, Types, RunnerTypes, ServerTypes, runnerVars, lost
<1>5. CASE Detaches(i)
  <2> DEFINE r == requests[i].rec
  <2>1. Len(recorders[r].pending) \in Nat /\ recorders[r].handled \in Nat
    BY <1>5, RecorderFacts DEF Detaches
  <2>2. recorders[r].handled + Len(recorders[r].pending) \in Nat
    BY <2>1
  <2>3. requests' \in [Slots -> Requests]
    BY <1>1, <1>5, <2>2 DEF Detaches, Requests
  <2> QED
    BY <1>1, <1>5, <2>3 DEF Detaches, Types, RunnerTypes, ServerTypes, runnerVars, lost
<1> QED
  BY <1>2, <1>3, <1>4, <1>5

LEMMA TypesFinishRows ==
  ASSUME Types, RequestsOK, NEW i \in Slots, FinishRows(i)
  PROVE  /\ Types' /\ requests[i].rec \in DOMAIN recorders /\ recorders[requests[i].rec].state = "ready"
         /\ \E jobs : Finishing(i, jobs)
         /\ requests' = [requests EXCEPT ![i].stage = "settled"]
<1>1. PICK jobs : Finishing(i, jobs)
  BY FinishingEffect
<1>2. rows' \in Seq(Rows) /\ requests[i].rec \in DOMAIN recorders /\ recorders[requests[i].rec].state = "ready"
  BY <1>1, Zenon DEF Finishing
<1>3. recorders' \in Seq(Recorders) /\ Len(recorders') = Len(recorders)
  BY <1>1, FinishingKeeps DEF Keeps
<1>4. /\ requests' = [requests EXCEPT ![i].stage = "settled"]
      /\ UNCHANGED <<runnerVars, over, current, log, failed, faults, abandoned>>
  BY DEF FinishRows
<1>5. requests' \in [Slots -> Requests]
  BY <1>4, RequestFacts DEF Types, Requests, Stages
<1>6. Types'
  BY <1>2, <1>3, <1>4, <1>5 DEF Types, RunnerTypes, ServerTypes, runnerVars, lost
<1> QED
  BY <1>1, <1>2, <1>4, <1>6

LEMMA TypesResume ==
  ASSUME Types, NEW r \in DOMAIN recorders, Resume(r)
  PROVE  /\ Types'
         /\ recorders' = [recorders EXCEPT ![r] =
              [recorders[r] EXCEPT !.state = IF over THEN "null" ELSE "ready",
                                   !.known = { j \in Jobs : RowOf(j) # {} },
                                   !.jobs = [j \in Jobs |-> Remembered(j)]]]
<1> DEFINE jobs == [j \in Jobs |-> Remembered(j)]
           known == { j \in Jobs : RowOf(j) # {} }
           s == IF over THEN "null" ELSE "ready"
<1>1. jobs \in [Jobs -> JobStates] /\ known \in SUBSET Jobs
  BY RememberedFacts
<1>2. recorders' = [recorders EXCEPT ![r] = [recorders[r] EXCEPT !.state = s, !.known = known, !.jobs = jobs]]
  <2>1. recorders' = [recorders EXCEPT ![r].state = s, ![r].known = known, ![r].jobs = jobs]
    BY Zenon DEF Resume
  <2> HIDE DEF jobs, known, s
  <2> QED
    BY <2>1
<1> DEFINE new == [recorders[r] EXCEPT !.state = s, !.known = known, !.jobs = jobs]
<1>3. new \in Recorders
  <2> HIDE DEF jobs, known
  <2>1. s \in {"ready", "loading", "null", "rejected"} /\ recorders[r] \in Recorders
    BY RecorderFacts
  <2> HIDE DEF s
  <2> QED
    BY <1>1, <2>1 DEF Recorders
<1>6. recorders' = [recorders EXCEPT ![r] = new]
  BY <1>2
<1> HIDE DEF new
<1>4. recorders' \in Seq(Recorders) /\ Len(recorders') = Len(recorders)
  BY <1>3, <1>6, RecorderFacts, ExceptSeq DEF Types, ServerTypes
<1>7. UNCHANGED <<runnerVars, requests, over, current, rows, log, failed, faults, abandoned>>
  BY Zenon DEF Resume
<1>5. Types'
  BY <1>4, <1>7 DEF Types, RunnerTypes, ServerTypes, runnerVars, lost
<1> QED
  BY <1>2, <1>5

LEMMA TypesResumeFails ==
  ASSUME Types, NEW r \in DOMAIN recorders, ResumeFails(r)
  PROVE  /\ Types'
         /\ recorders' = [recorders EXCEPT ![r] = [recorders[r] EXCEPT !.state = "rejected"]]
<1>1. recorders' = [recorders EXCEPT ![r] = [recorders[r] EXCEPT !.state = "rejected"]]
  BY DEF ResumeFails
<1>2. [recorders[r] EXCEPT !.state = "rejected"] \in Recorders
  BY RecorderFacts DEF Recorders
<1>3. recorders' \in Seq(Recorders) /\ Len(recorders') = Len(recorders)
  BY <1>1, <1>2, RecorderFacts, ExceptSeq DEF Types, ServerTypes
<1>4. faults' \in 0..MaxFaults
  BY Sizes DEF ResumeFails, Types
<1> QED
  BY <1>1, <1>3, <1>4 DEF ResumeFails, Types, RunnerTypes, ServerTypes, runnerVars, lost

(* A line that is handled: what becomes of the recorder, the row and the   *)
(* log, when the writes succeed and when one fails.                        *)
Recorded(r, e, job) ==
  LET started == Started(recorders[r], e.job)
  IN  \/ started.row = 0 /\ job = started /\ rows' = rows
      \/ started.row # 0 /\ job = Handled(started, e) /\ rows' = Persist(rows, e.job, job)

Unrecorded(r, e, job) ==
  LET started == Started(recorders[r], e.job)
  IN  \/ e.job \notin recorders[r].known /\ job = Unknown /\ rows' = rows
      \/ /\ started.row # 0 /\ job = Handled(started, e)
         /\ rows' = IF started.row > Len(rows) THEN Persist(rows, e.job, started) ELSE rows

Logged(r, item) ==
  \/ log' = Append(log, item)
  \/ log' = log /\ (recorders[r].closed \/ item.line \in failed')

Handles(r, item, known, jobs) ==
  /\ recorders[r].pending # <<>> /\ item = Head(recorders[r].pending) /\ item \in Notes
  /\ recorders' = [recorders EXCEPT ![r] =
       [recorders[r] EXCEPT !.pending = Tail(recorders[r].pending), !.handled = recorders[r].handled + 1,
                            !.known = known, !.jobs = jobs]]
  /\ Logged(r, item)
  /\ UNCHANGED <<runnerVars, requests, over, current, abandoned>>
  /\ known \in SUBSET Jobs /\ jobs \in [Jobs -> JobStates]
  /\ faults' \in 0..MaxFaults /\ faults <= faults'
  /\ \/ /\ item.line = 0 /\ known = recorders[r].known /\ jobs = recorders[r].jobs
        /\ rows' = rows /\ failed' = failed
     \/ /\ item.line \in 1..Len(Script)
        /\ LET e == Script[item.line]
           IN  /\ known = recorders[r].known \cup {e.job}
               /\ \E job \in JobStates :
                    /\ jobs = [recorders[r].jobs EXCEPT ![e.job] = job]
                    /\ \/ failed' = failed /\ Recorded(r, e, job)
                       \/ failed' = failed \cup {item.line} /\ Unrecorded(r, e, job)

LEMMA HandleLineEffect ==
  ASSUME Types, NEW r \in DOMAIN recorders, HandleLine(r) \/ HandleFails(r)
  PROVE  \E item, known, jobs : Handles(r, item, known, jobs)
<1> DEFINE item == Head(recorders[r].pending)
           e == Script[item.line]
           started == Started(recorders[r], e.job)
           taken(known, jobs) ==
             [recorders[r] EXCEPT !.pending = Tail(recorders[r].pending),
                                  !.handled = recorders[r].handled + 1, !.known = known, !.jobs = jobs]
<1>1. recorders[r] \in Recorders /\ recorders[r].pending \in Seq(Notes) /\ recorders[r].pending # <<>>
      /\ recorders[r].jobs \in [Jobs -> JobStates] /\ recorders[r].known \in SUBSET Jobs
  BY RecorderFacts DEF HandleLine, HandleFails
<1>2. item \in Notes /\ item.line \in 0..Len(Script)
  BY <1>1, Rest, NoteType
<1>3. faults' \in 0..MaxFaults /\ faults <= faults'
  BY Sizes DEF HandleLine, HandleFails, Types
<1>4. UNCHANGED <<runnerVars, requests, over, current, abandoned>>
  BY DEF HandleLine, HandleFails
<1>5. item.line # 0 => item.line \in 1..Len(Script) /\ e \in LogEvents /\ e.job \in Jobs
                       /\ started \in JobStates
  <2>1. item.line # 0 => item.line \in 1..Len(Script)
    BY <1>2, Sizes
  <2> QED
    BY <2>1, EventType, StartedType
<1>6. CASE HandleLine(r)
  <2>1. Logged(r, item) /\ failed' = failed
    BY <1>6 DEF HandleLine, Write, Logged
  <2>2. CASE item.line = 0
    <3>1. recorders' = [recorders EXCEPT ![r].pending = Tail(@), ![r].handled = @ + 1] /\ rows' = rows
      BY <1>6, <2>2 DEF HandleLine
    <3>2. [recorders[r] EXCEPT !.pending = Tail(recorders[r].pending), !.handled = recorders[r].handled + 1]
            = taken(recorders[r].known, recorders[r].jobs)
      BY <1>1 DEF Recorders
    <3>3. recorders' = [recorders EXCEPT ![r] = taken(recorders[r].known, recorders[r].jobs)]
      BY <3>1, <3>2
    <3>4. Handles(r, item, recorders[r].known, recorders[r].jobs)
      BY <1>1, <1>2, <1>3, <1>4, <2>1, <2>2, <3>1, <3>3 DEF Handles
    <3> QED
      BY <3>4
  <2>3. CASE item.line # 0
    <3> DEFINE job == IF started.row = 0 THEN started ELSE Handled(started, e)
               known == recorders[r].known \cup {e.job}
               jobs == [recorders[r].jobs EXCEPT ![e.job] = job]
    <3>1. Taken(r, e.job, job) /\ rows' = IF job.row = 0 THEN rows ELSE Persist(rows, e.job, job)
      BY <1>6, <2>3 DEF HandleLine
    <3>2. job \in JobStates /\ (job.row = 0 <=> started.row = 0)
      BY <1>5, <2>3, HandledType
    <3>3. recorders' = [recorders EXCEPT ![r] = taken(known, jobs)]
      BY <3>1, Zenon DEF Taken
    <3>4. Recorded(r, e, job)
      BY <3>1, <3>2 DEF Recorded
    <3> HIDE DEF job
    <3>5. known \in SUBSET Jobs /\ jobs \in [Jobs -> JobStates]
      BY <1>1, <1>5, <2>3, <3>2
    <3>6. Handles(r, item, known, jobs)
      BY <1>1, <1>2, <1>3, <1>4, <1>5, <2>1, <2>3, <3>2, <3>3, <3>4, <3>5 DEF Handles
    <3> QED
      BY <3>6
  <2> QED
    BY <2>2, <2>3
<1>7. CASE HandleFails(r)
  <2>1. /\ item.line # 0 /\ failed' = failed \cup {item.line}
        /\ \/ /\ e.job \notin recorders[r].known
              /\ Taken(r, e.job, Unknown)
              /\ UNCHANGED <<rows, log>>
           \/ /\ started.row # 0
              /\ Taken(r, e.job, Handled(started, e))
              /\ rows' = IF started.row > Len(rows) THEN Persist(rows, e.job, started) ELSE rows
              /\ IF e.event = "start" THEN UNCHANGED log ELSE Write(r, item)
    BY <1>7 DEF HandleFails
  <2>2. Logged(r, item)
    BY <2>1 DEF Write, Logged
  <2>3. PICK job \in {Unknown, Handled(started, e)} : Taken(r, e.job, job) /\ Unrecorded(r, e, job)
    BY <2>1 DEF Unrecorded
  <2> DEFINE known == recorders[r].known \cup {e.job}
             jobs == [recorders[r].jobs EXCEPT ![e.job] = job]
  <2>4. job \in JobStates
    <3>1. Unknown \in JobStates
      BY EmptySeq DEF Unknown, JobStates, States
    <3> QED
      BY <1>5, <2>1, <3>1, HandledType
  <2>5. recorders' = [recorders EXCEPT ![r] = taken(known, jobs)]
    BY <2>3, Zenon DEF Taken
  <2>6. known \in SUBSET Jobs /\ jobs \in [Jobs -> JobStates]
    BY <1>1, <1>5, <2>1, <2>4
  <2>7. Handles(r, item, known, jobs)
    BY <1>1, <1>2, <1>3, <1>4, <1>5, <2>1, <2>2, <2>3, <2>4, <2>5, <2>6 DEF Handles
  <2> QED
    BY <2>7
<1> QED
  BY <1>6, <1>7

LEMMA TypesHandleLine ==
  ASSUME Types, NEW r \in DOMAIN recorders, HandleLine(r) \/ HandleFails(r)
  PROVE  Types'
<1>1. PICK item, known, jobs : Handles(r, item, known, jobs)
  BY HandleLineEffect
<1> DEFINE new == [recorders[r] EXCEPT !.pending = Tail(recorders[r].pending),
                     !.handled = recorders[r].handled + 1, !.known = known, !.jobs = jobs]
<1>2. recorders[r] \in Recorders /\ Tail(recorders[r].pending) \in Seq(Notes)
        /\ recorders[r].handled + 1 \in Nat
      /\ r \in 1..Len(recorders) /\ recorders \in Seq(Recorders)
  <2>1. /\ recorders[r] \in Recorders /\ recorders[r].pending \in Seq(Notes)
             /\ recorders[r].handled \in Nat
        /\ r \in 1..Len(recorders)
    BY RecorderFacts
  <2>2. recorders[r].pending # <<>>
    BY <1>1 DEF Handles
  <2>3. Tail(recorders[r].pending) \in Seq(Notes)
    BY <2>1, <2>2, Rest
  <2>4. recorders \in Seq(Recorders)
    BY DEF Types, ServerTypes
  <2>5. recorders[r].handled + 1 \in Nat
    BY <2>1
  <2> QED
    BY <2>1, <2>3, <2>4, <2>5
<1>3. new \in Recorders
  <2>1. known \in SUBSET Jobs /\ jobs \in [Jobs -> JobStates]
    BY <1>1 DEF Handles
  <2> QED
    BY <1>2, <2>1 DEF Recorders
<1>4. recorders' = [recorders EXCEPT ![r] = new]
  BY <1>1 DEF Handles
<1> HIDE DEF new
<1>5. recorders' \in Seq(Recorders) /\ Len(recorders') = Len(recorders)
  BY <1>2, <1>3, <1>4, ExceptSeq
<1>6. rows' \in Seq(Rows)
  <2>1. rows \in Seq(Rows)
    BY DEF Types, ServerTypes
  <2>2. CASE rows' # rows
    <3> DEFINE e == Script[item.line]
               started == Started(recorders[r], e.job)
    <3>1. item.line \in 1..Len(Script) /\ \E job \in JobStates : Recorded(r, e, job) \/ Unrecorded(r, e, job)
      BY <1>1, <2>2 DEF Handles
    <3>2. e \in LogEvents /\ e.job \in Jobs /\ started \in JobStates
      BY <3>1, EventType, StartedType
    <3>3. /\ started.row # 0
          /\ rows' \in {Persist(rows, e.job, started), Persist(rows, e.job, Handled(started, e))}
      BY <2>2, <3>1 DEF Recorded, Unrecorded
    <3>4. Handled(started, e) \in JobStates /\ Handled(started, e).row # 0
      BY <3>2, <3>3, HandledType
    <3>5. Persist(rows, e.job, started) \in Seq(Rows)
      BY <3>2, <3>3, PersistEffect
    <3>6. Persist(rows, e.job, Handled(started, e)) \in Seq(Rows)
      BY <3>2, <3>4, PersistEffect
    <3> QED
      BY <3>3, <3>5, <3>6
  <2> QED
    BY <2>1, <2>2
<1>7. log' \in Seq(Notes) /\ failed' \subseteq 1..Len(Script) /\ current' \in 0..Len(recorders')
  <2>1. log' \in Seq(Notes)
    <3>1. log \in Seq(Notes) /\ item \in Notes /\ (log' = log \/ log' = Append(log, item))
      BY <1>1 DEF Handles, Logged, Types, ServerTypes
    <3> QED
      BY <3>1, AppendProperties
  <2>2. failed' \subseteq 1..Len(Script)
    BY <1>1 DEF Handles, Types, ServerTypes
  <2> QED
    BY <1>1, <1>5, <2>1, <2>2 DEF Handles, Types, ServerTypes
<1>8. /\ UNCHANGED <<runnerVars, requests, over, abandoned>> /\ faults' \in 0..MaxFaults
  BY <1>1 DEF Handles
<1> QED
  BY <1>5, <1>6, <1>7, <1>8 DEF Types, RunnerTypes, ServerTypes, runnerVars, lost

LEMMA TypesStep ==
  ASSUME Types, RequestsOK, RecordersOK, [Next]_vars
  PROVE  Types'
<1>1. CASE Idles
  BY <1>1 DEF Idles, Types, RunnerTypes, ServerTypes, serverVars, lost, Phases
<1>2. ASSUME NEW r \in DOMAIN recorders, Records(r)
      PROVE  Types'
  <2>1. CASE Resume(r)
    BY <2>1, TypesResume, Zenon
  <2>2. CASE ResumeFails(r)
    BY <2>2, TypesResumeFails
  <2>3. CASE HandleLine(r) \/ HandleFails(r)
    BY <2>3, TypesHandleLine
  <2> QED
    BY <1>2, <2>1, <2>2, <2>3 DEF Records
<1> QED
  BY <1>1, <1>2, StepKinds, TypesPrintLine, TypesFlushes, TypesLoses, TypesAnswers, TypesHandles,
     TypesFinishRows

-----------------------------------------------------------------------------
(* The requests and recorders fit together after every step.               *)
Progress(i) ==
  /\ requests[i] # Free /\ \A k \in Slots : k # i => requests'[k] = requests[k]
  /\ requests'[i].kind = requests[i].kind /\ requests'[i].lines = requests[i].lines
  /\ requests'[i].live = requests[i].live /\ requests'[i].kind # "none"
  /\ UNCHANGED <<runnerVars, over, log, failed, faults, abandoned>>

LEMMA ProgressEffect ==
  ASSUME Types, RequestsOK, NEW i \in Slots,
         Accepts(i) \/ Open(i) \/ Takes(i) \/ Detaches(i) \/ FinishRows(i)
  PROVE  Progress(i)
<1>1. requests \in [Slots -> Requests] /\ requests[i] \in Requests
  BY RequestFacts DEF Types
<1>2. requests[i].stage # "free" => requests[i] # Free /\ requests[i].kind # "none"
  BY Sizes DEF RequestsOK, SlotsOK
<1>3. CASE Accepts(i)
  BY <1>1, <1>2, <1>3 DEF Accepts, Progress, Requests, serverVars
<1>4. CASE Open(i)
  BY <1>1, <1>2, <1>4 DEF Open, Progress, Requests
<1>5. CASE Takes(i)
  BY <1>1, <1>2, <1>5 DEF Takes, Progress, Requests
<1>6. CASE Detaches(i)
  BY <1>1, <1>2, <1>6 DEF Detaches, Progress, Requests
<1>7. CASE FinishRows(i)
  BY <1>1, <1>2, <1>7, TypesFinishRows DEF FinishRows, Drained, Progress, Requests
<1> QED
  BY <1>3, <1>4, <1>5, <1>6, <1>7

LEMMA KeepsFacts ==
  ASSUME Types, Keeps
  PROVE  /\ Len(recorders') = Len(recorders) /\ DOMAIN recorders' = DOMAIN recorders
         /\ \A k \in DOMAIN recorders :
              /\ recorders[k].state = "ready" => recorders'[k].state = "ready"
              /\ recorders[k].closed => recorders'[k].closed
<1>1. recorders \in Seq(Recorders) /\ recorders' \in Seq(Recorders) /\ Len(recorders') = Len(recorders)
  BY DEF Keeps, Types, ServerTypes
<1>2. DOMAIN recorders' = DOMAIN recorders
  BY <1>1, LenProperties
<1> QED
  BY <1>1, <1>2 DEF Keeps

LEMMA SubsetGiven ==
  ASSUME RequestsOK, Types, NEW G, G \subseteq Given
  PROVE  Cardinality(G) <= faults /\ IsFiniteSet(Given)
<1>1. IsFiniteSet(Slots)
  <2> DEFINE b == MaxFaults + 1
  <2>1. 1 \in Int /\ b \in Int /\ Slots = 1..b
    BY Sizes
  <2> HIDE DEF b
  <2> QED
    BY <2>1, FS_Interval
<1>2. IsFiniteSet(Given)
  BY <1>1, FS_Subset DEF Given
<1>3. IsFiniteSet(G) /\ Cardinality(G) <= Cardinality(Given) /\ Cardinality(G) \in Nat
        /\ Cardinality(Given) \in Nat
  BY <1>2, FS_Subset, FS_CardinalityType
<1> QED
  BY <1>2, <1>3 DEF RequestsOK, GivenOK, Types

LEMMA RequestsOfProgress ==
  ASSUME Types, RequestsOK, NEW i \in Slots, Progress(i)
  PROVE  LiveOK' /\ GivenOK'
<1>1. \A k \in Slots : Live(k)' = Live(k) /\ requests'[k].kind = requests[k].kind
                       /\ requests'[k].lines = requests[k].lines
  BY DEF Progress, Live
<1>2. LiveOK'
  BY <1>1 DEF Progress, RequestsOK, LiveOK, runnerVars
<1>3. \A k \in Slots : k \in Given' => k \in Given
  BY DEF Progress, Given
<1>4. Given' \subseteq Given
  BY <1>3 DEF Given
<1>5. GivenOK'
  BY <1>4, SubsetGiven DEF GivenOK, Progress
<1> QED
  BY <1>2, <1>5

LEMMA RequestsOfIdles ==
  ASSUME Types, RequestsOK, Idles
  PROVE  RequestsOK'
<1>1. UNCHANGED <<requests, recorders, sending, batch, faults>>
        /\ (phase' = "complete" <=> phase = "complete")
      /\ (sending => phase' \in {"running", "flush", "await"})
  BY DEF Idles, serverVars
<1>2. \A k \in Slots : Live(k)' = Live(k)
  BY <1>1 DEF Live
<1>3. SlotsOK'
  BY <1>1 DEF RequestsOK, SlotsOK
<1>4. LiveOK'
  BY <1>1, <1>2 DEF RequestsOK, LiveOK
<1>5. GivenOK'
  BY <1>1 DEF RequestsOK, GivenOK, Given
<1> QED
  BY <1>3, <1>4, <1>5 DEF RequestsOK

LEMMA RequestsOfPrintLine ==
  ASSUME Types, RequestsOK, PrintLine
  PROVE  RequestsOK'
<1>1. UNCHANGED <<requests, recorders, sending, batch, faults, phase>>
  BY DEF PrintLine, serverVars
<1> QED
  BY <1>1 DEF RequestsOK, SlotsOK, LiveOK, Live, GivenOK, Given

LEMMA RequestsOfFlushes ==
  ASSUME Types, RequestsOK, Flushes
  PROVE  RequestsOK'
<1>1. PICK i \in Slots : Flushed(i)
  BY DEF Flushes
<1>2. /\ requests[i] = Free /\ requests' = [requests EXCEPT ![i] = NewRequest("events", batch')]
      /\ batch' \in Seq(Notes) /\ sending' = TRUE
      /\ ~sending /\ phase \in {"running", "flush"} /\ phase' \in {"running", "flush", "await"}
      /\ UNCHANGED <<recorders, faults>>
  BY <1>1 DEF Flushes, Flushed, serverVars
<1> DEFINE new == NewRequest("events", batch')
<1>3. /\ new # Free /\ new.kind = "events" /\ new.lines = batch' /\ new.stage = "sent" /\ new.rec = 0
      /\ new.live = TRUE
  BY <1>2, NewRequestType
<1> HIDE DEF new
<1>4. requests'[i] = new /\ \A k \in Slots : k # i => requests'[k] = requests[k]
  BY <1>2 DEF Types, new
<1>5. \A k \in Slots : ~Live(k)
  <2>1. \A k \in Slots : requests[k].kind \in {"none", "events", "complete"}
    BY RequestFacts
  <2> QED
    BY <1>2, <2>1 DEF RequestsOK, LiveOK, Live
<1>6. SlotsOK'
  <2>1. Len(recorders) \in Nat
    BY LenProperties DEF Types, ServerTypes
  <2> QED
    BY <1>2, <1>3, <1>4, <2>1 DEF RequestsOK, SlotsOK
<1>7. LiveOK'
  BY <1>2, <1>3, <1>4, <1>5 DEF LiveOK, Live
<1>8. Given' \subseteq Given
  BY <1>3, <1>4 DEF Given
<1>9. GivenOK'
  BY <1>2, <1>8, SubsetGiven DEF GivenOK
<1> QED
  BY <1>6, <1>7, <1>9 DEF RequestsOK

LEMMA RequestsOfLoses ==
  ASSUME Types, RequestsOK, Loses
  PROVE  RequestsOK'
<1>1. Lost
  BY LosesEffect
<1>2. sending' = FALSE /\ phase' # "complete" /\ batch' = <<>>
  <2>1. sending \in BOOLEAN
    BY DEF Types, RunnerTypes
  <2> QED
    BY <1>1, <2>1 DEF Lost, Requeued, NotRequeued, RequestsOK, LiveOK
<1>3. \A k \in Slots : ~Live(k)'
  BY <1>1 DEF Lost, Live
<1>4. LiveOK'
  BY <1>2, <1>3 DEF LiveOK
<1>5. SlotsOK'
  <2> SUFFICES ASSUME NEW k \in Slots
               PROVE  LET q == requests'[k]
                      IN  /\ q.kind = "none" <=> q = Free
                          /\ q.rec <= Len(recorders')
                          /\ q.stage = "free" => q = Free
                          /\ q.stage \in {"wait", "settled"} => q.rec # 0
                               /\ recorders'[q.rec].state = "ready"
                          /\ q.stage = "settled" => q.kind = "complete" /\ recorders'[q.rec].closed
    BY DEF SlotsOK
  <2>1. Len(recorders') \in Nat
    BY TypesLoses, LenProperties DEF Types, ServerTypes
  <2>2. CASE requests'[k] = Free
    BY <2>1, <2>2, Sizes
  <2>3. CASE requests'[k] # Free
    <3>1. Dropped(k) /\ Keeps
      BY <1>1, <2>3 DEF Lost
    <3>2. requests[k] \in Requests /\ requests[k] # Free
            /\ requests'[k] = [requests[k] EXCEPT !.live = FALSE]
      BY <3>1, RequestFacts DEF Dropped
    <3>3. /\ requests'[k].kind = requests[k].kind /\ requests'[k].rec = requests[k].rec
          /\ requests'[k].stage = requests[k].stage
      BY <3>2 DEF Requests
    <3>4. /\ requests[k].kind = "none" <=> requests[k] = Free
          /\ requests[k].rec <= Len(recorders')
          /\ requests[k].stage = "free" => requests[k] = Free
      BY <3>1, KeepsFacts DEF RequestsOK, SlotsOK
    <3>5. requests[k].stage \in {"wait", "settled"} =>
            requests[k].rec # 0 /\ recorders'[requests[k].rec].state = "ready"
      <4>1. requests[k].stage \in {"wait", "settled"} =>
              requests[k].rec \in DOMAIN recorders /\ requests[k].rec # 0
                /\ recorders[requests[k].rec].state = "ready"
        BY RecOf DEF RequestsOK, SlotsOK
      <4> QED
        BY <3>1, <4>1, KeepsFacts
    <3>6. requests[k].stage = "settled" =>
            requests[k].kind = "complete" /\ recorders'[requests[k].rec].closed
      <4>1. requests[k].stage = "settled" =>
              requests[k].rec \in DOMAIN recorders /\ requests[k].kind = "complete"
                /\ recorders[requests[k].rec].closed
        BY RecOf DEF RequestsOK, SlotsOK
      <4> QED
        BY <3>1, <4>1, KeepsFacts
    <3> HIDE DEF Free
    <3> QED
      BY <2>3, <3>2, <3>3, <3>4, <3>5, <3>6
  <2> QED
    BY <2>2, <2>3
<1>6. GivenOK'
  <2>1. PICK i \in Slots :
          /\ \A k \in Slots : requests'[k] # Free /\ k # i => requests'[k] = requests[k] /\ ~requests[k].live
          /\ faults' = faults + 1 \/ (faults' = faults /\ requests'[i] = Free)
    BY <1>1 DEF Lost
  <2>0. faults \in Nat
    BY Sizes DEF Types
  <2>10. CASE requests'[i] = Free
    <3>1. Given' \subseteq Given
      BY <2>1, <2>10 DEF Given
    <3>2. Cardinality(Given') <= faults /\ IsFiniteSet(Given')
      BY <3>1, SubsetGiven, FS_Subset
    <3>3. Cardinality(Given') \in Nat
      BY <3>2, FS_CardinalityType
    <3> QED
      BY <2>0, <2>1, <3>2, <3>3 DEF GivenOK
  <2>2. \A k \in Slots : k \in Given' => k \in Given \cup {i}
    BY <2>1 DEF Given
  <2>3. Given' \ {i} \subseteq Given
    BY <2>2 DEF Given
  <2>4. Cardinality(Given' \ {i}) <= faults /\ IsFiniteSet(Given)
    BY <2>3, SubsetGiven
  <2>5. IsFiniteSet(Given' \ {i})
    BY <2>3, <2>4, FS_Subset
  <2>6. IsFiniteSet((Given' \ {i}) \cup {i})
          /\ Cardinality((Given' \ {i}) \cup {i}) = Cardinality(Given' \ {i}) + 1
    BY <2>5, FS_AddElement
  <2>7. Cardinality(Given') <= Cardinality((Given' \ {i}) \cup {i}) /\ Cardinality(Given') \in Nat
    BY <2>6, FS_Subset, FS_CardinalityType
  <2>8. Cardinality(Given' \ {i}) \in Nat
    BY <2>5, FS_CardinalityType
  <2>9. CASE faults' = faults + 1
    BY <2>0, <2>4, <2>6, <2>7, <2>8, <2>9 DEF GivenOK
  <2> QED
    BY <2>1, <2>9, <2>10
<1> QED
  BY <1>4, <1>5, <1>6 DEF RequestsOK

LEMMA RequestsOfAnswers ==
  ASSUME Types, RequestsOK, NEW i \in Slots, Answers(i)
  PROVE  RequestsOK'
<1> DEFINE new == requests'[i]
<1>1. \/ Ignored(i)
      \/ NextLines /\ (NextBatch(i) \/ NextResult(i) \/ NextNothing(i))
      \/ ResultTaken(i)
  BY AnswerEffect DEF Answers
<1>2. requests \in [Slots -> Requests] /\ sending \in BOOLEAN
      /\ requests[i] # Free /\ Keeps
  BY DEF Types, RunnerTypes, Answers
<1>3. /\ \A k \in Slots : k # i => requests'[k] = requests[k]
      /\ \/ new = Free
         \/ new = NewRequest("events", batch') /\ batch' \in Seq(Notes)
         \/ new = NewRequest("complete", <<>>)
  BY <1>1, <1>2 DEF Ignored, NextBatch, NextResult, NextNothing, NextLines, ResultTaken
<1>4. /\ NewRequest("complete", <<>>) # Free /\ NewRequest("complete", <<>>).kind = "complete"
      /\ NewRequest("complete", <<>>).stage = "sent" /\ NewRequest("complete", <<>>).rec = 0
      /\ NewRequest("complete", <<>>).live = TRUE
  BY NewRequestType, EmptySeq
<1>5. batch' \in Seq(Notes) =>
        /\ NewRequest("events", batch') # Free /\ NewRequest("events", batch').kind = "events"
        /\ NewRequest("events", batch').stage = "sent" /\ NewRequest("events", batch').rec = 0
        /\ NewRequest("events", batch').live = TRUE /\ NewRequest("events", batch').lines = batch'
  BY NewRequestType
<1>6. Len(recorders) \in Nat /\ Len(recorders') = Len(recorders)
  BY <1>2, LenProperties DEF Types, ServerTypes, Keeps
<1> HIDE DEF new
<1>7. SlotsOK'
  <2>1. new = Free \/ (new # Free /\ new.kind # "none" /\ new.stage = "sent" /\ new.rec = 0)
    BY <1>3, <1>4, <1>5
  <2>2. ASSUME NEW k \in Slots
        PROVE  LET q == requests'[k]
               IN  /\ q.kind = "none" <=> q = Free
                   /\ q.rec <= Len(recorders')
                   /\ q.stage = "free" => q = Free
                   /\ q.stage \in {"wait", "settled"} => q.rec # 0 /\ recorders'[q.rec].state = "ready"
                   /\ q.stage = "settled" => q.kind = "complete" /\ recorders'[q.rec].closed
    <3>1. CASE k = i
      BY <1>6, <2>1, <3>1, Sizes DEF new
    <3>2. CASE k # i
      <4>1. requests'[k] = requests[k]
        BY <1>3, <3>2
      <4>2. requests[k].stage \in {"wait", "settled"} => requests[k].rec \in DOMAIN recorders
        BY RecOf DEF RequestsOK, SlotsOK
      <4>3. requests[k].stage \in {"wait", "settled"} =>
              recorders'[requests[k].rec].state = "ready"
        BY <1>2, <4>2, KeepsFacts DEF RequestsOK, SlotsOK
      <4>4. requests[k].stage = "settled" => recorders'[requests[k].rec].closed
        BY <1>2, <4>2, KeepsFacts DEF RequestsOK, SlotsOK
      <4> QED
        BY <1>6, <4>1, <4>3, <4>4 DEF RequestsOK, SlotsOK
    <3> QED
      BY <3>1, <3>2
  <2> QED
    BY <2>2 DEF SlotsOK
<1>8. Given' \subseteq Given
  <2>1. new = Free \/ new.live
    BY <1>3, <1>4, <1>5
  <2> QED
    BY <1>3, <2>1 DEF Given, new
<1>9. GivenOK'
  <2>1. Cardinality(Given') <= faults /\ IsFiniteSet(Given')
    BY <1>8, SubsetGiven, FS_Subset
  <2>2. Cardinality(Given') \in Nat
    BY <2>1, FS_CardinalityType
  <2>3. faults \in Nat /\ faults' \in Nat /\ faults <= faults'
    BY Sizes DEF Types, Answers
  <2> QED
    BY <2>1, <2>2, <2>3 DEF GivenOK
<1>10. requests[i].live => Live(i) /\ \A k \in Slots : k # i => ~Live(k)
  BY <1>2 DEF RequestsOK, SlotsOK, LiveOK, Live
<1>11. \A k \in Slots : k # i => Live(k)' = Live(k)
  BY <1>3 DEF Live
<1>12. LiveOK'
  <2>1. CASE Ignored(i)
    <3>1. ~Live(i) /\ ~Live(i)' /\ UNCHANGED <<sending, batch, phase>>
      BY <1>2, <2>1, Sizes DEF Ignored, Live, runnerVars
    <3> QED
      BY <1>3, <1>11, <3>1 DEF RequestsOK, LiveOK
  <2>2. CASE NextLines /\ NextBatch(i)
    <3>1. sending' /\ new = NewRequest("events", batch') /\ batch' \in Seq(Notes) /\ phase' = phase
            /\ requests[i].live
          /\ requests[i].kind = "events"
      BY <1>2, <2>2 DEF NextLines, NextBatch, new
    <3>2. sending
      BY <1>10, <3>1 DEF RequestsOK, LiveOK
    <3>3. \A k \in Slots : k # i => ~Live(k)'
      BY <1>10, <1>11, <3>1
    <3>4. Live(i)' /\ requests'[i].kind = "events" /\ requests'[i].lines = batch'
      BY <1>5, <3>1 DEF Live, new
    <3> QED
      BY <3>1, <3>2, <3>3, <3>4 DEF RequestsOK, LiveOK
  <2>3. CASE NextLines /\ NextResult(i)
    <3>1. ~sending' /\ new = NewRequest("complete", <<>>) /\ batch' = <<>> /\ phase' = "complete"
            /\ requests[i].live
      BY <1>2, <2>3 DEF NextLines, NextResult, new
    <3>2. \A k \in Slots : k # i => ~Live(k)'
      BY <1>10, <1>11, <3>1
    <3>3. Live(i)' /\ requests'[i].kind = "complete"
      BY <1>4, <3>1 DEF Live, new
    <3> QED
      BY <3>1, <3>2, <3>3 DEF LiveOK
  <2>4. CASE NextLines /\ NextNothing(i)
    <3>1. ~sending' /\ new = Free /\ batch' = <<>> /\ phase' = phase /\ requests[i].live
            /\ requests[i].kind = "events"
      BY <1>2, <2>4 DEF NextLines, NextNothing, new
    <3>2. phase # "complete"
      BY <1>10, <3>1 DEF RequestsOK, LiveOK
    <3>3. \A k \in Slots : ~Live(k)'
      BY <1>10, <1>11, <3>1, Sizes DEF Live, new
    <3> QED
      BY <3>1, <3>2, <3>3 DEF LiveOK
  <2>5. CASE ResultTaken(i)
    <3>1. /\ requests[i].live /\ requests[i].kind = "complete" /\ new = Free /\ phase' = "over"
          /\ UNCHANGED <<batch, sending>>
      BY <1>2, <2>5 DEF ResultTaken, new
    <3>2. phase = "complete" /\ ~sending
      BY <1>10, <3>1 DEF RequestsOK, LiveOK
    <3>3. \A k \in Slots : ~Live(k)'
      BY <1>10, <1>11, <3>1, Sizes DEF Live, new
    <3> QED
      BY <3>1, <3>2, <3>3 DEF RequestsOK, LiveOK
  <2> QED
    BY <1>1, <2>1, <2>2, <2>3, <2>4, <2>5
<1> QED
  BY <1>7, <1>9, <1>12 DEF RequestsOK

(* One recorder changes, the others stay as they are.                      *)
Changed(r, new) ==
  recorders' = [recorders EXCEPT ![r] = new]

LEMMA ChangedFacts ==
  ASSUME Types, NEW r \in DOMAIN recorders, NEW new, Changed(r, new)
  PROVE  /\ Len(recorders') = Len(recorders) /\ DOMAIN recorders' = DOMAIN recorders
         /\ recorders'[r] = new
         /\ \A k \in DOMAIN recorders : k # r => recorders'[k] = recorders[k]
<1>1. recorders \in Seq(Recorders \cup {new}) /\ new \in Recorders \cup {new}
      /\ r \in 1..Len(recorders)
  <2>1. recorders \in Seq(Recorders)
    BY DEF Types, ServerTypes
  <2>2. recorders \in Seq(Recorders \cup {new})
    BY <2>1, SeqMonotonic
  <2> QED
    BY <2>2, RecorderFacts
<1>2. Len(recorders') = Len(recorders)
  BY <1>1, ExceptSeq DEF Changed
<1> QED
  BY <1>1, <1>2, RecorderFacts DEF Changed

LEMMA SlotsOfChanged ==
  ASSUME Types, RequestsOK, NEW r \in DOMAIN recorders, NEW new, Changed(r, new),
         recorders[r].state = "ready" => new.state = "ready", recorders[r].closed => new.closed,
         requests' = requests
  PROVE  SlotsOK'
<1>1. /\ Len(recorders') = Len(recorders)
      /\ \A k \in DOMAIN recorders : recorders[k].state = "ready" => recorders'[k].state = "ready"
      /\ \A k \in DOMAIN recorders : recorders[k].closed => recorders'[k].closed
  BY ChangedFacts
<1>2. \A k \in Slots : requests[k].rec # 0 => requests[k].rec \in DOMAIN recorders
  BY RecOf
<1> QED
  BY <1>1, <1>2 DEF RequestsOK, SlotsOK

LEMMA SlotsOfProgress ==
  ASSUME Types, RequestsOK, NEW i \in Slots,
         Accepts(i) \/ Open(i) \/ Takes(i) \/ Detaches(i) \/ FinishRows(i)
  PROVE  SlotsOK'
<1>1. Progress(i)
  BY ProgressEffect
<1>2. requests \in [Slots -> Requests] /\ requests[i] \in Requests /\ Len(recorders) \in Nat
      /\ DOMAIN recorders = 1..Len(recorders)
  BY RequestFacts, LenProperties DEF Types, ServerTypes
<1>3. \A k \in Slots : requests[k].rec # 0 => requests[k].rec \in DOMAIN recorders
  BY RecOf
<1>4. /\ Len(recorders') \in Nat /\ Len(recorders) <= Len(recorders')
      /\ \A k \in DOMAIN recorders : recorders[k].state = "ready" => recorders'[k].state = "ready"
      /\ \A k \in DOMAIN recorders : recorders[k].closed => recorders'[k].closed
      /\ requests'[i].rec <= Len(recorders')
      /\ requests'[i].stage \in {"read", "wait", "settled"}
      /\ requests'[i].stage = "settled" =>
           requests[i].kind = "complete" /\ recorders'[requests[i].rec].closed
      /\ requests'[i].stage \in {"wait", "settled"} =>
           requests[i].rec # 0 /\ recorders[requests[i].rec].state = "ready"
             /\ requests'[i].rec = requests[i].rec
  <2>1. requests[i].rec \in Nat /\ requests[i].rec <= Len(recorders) /\ requests[i].stage \in Stages
    BY RequestFacts DEF RequestsOK, SlotsOK
  <2>2. CASE Accepts(i)
    BY <1>2, <2>1, <2>2 DEF Accepts, Requests, serverVars
  <2>3. CASE Open(i)
    <3>1. CASE current # 0
      <4>1. requests'[i].rec = current /\ recorders' = recorders /\ requests'[i].stage = "read"
        BY <1>2, <2>3, <3>1 DEF Open, Requests
      <4>2. current \in 0..Len(recorders)
        BY DEF Types, ServerTypes
      <4> QED
        BY <1>2, <4>1, <4>2
    <3>2. CASE current = 0
      <4>1. requests'[i].rec = Len(recorders) + 1 /\ requests'[i].stage = "read"
            /\ recorders' = Append(recorders, NewRecorder("loading"))
        BY <1>2, <2>3, <3>2 DEF Open, Requests
      <4>2. NewRecorder("loading") \in Recorders
        BY NewRecorderType
      <4>3. Len(recorders') = Len(recorders) + 1
              /\ \A k \in DOMAIN recorders : recorders'[k] = recorders[k]
        BY <1>2, <4>1, <4>2, Appended DEF Types, ServerTypes
      <4> QED
        BY <1>2, <4>1, <4>3
    <3> QED
      BY <3>1, <3>2
  <2>4. CASE Takes(i)
    <3> DEFINE r == requests[i].rec
               new == [recorders[r] EXCEPT !.pending = recorders[r].pending \o requests[i].lines]
    <3>1. r \in DOMAIN recorders /\ Changed(r, new) /\ recorders[r].state = "ready"
      BY <2>4 DEF Takes, Changed
    <3>2. new.state = "ready" /\ new.closed = recorders[r].closed
      BY <3>1, RecorderFacts DEF Recorders
    <3>3. requests'[i].stage = "wait" /\ requests'[i].rec = r
      BY <1>2, <2>4 DEF Takes, Requests
    <3> HIDE DEF new
    <3>4. /\ Len(recorders') = Len(recorders)
          /\ \A k \in DOMAIN recorders : recorders[k].state = "ready" => recorders'[k].state = "ready"
          /\ \A k \in DOMAIN recorders : recorders[k].closed => recorders'[k].closed
      BY <3>1, <3>2, ChangedFacts
    <3>5. r # 0
      BY <1>2, <3>1
    <3> QED
      BY <1>2, <2>1, <3>1, <3>3, <3>4, <3>5
  <2>5. CASE Detaches(i)
    <3>1. requests'[i].stage = "wait" /\ requests'[i].rec = requests[i].rec /\ recorders' = recorders
          /\ recorders[requests[i].rec].state = "ready" /\ requests[i].rec \in DOMAIN recorders
      BY <1>2, <2>5 DEF Detaches, Requests
    <3>2. requests[i].rec # 0
      BY <1>2, <3>1
    <3> QED
      BY <1>2, <2>1, <3>1, <3>2
  <2>6. CASE FinishRows(i)
    <3> DEFINE r == requests[i].rec
    <3>0. PICK jobs : Finishing(i, jobs)
      BY <2>6, TypesFinishRows
    <3> DEFINE new == [recorders[r] EXCEPT !.closed = TRUE, !.jobs = jobs]
    <3>1. r \in DOMAIN recorders /\ Changed(r, new) /\ recorders[r].state = "ready"
          /\ requests' = [requests EXCEPT ![i].stage = "settled"]
      <4>1. r \in DOMAIN recorders /\ Changed(r, new) /\ recorders[r].state = "ready"
        BY <3>0, Zenon DEF Changed, Finishing
      <4> QED
        BY <2>6, <4>1, TypesFinishRows
    <3>2. new.state = "ready" /\ new.closed
      BY <3>1, RecorderFacts DEF Recorders
    <3>3. requests'[i].stage = "settled" /\ requests'[i].rec = r /\ requests[i].kind = "complete"
      BY <1>2, <2>6, <3>1 DEF FinishRows, Requests
    <3> HIDE DEF new
    <3>4. /\ Len(recorders') = Len(recorders)
          /\ \A k \in DOMAIN recorders : recorders[k].state = "ready" => recorders'[k].state = "ready"
          /\ \A k \in DOMAIN recorders : recorders[k].closed => recorders'[k].closed
      BY <3>1, <3>2, ChangedFacts
    <3>5. r # 0 /\ recorders'[r].closed
      BY <1>2, <3>1, <3>2, ChangedFacts
    <3> QED
      BY <1>2, <2>1, <3>1, <3>3, <3>4, <3>5
  <2> QED
    BY <2>2, <2>3, <2>4, <2>5, <2>6
<1>5. requests'[i].kind = requests[i].kind /\ requests'[i].kind # "none"
      /\ \A k \in Slots : k # i => requests'[k] = requests[k]
  BY <1>1 DEF Progress
<1>6. ASSUME NEW k \in Slots
      PROVE  LET q == requests'[k]
             IN  /\ q.kind = "none" <=> q = Free
                 /\ q.rec <= Len(recorders')
                 /\ q.stage = "free" => q = Free
                 /\ q.stage \in {"wait", "settled"} => q.rec # 0 /\ recorders'[q.rec].state = "ready"
                 /\ q.stage = "settled" => q.kind = "complete" /\ recorders'[q.rec].closed
  <2>1. CASE k = i
    BY <1>3, <1>4, <1>5, <2>1, Sizes
  <2>2. CASE k # i
    <3>1. requests'[k] = requests[k] /\ requests[k].rec \in Nat /\ requests[k].rec <= Len(recorders)
      BY <1>5, <2>2, RequestFacts DEF RequestsOK, SlotsOK
    <3>2. requests[k].rec <= Len(recorders')
      BY <1>2, <1>4, <3>1
    <3>3. requests[k].stage \in {"wait", "settled"} =>
            requests[k].rec \in DOMAIN recorders /\ requests[k].rec # 0
      BY <1>3 DEF RequestsOK, SlotsOK
    <3> QED
      BY <1>4, <3>1, <3>2, <3>3 DEF RequestsOK, SlotsOK
  <2> QED
    BY <2>1, <2>2
<1> QED
  BY <1>6 DEF SlotsOK

LEMMA HandlesChanges ==
  ASSUME Types, NEW r \in DOMAIN recorders, NEW item, NEW known, NEW jobs, Handles(r, item, known, jobs)
  PROVE  \E new : /\ Changed(r, new) /\ new.state = recorders[r].state
                  /\ new.closed = recorders[r].closed /\ new.pending = Tail(recorders[r].pending)
                  /\ new.handled = recorders[r].handled + 1 /\ new.known = known /\ new.jobs = jobs
<1> DEFINE new == [recorders[r] EXCEPT !.pending = Tail(recorders[r].pending),
                     !.handled = recorders[r].handled + 1, !.known = known, !.jobs = jobs]
<1>1. recorders[r] \in Recorders
  BY RecorderFacts
<1>2. /\ new.state = recorders[r].state /\ new.closed = recorders[r].closed
      /\ new.pending = Tail(recorders[r].pending) /\ new.handled = recorders[r].handled + 1
      /\ new.known = known /\ new.jobs = jobs
  BY <1>1 DEF Recorders
<1>3. Changed(r, new)
  BY DEF Handles, Changed
<1> HIDE DEF new
<1> QED
  BY <1>2, <1>3

LEMMA ResumeChanges ==
  ASSUME Types, NEW r \in DOMAIN recorders, Resume(r)
  PROVE  /\ recorders[r].state = "loading"
         /\ \E new : /\ Changed(r, new) /\ new.state = (IF over THEN "null" ELSE "ready")
                     /\ new.closed = recorders[r].closed /\ new.pending = recorders[r].pending
                     /\ new.handled = recorders[r].handled
                     /\ new.known = { j \in Jobs : RowOf(j) # {} }
                     /\ new.jobs = [j \in Jobs |-> Remembered(j)]
<1> DEFINE jobs == [j \in Jobs |-> Remembered(j)]
           known == { j \in Jobs : RowOf(j) # {} }
           s == IF over THEN "null" ELSE "ready"
           new == [recorders[r] EXCEPT !.state = s, !.known = known, !.jobs = jobs]
<1>1. recorders[r] \in Recorders /\ recorders[r].state = "loading"
  BY RecorderFacts, Zenon DEF Resume
<1>3. Changed(r, new)
  BY TypesResume, Zenon DEF Changed
<1> HIDE DEF s, known, jobs
<1>2. /\ new.state = s /\ new.closed = recorders[r].closed
      /\ new.pending = recorders[r].pending /\ new.handled = recorders[r].handled
      /\ new.known = known /\ new.jobs = jobs
  BY <1>1 DEF Recorders
<1> HIDE DEF new
<1> QED
  BY <1>1, <1>2, <1>3 DEF s, known, jobs

LEMMA ResumeFailsChanges ==
  ASSUME Types, NEW r \in DOMAIN recorders, ResumeFails(r)
  PROVE  /\ recorders[r].state = "loading"
         /\ \E new : /\ Changed(r, new) /\ new.state = "rejected"
                     /\ new.closed = recorders[r].closed /\ new.pending = recorders[r].pending
                     /\ new.handled = recorders[r].handled
<1> DEFINE new == [recorders[r] EXCEPT !.state = "rejected"]
<1>1. recorders[r] \in Recorders /\ recorders[r].state = "loading"
  BY RecorderFacts DEF ResumeFails
<1>2. /\ new.state = "rejected" /\ new.closed = recorders[r].closed
      /\ new.pending = recorders[r].pending /\ new.handled = recorders[r].handled
  BY <1>1 DEF Recorders
<1>3. Changed(r, new)
  BY TypesResumeFails DEF Changed
<1> HIDE DEF new
<1> QED
  BY <1>1, <1>2, <1>3

LEMMA RequestsOfRecords ==
  ASSUME Types, RequestsOK, NEW r \in DOMAIN recorders, Records(r)
  PROVE  RequestsOK'
<1>0. faults' = faults \/ faults' = faults + 1
  BY Zenon DEF Records, Resume, ResumeFails, HandleLine, HandleFails
<1>1. UNCHANGED <<requests, runnerVars>>
  BY Zenon DEF Records, Resume, ResumeFails, HandleLine, HandleFails
<1>2. LiveOK' /\ GivenOK'
  <2>1. LiveOK' /\ Given' = Given
    BY <1>1 DEF RequestsOK, LiveOK, Live, Given, runnerVars
  <2>2. Cardinality(Given) <= faults /\ IsFiniteSet(Given)
    BY SubsetGiven
  <2>3. Cardinality(Given) \in Nat /\ faults \in Nat
    BY <2>2, FS_CardinalityType, Sizes DEF Types
  <2> QED
    BY <1>0, <2>1, <2>2, <2>3 DEF GivenOK
<1>3. SlotsOK'
  <2>1. CASE Resume(r)
    <3>1. PICK new : Changed(r, new) /\ recorders[r].state = "loading" /\ new.closed = recorders[r].closed
      BY <2>1, ResumeChanges
    <3> QED
      BY <1>1, <3>1, SlotsOfChanged
  <2>2. CASE ResumeFails(r)
    <3>1. PICK new : Changed(r, new) /\ recorders[r].state = "loading" /\ new.closed = recorders[r].closed
      BY <2>2, ResumeFailsChanges
    <3> QED
      BY <1>1, <3>1, SlotsOfChanged
  <2>3. CASE HandleLine(r) \/ HandleFails(r)
    <3>1. PICK item, known, jobs : Handles(r, item, known, jobs)
      BY <2>3, HandleLineEffect
    <3>2. PICK new : Changed(r, new) /\ new.state = recorders[r].state /\ new.closed = recorders[r].closed
      BY <3>1, HandlesChanges
    <3> QED
      BY <1>1, <3>2, SlotsOfChanged
  <2> QED
    BY <2>1, <2>2, <2>3 DEF Records
<1> QED
  BY <1>2, <1>3 DEF RequestsOK

LEMMA RequestsStep ==
  ASSUME Types, RequestsOK, RecordersOK, [Next]_vars
  PROVE  RequestsOK'
<1>1. ASSUME NEW i \in Slots, Accepts(i) \/ Open(i) \/ Takes(i) \/ Detaches(i) \/ FinishRows(i)
      PROVE  RequestsOK'
  <2>1. Progress(i) /\ SlotsOK'
    BY <1>1, ProgressEffect, SlotsOfProgress
  <2>2. LiveOK' /\ GivenOK'
    BY <2>1, RequestsOfProgress
  <2> QED
    BY <2>1, <2>2 DEF RequestsOK
<1> QED
  BY <1>1, StepKinds, RequestsOfIdles, RequestsOfPrintLine, RequestsOfFlushes, RequestsOfLoses,
     RequestsOfAnswers, RequestsOfRecords

LEMMA RecordersStep ==
  ASSUME Types, RequestsOK, RecordersOK, [Next]_vars
  PROVE  RecordersOK'
<1>1. ASSUME recorders' = recorders, over => over'
      PROVE  RecordersOK'
  BY <1>1 DEF RecordersOK
<1>0. ASSUME Keeps, over => over'
      PROVE  RecordersOK'
  <2>1. DOMAIN recorders' = DOMAIN recorders
    BY <1>0, KeepsFacts
  <2> QED
    BY <1>0, <2>1 DEF RecordersOK, Keeps
<1>2. ASSUME NEW r \in DOMAIN recorders, NEW new, Changed(r, new), over' = over,
             new.state # "ready" => new.pending = <<>> /\ ~new.closed,
             new.state = "null" => over
      PROVE  RecordersOK'
  BY <1>2, ChangedFacts DEF RecordersOK
<1>3. CASE Idles \/ PrintLine \/ Flushes
  BY <1>1, <1>3 DEF Idles, PrintLine, Flushes, serverVars
<1>4. CASE Loses
  <2>1. over' = over /\ (Keeps \/ recorders' = <<>>)
    BY <1>4, LosesEffect DEF Lost
  <2>2. CASE recorders' = <<>>
    BY <2>2 DEF RecordersOK
  <2> QED
    BY <1>0, <2>1, <2>2
<1>5. ASSUME NEW i \in Slots, Answers(i) \/ Accepts(i) \/ Detaches(i)
      PROVE  RecordersOK'
  <2>1. CASE Answers(i)
    BY <1>0, <2>1 DEF Answers
  <2>2. CASE Accepts(i) \/ Detaches(i)
    BY <1>1, <2>2 DEF Accepts, Detaches, serverVars
  <2> QED
    BY <1>5, <2>1, <2>2
<1>6. ASSUME NEW i \in Slots, Open(i)
      PROVE  RecordersOK'
  <2>1. CASE current # 0
    BY <1>1, <1>6, <2>1 DEF Open
  <2>2. CASE current = 0
    <3>1. recorders' = Append(recorders, NewRecorder("loading")) /\ over' = over
      BY <1>6, <2>2 DEF Open
    <3>2. /\ NewRecorder("loading") \in Recorders /\ NewRecorder("loading").state = "loading"
          /\ NewRecorder("loading").pending = <<>> /\ ~NewRecorder("loading").closed
      BY NewRecorderType
    <3>3. /\ DOMAIN recorders' = 1..(Len(recorders) + 1) /\ Len(recorders) \in Nat
          /\ DOMAIN recorders = 1..Len(recorders)
          /\ \A k \in DOMAIN recorders : recorders'[k] = recorders[k]
          /\ recorders'[Len(recorders) + 1] = NewRecorder("loading")
      BY <3>1, <3>2, Appended DEF Types, ServerTypes
    <3>4. \A k \in DOMAIN recorders' : k \in DOMAIN recorders \/ k = Len(recorders) + 1
      BY <3>3
    <3> QED
      BY <3>1, <3>2, <3>3, <3>4 DEF RecordersOK
  <2> QED
    BY <2>1, <2>2
<1>7. ASSUME NEW i \in Slots, Takes(i)
      PROVE  RecordersOK'
  <2> DEFINE r == requests[i].rec
             new == [recorders[r] EXCEPT !.pending = recorders[r].pending \o requests[i].lines]
  <2>1. r \in DOMAIN recorders /\ Changed(r, new) /\ recorders[r].state = "ready" /\ over' = over
    BY <1>7 DEF Takes, Changed
  <2>2. new.state = "ready"
    BY <2>1, RecorderFacts DEF Recorders
  <2> HIDE DEF new
  <2> QED
    BY <1>2, <2>1, <2>2
<1>8. ASSUME NEW i \in Slots, FinishRows(i)
      PROVE  RecordersOK'
  <2>1. PICK jobs : Finishing(i, jobs)
    BY <1>8, TypesFinishRows
  <2> QED
    BY <1>0, <1>8, <2>1, FinishingKeeps DEF FinishRows
<1>9. ASSUME NEW r \in DOMAIN recorders, Resume(r)
      PROVE  RecordersOK'
  <2>1. over' = over
    BY <1>9, Zenon DEF Resume
  <2>2. PICK new : /\ Changed(r, new) /\ new.state = (IF over THEN "null" ELSE "ready")
                   /\ new.closed = recorders[r].closed /\ new.pending = recorders[r].pending
    BY <1>9, ResumeChanges
  <2>3. recorders[r].pending = <<>> /\ ~recorders[r].closed
    BY <1>9, ResumeChanges DEF RecordersOK
  <2> QED
    BY <1>2, <2>1, <2>2, <2>3
<1>11. ASSUME NEW r \in DOMAIN recorders, ResumeFails(r)
       PROVE  RecordersOK'
  <2>1. over' = over
    BY <1>11 DEF ResumeFails
  <2>2. PICK new : /\ Changed(r, new) /\ new.state = "rejected"
                   /\ new.closed = recorders[r].closed /\ new.pending = recorders[r].pending
    BY <1>11, ResumeFailsChanges
  <2>3. recorders[r].pending = <<>> /\ ~recorders[r].closed
    BY <1>11, ResumeFailsChanges DEF RecordersOK
  <2> QED
    BY <1>2, <2>1, <2>2, <2>3
<1>10. ASSUME NEW r \in DOMAIN recorders, HandleLine(r) \/ HandleFails(r)
       PROVE  RecordersOK'
  <2>1. PICK item, known, jobs : Handles(r, item, known, jobs)
    BY <1>10, HandleLineEffect
  <2>2. recorders[r].state = "ready" /\ over' = over
    BY <2>1 DEF RecordersOK, Handles
  <2>3. PICK new : Changed(r, new) /\ new.state = recorders[r].state
    BY <2>1, HandlesChanges
  <2> QED
    BY <1>2, <2>2, <2>3
<1>12. ASSUME NEW r \in DOMAIN recorders, Records(r)
       PROVE  RecordersOK'
  BY <1>9, <1>10, <1>11, <1>12, Zenon DEF Records
<1> QED
  BY <1>3, <1>4, <1>5, <1>6, <1>7, <1>8, <1>12, StepKinds

-----------------------------------------------------------------------------
(* The lines keep flowing.                                                 *)
LEMMA LogGrows ==
  ASSUME Types, NEW r \in DOMAIN recorders, NEW item, NEW known, NEW jobs, Handles(r, item, known, jobs)
  PROVE  /\ LinesOf(log) \subseteq LinesOf(log') /\ failed \subseteq failed'
         /\ ~recorders[r].closed /\ item.line # 0 => item.line \in LinesOf(log') \cup failed'
         /\ \A k \in DOMAIN log : k \in DOMAIN log' /\ log'[k] = log[k]
         /\ ~recorders[r].closed => item.line \in failed' \/ \E k \in DOMAIN log' : log'[k] = item
<1>1. log \in Seq(Notes) /\ item \in Notes
  BY DEF Handles, Types, ServerTypes
<1>2. /\ DOMAIN Append(log, item) = 1..(Len(log) + 1) /\ Len(log) \in Nat /\ DOMAIN log = 1..Len(log)
      /\ \A k \in DOMAIN log : Append(log, item)[k] = log[k]
      /\ Append(log, item)[Len(log) + 1] = item
  BY <1>1, Appended
<1>3. log' = Append(log, item) \/ (log' = log /\ (recorders[r].closed \/ item.line \in failed'))
  <2>1. Logged(r, item)
    BY Zenon DEF Handles
  <2> QED
    BY <2>1 DEF Logged
<1>4. \A k \in DOMAIN log : k \in DOMAIN log' /\ log'[k] = log[k]
  BY <1>2, <1>3
<1>5. ~recorders[r].closed => item.line \in failed' \/ \E k \in DOMAIN log' : log'[k] = item
  BY <1>2, <1>3
<1>6. failed \subseteq failed'
  BY DEF Handles
<1> QED
  BY <1>4, <1>5, <1>6 DEF LinesOf

LEMMA Grows ==
  ASSUME Types, RequestsOK, RecordersOK, [Next]_vars
  PROVE  /\ Seen \subseteq Seen' /\ Gone \subseteq Gone' /\ failed \subseteq failed'
         /\ out \in Nat /\ out' \in Nat /\ out <= out'
         /\ phase # "running" => phase' # "running" /\ out' = out
         /\ over => over'
<1>1. out \in Nat
  BY KeptType
<1>2. CASE Idles
  BY <1>1, <1>2 DEF Idles, Seen, Gone, serverVars, lost
<1>3. CASE PrintLine
  <2>1. /\ UNCHANGED <<log, failed, over, phase>> /\ out' = out + 1 /\ phase = "running"
        /\ trimmed \subseteq trimmed'
    BY <1>3 DEF PrintLine, Enqueue, Drop, serverVars
  <2>2. Seen \subseteq Seen' /\ Gone \subseteq Gone'
    BY <2>1 DEF Seen, Gone
  <2> QED
    BY <1>1, <2>1, <2>2
<1>4. CASE Flushes
  <2>1. UNCHANGED <<log, failed, over, out>> /\ trimmed \subseteq trimmed'
          /\ (phase # "running" => phase' # "running")
    BY <1>4 DEF Flushes, Flushed, serverVars
  <2>2. Seen \subseteq Seen' /\ Gone \subseteq Gone'
    BY <2>1 DEF Seen, Gone
  <2> QED
    BY <1>1, <2>1, <2>2
<1>5. CASE Loses
  <2>1. UNCHANGED <<log, failed, over, out>> /\ trimmed \subseteq trimmed'
          /\ (phase # "running" => phase' # "running")
    BY <1>5, LosesEffect DEF Lost, Requeued, NotRequeued, lost
  <2>2. Seen \subseteq Seen' /\ Gone \subseteq Gone'
    BY <2>1 DEF Seen, Gone
  <2> QED
    BY <1>1, <2>1, <2>2
<1>6. ASSUME NEW i \in Slots, Answers(i)
      PROVE  /\ UNCHANGED <<log, trimmed, failed, out>> /\ (over => over')
             /\ (phase # "running" => phase' # "running")
  <2>1. \/ Ignored(i)
        \/ NextLines /\ (NextBatch(i) \/ NextResult(i) \/ NextNothing(i))
        \/ ResultTaken(i)
    BY <1>6, AnswerEffect DEF Answers
  <2> QED
    BY <1>6, <2>1 DEF Answers, Ignored, NextLines, NextBatch, NextResult, NextNothing, ResultTaken,
      runnerVars, lost
<1>7. ASSUME NEW i \in Slots, Accepts(i) \/ Open(i) \/ Takes(i) \/ Detaches(i) \/ FinishRows(i)
      PROVE  UNCHANGED <<log, trimmed, failed, out, over, phase>>
  BY <1>7, ProgressEffect DEF Progress, runnerVars, lost
<1>8. ASSUME NEW r \in DOMAIN recorders, Records(r)
      PROVE  /\ UNCHANGED <<trimmed, out, over, phase>> /\ LinesOf(log) \subseteq LinesOf(log')
             /\ failed \subseteq failed'
  <2>1. CASE Resume(r)
    BY <2>1, Zenon DEF Resume, runnerVars, lost
  <2>2. CASE ResumeFails(r)
    BY <2>2 DEF ResumeFails, runnerVars, lost
  <2>3. CASE HandleLine(r) \/ HandleFails(r)
    <3>1. PICK item, known, jobs : Handles(r, item, known, jobs)
      BY <2>3, HandleLineEffect
    <3>2. UNCHANGED <<trimmed, out, over, phase>>
      BY <3>1 DEF Handles, runnerVars, lost
    <3> QED
      BY <3>1, <3>2, LogGrows
  <2> QED
    BY <1>8, <2>1, <2>2, <2>3 DEF Records
<1>9. ASSUME UNCHANGED <<trimmed, out>> /\ LinesOf(log) \subseteq LinesOf(log') /\ failed \subseteq failed'
      PROVE  Seen \subseteq Seen' /\ Gone \subseteq Gone' /\ out' \in Nat /\ out <= out'
  BY <1>1, <1>9 DEF Seen, Gone
<1> QED
  BY <1>1, <1>2, <1>3, <1>4, <1>5, <1>6, <1>7, <1>8, <1>9, StepKinds

(* Once the result is on its way nothing is missing; and nothing of a      *)
(* batch is when it is answered.                                           *)
LEMMA EndingSeen ==
  ASSUME FlowInv, Ending
  PROVE  1..out \subseteq Seen /\ LinesOf(Kept) \subseteq Seen /\ phase # "running"
<1>1. 1..out \subseteq Seen /\ phase # "running"
  BY DEF FlowInv, EndingOK, AllSeen
<1>2. Kept \in Seq(Notes) /\ out \in Nat
  BY KeptType DEF FlowInv
<1>3. \A k \in DOMAIN Kept : Kept[k].line \in Nat /\ Kept[k].line <= out
  BY <1>2, Elements DEF FlowInv, WaitingOK, Covered, Below
<1>4. LinesOf(Kept) \subseteq 1..out
  BY <1>2, <1>3 DEF LinesOf
<1> QED
  BY <1>1, <1>4

LEMMA AnsweredSeen ==
  ASSUME FlowInv, NEW i \in Slots, Answers(i), requests[i].live, requests[i].kind = "events"
  PROVE  LinesOf(batch) \subseteq Seen
<1>1. LinesOf(batch) \subseteq LinesOf(Kept)
  BY KeptType, LinesJoined DEF FlowInv, Kept
<1>2. CASE over
  BY <1>1, <1>2, EndingSeen DEF Ending
<1>3. CASE requests[i].stage = "settled"
  BY <1>3 DEF FlowInv, RequestsOK, SlotsOK
<1>4. CASE requests[i].stage = "read" /\ requests[i].rec # 0 /\ recorders[requests[i].rec].state = "null"
  BY <1>2, <1>4, RecOf DEF FlowInv, RecordersOK
<1>5. CASE Drained(i)
  <2> DEFINE r == recorders[requests[i].rec]
  <2>1. requests[i].stage = "wait" /\ requests[i].rec \in DOMAIN recorders
    BY <1>5, RecOf DEF Drained, FlowInv, RequestsOK, SlotsOK
  <2>2. /\ r.handled \in Nat /\ requests[i].until \in Nat /\ requests[i].until <= r.handled
        /\ DOMAIN r.pending \subseteq Nat \ {0}
    <3>1. r.handled \in Nat /\ r.pending \in Seq(Notes)
      BY <2>1, RecorderFacts DEF FlowInv
    <3>2. \A k \in DOMAIN r.pending : k \in Nat \ {0}
      BY <3>1, Elements
    <3> QED
      BY <1>5, <3>1, <3>2, RequestFacts DEF FlowInv, Drained
  <2>3. Awaited(requests[i].until, r, batch, log, failed)
    BY <2>1 DEF FlowInv, WaitOK
  <2>4. CASE r.closed
    BY <1>1, <2>1, <2>4, EndingSeen DEF Ending
  <2>5. CASE ~r.closed
    <3>1. ASSUME NEW n \in DOMAIN batch
          PROVE  batch[n].line \in failed \/ \E k \in DOMAIN log : log[k] = batch[n]
      <4> HIDE DEF r
      <4>1. ASSUME NEW k \in DOMAIN r.pending
            PROVE  ~(k + r.handled <= requests[i].until)
        <5>1. k \in Nat \ {0} /\ r.handled \in Nat /\ requests[i].until \in Nat
              /\ requests[i].until <= r.handled
          BY <2>2
        <5> QED
          BY <5>1
      <4> QED
        BY <2>3, <2>5, <4>1 DEF Awaited
    <3> QED
      BY <3>1 DEF LinesOf, Seen, Gone
  <2> QED
    BY <2>4, <2>5
<1> QED
  BY <1>2, <1>3, <1>4, <1>5 DEF Answers

LEMMA WaitingStep ==
  ASSUME FlowInv, [Next]_vars
  PROVE  WaitingOK'
<1>1. Types /\ RequestsOK /\ RecordersOK /\ Covered(Kept, out, Seen)
  BY DEF FlowInv, WaitingOK
<1>2. /\ queue \in Seq(Notes) /\ batch \in Seq(Notes) /\ Kept \in Seq(Notes) /\ out \in Nat
      /\ <<>> \in Seq(Notes)
  BY <1>1, KeptType, EmptySeq
<1>3. Seen \subseteq Seen'
  BY <1>1, Grows
<1>4. ASSUME UNCHANGED <<out, queue, batch>>
      PROVE  WaitingOK'
  BY <1>1, <1>3, <1>4, CoveredWider DEF WaitingOK, Kept
<1>5. ASSUME NEW q \in Seq(Notes), NEW m \in Nat, Covered(q, m, Seen), m = out',
             Kept' = SubSeq(q, Excess(q) + 1, Len(q)), log' = log, failed' = failed,
             trimmed' = trimmed \cup LinesOf(SubSeq(q, 1, Excess(q)))
      PROVE  WaitingOK'
  <2>1. Excess(q) \in 0..Len(q) /\ SubSeq(q, Excess(q) + 1, Len(q)) \in Seq(Notes)
    BY Trim
  <2>2. <<>> \o q = q /\ <<>> \o SubSeq(q, Excess(q) + 1, Len(q)) = SubSeq(q, Excess(q) + 1, Len(q))
    BY <2>1, ConcatEmptySeq
  <2>3. Covered(<<>> \o SubSeq(q, Excess(q) + 1, Len(q)), m, Seen \cup LinesOf(SubSeq(q, 1, Excess(q))))
    BY <1>2, <1>5, <2>1, <2>2, CoveredTrimmed
  <2>4. Seen' = Seen \cup LinesOf(SubSeq(q, 1, Excess(q)))
    BY <1>5 DEF Seen, Gone
  <2> QED
    BY <1>5, <2>2, <2>3, <2>4 DEF WaitingOK
<1>6. CASE PrintLine
  <2> DEFINE q == Append(queue, Line(out + 1))
  <2>1. /\ out' = out + 1 /\ queue' = SubSeq(q, Excess(q) + 1, Len(q)) /\ batch' = batch /\ log' = log
        /\ failed' = failed
        /\ trimmed' = trimmed \cup LinesOf(SubSeq(q, 1, Excess(q)))
        /\ Line(out + 1) \in Notes /\ Line(out + 1).line = out + 1
    BY <1>1, <1>6, Sizes DEF PrintLine, Enqueue, Drop, serverVars, Types, RunnerTypes, Notes, Line
  <2>2. Append(Kept, Line(out + 1)) = batch \o q
    <3>1. Append(Kept, Line(out + 1)) = Kept \o <<Line(out + 1)>>
      BY <1>2, <2>1, AppendIsConcat
    <3>2. q = queue \o <<Line(out + 1)>>
      BY <1>2, <2>1, AppendIsConcat
    <3>3. <<Line(out + 1)>> \in Seq(Notes)
      BY <2>1
    <3>4. (batch \o queue) \o <<Line(out + 1)>> = batch \o (queue \o <<Line(out + 1)>>)
      BY <1>2, <3>3, ConcatAssociative
    <3> QED
      BY <3>1, <3>2, <3>4 DEF Kept
  <2>3. Covered(Append(Kept, Line(out + 1)), out + 1, Seen)
    <3> DEFINE n == out + 1
    <3>1. n \in {0, out + 1} /\ n # 0
      BY <1>2
    <3>2. Covered(Append(Kept, Line(out + 1)), IF n = 0 THEN out ELSE n, Seen)
      BY <1>1, <1>2, <2>1, <3>1, CoveredNote
    <3> QED
      BY <3>1, <3>2
  <2>4. q \in Seq(Notes) /\ out + 1 \in Nat
    BY <1>2, <2>1, AppendProperties
  <2> HIDE DEF q
  <2>5. Excess(q) \in 0..Len(q)
    BY <2>4, Trim
  <2>6. Covered(batch \o SubSeq(q, Excess(q) + 1, Len(q)), out + 1, Seen \cup LinesOf(SubSeq(q, 1, Excess(q))))
    BY <1>2, <2>2, <2>3, <2>4, <2>5, CoveredTrimmed
  <2>7. Seen' = Seen \cup LinesOf(SubSeq(q, 1, Excess(q)))
    BY <2>1 DEF Seen, Gone
  <2> QED
    BY <2>1, <2>6, <2>7 DEF WaitingOK, Kept
<1>7. CASE Flushes
  <2>1. batch = <<>> /\ UNCHANGED <<out, log, failed>>
    BY <1>1, <1>7 DEF Flushes, RequestsOK, LiveOK, serverVars
  <2>2. Kept = queue
    BY <1>2, <2>1, ConcatEmptySeq DEF Kept
  <2>3. Covered(Announced, out, Seen) /\ Announced \in Seq(Notes)
    <3>1. CASE dropped > 0
      <4>1. Announced = Append(queue, Marker(dropped, drops)) /\ Marker(dropped, drops) \in Notes
              /\ Marker(dropped, drops).line = 0
        BY <1>1, <3>1 DEF Announced, Types, RunnerTypes, Notes, Marker
      <4>2. Covered(Append(queue, Marker(dropped, drops)), IF 0 = 0 THEN out ELSE 0, Seen)
        BY <1>1, <1>2, <2>2, <4>1, CoveredNote
      <4> QED
        BY <1>1, <4>1, <4>2, AnnouncedType
    <3>2. CASE ~(dropped > 0)
      BY <1>1, <1>2, <2>2, <3>2 DEF Announced
    <3> QED
      BY <3>1, <3>2
  <2>4. PICK i \in Slots : Flushed(i)
    BY <1>7 DEF Flushes
  <2> QED
    BY <1>2, <1>5, <2>1, <2>3, <2>4 DEF Flushed
<1>8. CASE Loses
  <2>1. Lost
    BY <1>1, <1>8, LosesEffect
  <2>2. CASE Requeued
    BY <1>1, <1>2, <1>5, <2>1, <2>2 DEF Lost, Requeued
  <2>3. CASE NotRequeued
    BY <1>4, <2>1, <2>3 DEF Lost, NotRequeued
  <2> QED
    BY <2>1, <2>2, <2>3 DEF Lost
<1>9. ASSUME NEW i \in Slots, Answers(i)
      PROVE  WaitingOK'
  <2>1. \/ Ignored(i)
        \/ NextLines /\ requests[i].live /\ requests[i].kind = "events"
        \/ ResultTaken(i)
    BY <1>1, <1>9, AnswerEffect DEF Answers, NextBatch, NextResult, NextNothing
  <2>2. CASE Ignored(i) \/ ResultTaken(i)
    BY <1>4, <2>2 DEF Ignored, ResultTaken, runnerVars
  <2>3. CASE NextLines /\ requests[i].live /\ requests[i].kind = "events"
    <3>1. Covered(queue, out, Seen)
      BY <1>1, <1>2, <1>9, <2>3, AnsweredSeen, CoveredSent DEF Kept
    <3>2. Kept' = queue /\ out' = out
      BY <2>3 DEF NextLines
    <3> QED
      BY <1>3, <3>1, <3>2, CoveredWider DEF WaitingOK
  <2> QED
    BY <2>1, <2>2, <2>3
<1>10. ASSUME NEW i \in Slots, Accepts(i) \/ Open(i) \/ Takes(i) \/ Detaches(i) \/ FinishRows(i)
       PROVE  WaitingOK'
  BY <1>1, <1>4, <1>10, ProgressEffect DEF Progress, runnerVars
<1>11. ASSUME NEW r \in DOMAIN recorders, Records(r)
       PROVE  WaitingOK'
  <2>1. UNCHANGED runnerVars
    BY <1>11, Zenon DEF Records, Resume, ResumeFails, HandleLine, HandleFails
  <2> QED
    BY <1>4, <2>1 DEF runnerVars
<1>12. CASE Idles
  BY <1>4, <1>12 DEF Idles
<1> QED
  BY <1>1, <1>6, <1>7, <1>8, <1>9, <1>10, <1>11, <1>12, StepKinds

(* The lines of a request, and how the recorders' chains grow and shrink.  *)
LEMMA LinesOfRequests ==
  ASSUME Types, RequestsOK, RecordersOK, [Next]_vars, NEW k \in Slots
  PROVE  requests'[k].lines \in {requests[k].lines, <<>>, batch'}
<1>1. requests \in [Slots -> Requests] /\ Free.lines = <<>>
  BY Sizes DEF Types
<1>2. CASE requests' = requests
  BY <1>2
<1>3. CASE Flushes
  <2>1. PICK i \in Slots : requests' = [requests EXCEPT ![i] = NewRequest("events", batch')]
    BY <1>3 DEF Flushes, Flushed
  <2> QED
    BY <1>1, <2>1 DEF NewRequest
<1>4. CASE Loses
  <2>1. requests'[k] = Free \/ requests'[k] = [requests[k] EXCEPT !.live = FALSE]
    BY <1>4, LosesEffect DEF Lost, Dropped
  <2> QED
    BY <1>1, <2>1 DEF Requests
<1>5. ASSUME NEW i \in Slots, Answers(i)
      PROVE  requests'[k].lines \in {requests[k].lines, <<>>, batch'}
  <2>1. \/ requests' = [requests EXCEPT ![i] = Free]
        \/ requests' = [requests EXCEPT ![i] = NewRequest("events", batch')]
        \/ requests' = [requests EXCEPT ![i] = NewRequest("complete", <<>>)]
    BY <1>5, AnswerEffect DEF Answers, Ignored, NextBatch, NextResult, NextNothing, ResultTaken
  <2> QED
    BY <1>1, <2>1 DEF NewRequest
<1>6. ASSUME NEW i \in Slots, Accepts(i) \/ Open(i) \/ Takes(i) \/ Detaches(i) \/ FinishRows(i)
      PROVE  requests'[k].lines = requests[k].lines
  BY <1>6, ProgressEffect DEF Progress
<1>7. ASSUME NEW r \in DOMAIN recorders, Records(r)
      PROVE  requests' = requests
  BY <1>7, Zenon DEF Records, Resume, ResumeFails, HandleLine, HandleFails
<1> QED
  BY <1>2, <1>3, <1>4, <1>5, <1>6, <1>7, StepKinds DEF Idles, PrintLine

(* What a step does to the chains of the recorders.                        *)
Taking(i, r) ==
  /\ Takes(i) /\ r = requests[i].rec
  /\ DOMAIN recorders' = DOMAIN recorders
  /\ recorders'[r].pending = recorders[r].pending \o requests[i].lines
  /\ recorders'[r].handled = recorders[r].handled /\ recorders'[r].closed = recorders[r].closed
  /\ \A k \in DOMAIN recorders : k # r => recorders'[k] = recorders[k]

Handling(r, item) ==
  /\ DOMAIN recorders' = DOMAIN recorders
  /\ recorders[r].pending # <<>> /\ item = Head(recorders[r].pending)
  /\ recorders'[r].pending = Tail(recorders[r].pending)
  /\ recorders'[r].handled = recorders[r].handled + 1 /\ recorders'[r].closed = recorders[r].closed
  /\ \A k \in DOMAIN recorders : k # r => recorders'[k] = recorders[k]
  /\ Logged(r, item) /\ failed \subseteq failed'
  /\ item.line = 0 => failed' = failed
  /\ UNCHANGED <<runnerVars, requests, over>>

Waiting ==
  /\ \A r \in DOMAIN recorders' :
       \/ /\ r \in DOMAIN recorders /\ recorders'[r].pending = recorders[r].pending
          /\ recorders'[r].handled = recorders[r].handled
          /\ recorders[r].closed => recorders'[r].closed
          /\ recorders'[r].closed =>
               recorders[r].closed \/ \E i \in Slots : requests[i].kind = "complete"
       \/ r \notin DOMAIN recorders /\ recorders'[r].pending = <<>> /\ ~recorders'[r].closed
  /\ UNCHANGED <<log, failed>>
  /\ \/ DOMAIN recorders \subseteq DOMAIN recorders'
     \/ \A i \in Slots : requests'[i] = Free

LEMMA TakesEffect ==
  ASSUME Types, NEW i \in Slots, Takes(i)
  PROVE  requests[i].rec \in DOMAIN recorders /\ Taking(i, requests[i].rec)
<1> DEFINE r == requests[i].rec
           new == [recorders[r] EXCEPT !.pending = recorders[r].pending \o requests[i].lines]
<1>1. r \in DOMAIN recorders /\ Changed(r, new)
  BY DEF Takes, Changed
<1>2. /\ new.pending = recorders[r].pending \o requests[i].lines
      /\ new.handled = recorders[r].handled /\ new.closed = recorders[r].closed
  BY <1>1, RecorderFacts DEF Recorders
<1> HIDE DEF new
<1>3. /\ DOMAIN recorders' = DOMAIN recorders /\ recorders'[r] = new
      /\ \A k \in DOMAIN recorders : k # r => recorders'[k] = recorders[k]
  BY <1>1, ChangedFacts
<1> QED
  BY <1>1, <1>2, <1>3 DEF Taking

LEMMA Chains ==
  ASSUME Types, RequestsOK, RecordersOK, [Next]_vars
  PROVE  \/ Waiting
         \/ \E i \in Slots : \E r \in DOMAIN recorders : Taking(i, r)
         \/ \E r \in DOMAIN recorders, item \in Notes : Handling(r, item)
<1>0. ASSUME Keeps, UNCHANGED <<log, failed>> PROVE Waiting
  BY <1>0, KeepsFacts DEF Waiting, Keeps
<1>1. ASSUME UNCHANGED <<recorders, log, failed>> PROVE Waiting
  BY <1>1 DEF Waiting
<1>2. CASE Idles \/ PrintLine \/ Flushes
  BY <1>1, <1>2 DEF Idles, PrintLine, Flushes, serverVars
<1>3. CASE Loses
  <2>1. Lost
    BY <1>3, LosesEffect
  <2>2. CASE recorders' = <<>> /\ \A i \in Slots : requests'[i] = Free
    BY <2>1, <2>2 DEF Lost, Waiting
  <2>3. CASE Keeps
    BY <1>0, <2>1, <2>3 DEF Lost
  <2> QED
    BY <2>1, <2>2, <2>3 DEF Lost
<1>4. ASSUME NEW i \in Slots, Answers(i) \/ Accepts(i) \/ Detaches(i)
      PROVE  Waiting
  <2>1. CASE Answers(i)
    BY <1>0, <2>1 DEF Answers
  <2>2. CASE Accepts(i) \/ Detaches(i)
    BY <1>1, <2>2 DEF Accepts, Detaches, serverVars
  <2> QED
    BY <1>4, <2>1, <2>2
<1>5. ASSUME NEW i \in Slots, Open(i)
      PROVE  Waiting
  <2>1. CASE current # 0
    BY <1>1, <1>5, <2>1 DEF Open
  <2>2. CASE current = 0
    <3>1. recorders' = Append(recorders, NewRecorder("loading"))
            /\ UNCHANGED <<log, failed>>
      BY <1>5, <2>2 DEF Open
    <3>2. /\ NewRecorder("loading") \in Recorders
          /\ NewRecorder("loading").pending = <<>> /\ ~NewRecorder("loading").closed
      BY NewRecorderType
    <3>3. /\ DOMAIN recorders' = 1..(Len(recorders) + 1) /\ Len(recorders) \in Nat
          /\ DOMAIN recorders = 1..Len(recorders)
          /\ \A k \in DOMAIN recorders : recorders'[k] = recorders[k]
          /\ recorders'[Len(recorders) + 1] = NewRecorder("loading")
      BY <3>1, <3>2, Appended DEF Types, ServerTypes
    <3>4. /\ \A k \in DOMAIN recorders' : k \in DOMAIN recorders \/ k = Len(recorders) + 1
          /\ Len(recorders) + 1 \notin DOMAIN recorders
      BY <3>3
    <3>5. DOMAIN recorders \subseteq DOMAIN recorders'
      BY <3>3
    <3> QED
      BY <3>1, <3>2, <3>3, <3>4, <3>5 DEF Waiting
  <2> QED
    BY <2>1, <2>2
<1>6. ASSUME NEW i \in Slots, Takes(i)
      PROVE  \E r \in DOMAIN recorders : Taking(i, r)
  BY <1>6, TakesEffect
<1>7. ASSUME NEW i \in Slots, FinishRows(i)
      PROVE  Waiting
  <2>1. PICK jobs : Finishing(i, jobs)
    BY <1>7, TypesFinishRows
  <2>2. UNCHANGED <<log, failed>>
    BY <1>7 DEF FinishRows
  <2> QED
    BY <1>0, <2>1, <2>2, FinishingKeeps
<1>8. ASSUME NEW r \in DOMAIN recorders, Resume(r) \/ ResumeFails(r)
      PROVE  Waiting
  <2>1. PICK new : /\ Changed(r, new) /\ new.closed = recorders[r].closed
                   /\ new.pending = recorders[r].pending /\ new.handled = recorders[r].handled
    BY <1>8, ResumeChanges, ResumeFailsChanges
  <2>2. /\ DOMAIN recorders' = DOMAIN recorders /\ recorders'[r] = new
        /\ \A k \in DOMAIN recorders : k # r => recorders'[k] = recorders[k]
    BY <2>1, ChangedFacts
  <2>3. UNCHANGED <<log, failed>>
    BY <1>8, Zenon DEF Resume, ResumeFails
  <2> QED
    BY <2>1, <2>2, <2>3 DEF Waiting
<1>9. ASSUME NEW r \in DOMAIN recorders, HandleLine(r) \/ HandleFails(r)
      PROVE  \E item \in Notes : Handling(r, item)
  <2>1. PICK item, known, jobs : Handles(r, item, known, jobs)
    BY <1>9, HandleLineEffect
  <2>2. PICK new : /\ Changed(r, new) /\ new.closed = recorders[r].closed
                   /\ new.pending = Tail(recorders[r].pending) /\ new.handled = recorders[r].handled + 1
    BY <2>1, HandlesChanges
  <2>3. /\ DOMAIN recorders' = DOMAIN recorders /\ recorders'[r] = new
        /\ \A k \in DOMAIN recorders : k # r => recorders'[k] = recorders[k]
    BY <2>2, ChangedFacts
  <2>4. /\ item \in Notes /\ recorders[r].pending # <<>> /\ item = Head(recorders[r].pending)
        /\ Logged(r, item) /\ UNCHANGED <<runnerVars, requests, over>>
    BY <2>1, Zenon DEF Handles
  <2>5. failed \subseteq failed' /\ (item.line = 0 => failed' = failed)
    <3>1. 0 \notin 1..Len(Script)
      BY Sizes
    <3> QED
      BY <2>1, <3>1 DEF Handles
  <2> QED
    BY <2>2, <2>3, <2>4, <2>5 DEF Handling
<1>10. ASSUME NEW r \in DOMAIN recorders, Records(r)
       PROVE  Waiting \/ \E item \in Notes : Handling(r, item)
  BY <1>8, <1>9, <1>10, Zenon DEF Records
<1> QED
  BY <1>2, <1>3, <1>4, <1>5, <1>6, <1>7, <1>10, StepKinds

LEMMA OrderStep ==
  ASSUME FlowInv, [Next]_vars
  PROVE  OrderOK' /\ LogOK'
<1>1. Types /\ RequestsOK /\ RecordersOK /\ OrderOK /\ Orderly(log, out, Gone)
  BY DEF FlowInv, LogOK
<1>2. /\ Seen \subseteq Seen' /\ Gone \subseteq Gone' /\ out \in Nat /\ out' \in Nat /\ out <= out'
      /\ log \in Seq(Notes)
  BY <1>1, Grows, KeptType
<1>3. ASSUME NEW q \in Seq(Notes), Orderly(q, out, Seen)
      PROVE  Orderly(q, out', Seen')
  BY <1>2, <1>3, OrderlyWider
<1>4. Orderly(batch', out', Seen')
  <2>1. Types' /\ Covered(Kept', out', Seen')
    BY <1>1, TypesStep, WaitingStep DEF WaitingOK
  <2>2. batch' \in Seq(Notes) /\ queue' \in Seq(Notes)
    BY <2>1 DEF Types, RunnerTypes
  <2> QED
    BY <1>2, <2>1, <2>2, OrderlyBatch DEF Kept
<1>5. ASSUME NEW k \in Slots
      PROVE  Orderly(requests'[k].lines, out', Seen')
  <2>1. Orderly(requests[k].lines, out', Seen')
    BY <1>1, <1>3, RequestFacts DEF OrderOK
  <2> QED
    BY <1>1, <1>4, <2>1, LinesOfRequests, OrderlyEmpty
<1>6. \A r \in DOMAIN recorders : recorders[r].pending \in Seq(Notes)
        /\ Orderly(recorders[r].pending, out, Seen)
  BY <1>1, RecorderFacts DEF OrderOK
<1>7. ASSUME log' = log PROVE LogOK'
  BY <1>1, <1>2, <1>7, OrderlyWider DEF LogOK
<1>8. CASE Waiting
  <2>1. ASSUME NEW r \in DOMAIN recorders'
        PROVE  Orderly(recorders'[r].pending, out', Seen')
    BY <1>3, <1>6, <1>8, OrderlyEmpty DEF Waiting
  <2> QED
    BY <1>5, <1>7, <1>8, <2>1 DEF OrderOK, Waiting
<1>9. ASSUME NEW i \in Slots, NEW s \in DOMAIN recorders, Taking(i, s)
      PROVE  OrderOK' /\ LogOK'
  <2>1. requests[i].lines \in Seq(Notes) /\ Orderly(requests[i].lines, out, Seen)
    BY <1>1, RequestFacts DEF OrderOK
  <2>2. recorders[s].pending \o requests[i].lines \in Seq(Notes)
        /\ Orderly(recorders[s].pending \o requests[i].lines, out, Seen)
    BY <1>2, <1>6, <2>1, OrderlyJoined, ConcatProperties
  <2>3. ASSUME NEW r \in DOMAIN recorders'
        PROVE  Orderly(recorders'[r].pending, out', Seen')
    BY <1>3, <1>6, <1>9, <2>2 DEF Taking
  <2>4. log' = log
    BY <1>9 DEF Taking, Takes
  <2> QED
    BY <1>5, <1>7, <2>3, <2>4 DEF OrderOK
<1>10. ASSUME NEW s \in DOMAIN recorders, NEW item \in Notes, Handling(s, item)
       PROVE  OrderOK' /\ LogOK'
  <2> DEFINE q == recorders[s].pending
  <2>1. /\ q \in Seq(Notes) /\ q # <<>> /\ item = Head(q) /\ Orderly(q, out, Seen)
        /\ UNCHANGED <<out, trimmed>>
    BY <1>6, <1>10 DEF Handling, runnerVars, lost
  <2>2. Tail(q) \in Seq(Notes)
    BY <2>1, Rest
  <2>3. Orderly(Tail(q), out', Seen') /\ LogOK'
    <3>1. CASE log' = log /\ recorders[s].closed
      <4>1. 1..out \subseteq Seen
        BY <3>1, EndingSeen DEF Ending
      <4>2. Below(Tail(q), out)
        BY <2>1, Rest DEF Orderly, Below
      <4>3. Orderly(Tail(q), out, Seen)
        BY <1>2, <2>2, <4>1, <4>2, OrderlyAllSeen
      <4> QED
        BY <1>3, <1>7, <2>2, <3>1, <4>3
    <3>2. CASE log' = log /\ item.line \in failed'
      <4>1. Orderly(Tail(q), out, Seen \cup {item.line})
        <5> HIDE DEF q
        <5> QED
          BY <1>2, <2>1, OrderlyTail
      <4>2. Seen \cup {item.line} \subseteq Seen'
        BY <1>2, <3>2 DEF Seen, Gone
      <4> QED
        BY <1>2, <1>7, <2>2, <3>2, <4>1, <4>2, OrderlyWider
    <3>3. CASE log' = Append(log, item)
      <4>1. Orderly(log, out, Gone') /\ Orderly(q, out, Gone' \cup LinesOf(log))
        <5>1. Seen \subseteq Gone' \cup LinesOf(log)
          BY <1>2 DEF Seen
        <5> QED
          BY <1>1, <1>2, <2>1, <5>1, OrderlyWider
      <4>2. Orderly(Append(log, Head(q)), out, Gone')
            /\ Orderly(Tail(q), out, Gone' \cup LinesOf(Append(log, Head(q))))
        BY <1>1, <1>2, <2>1, <4>1, OrderlyLogged
      <4> QED
        BY <2>1, <3>3, <4>2 DEF LogOK, Seen
    <3> QED
      BY <1>10, <3>1, <3>2, <3>3 DEF Handling, Logged
  <2>4. ASSUME NEW r \in DOMAIN recorders'
        PROVE  Orderly(recorders'[r].pending, out', Seen')
    BY <1>3, <1>6, <1>10, <2>3 DEF Handling
  <2> QED
    BY <1>5, <2>3, <2>4 DEF OrderOK
<1> QED
  BY <1>1, <1>8, <1>9, <1>10, Chains

(* What is awaited stays awaited until it is handled.                      *)
LEMMA AwaitedLonger ==
  ASSUME NEW until, NEW r, NEW s, NEW b, NEW l, NEW F, NEW q \in Seq(Notes), Awaited(until, r, b, l, F),
         r.pending \in Seq(Notes), r.handled \in Nat, until \in Nat,
         s.pending = r.pending \o q, s.handled = r.handled, r.closed => s.closed
  PROVE  Awaited(until, s, b, l, F)
<1>1. /\ Len(s.pending) = Len(r.pending) + Len(q) /\ Len(r.pending) \in Nat /\ Len(q) \in Nat
      /\ \A k \in DOMAIN r.pending : k \in DOMAIN s.pending /\ s.pending[k] = r.pending[k]
  BY Concat
<1>2. until <= s.handled + Len(s.pending)
  BY <1>1 DEF Awaited
<1> QED
  BY <1>1, <1>2 DEF Awaited

LEMMA AwaitedHandled ==
  ASSUME NEW until, NEW r, NEW s, NEW b, NEW l \in Seq(Notes), NEW m, NEW F, NEW G,
         Awaited(until, r, b, l, F), F \subseteq G,
         r.pending \in Seq(Notes), r.pending # <<>>, r.handled \in Nat, until \in Nat,
         s.pending = Tail(r.pending), s.handled = r.handled + 1, s.closed = r.closed,
         \/ m = Append(l, Head(r.pending))
         \/ m = l /\ (r.closed \/ Head(r.pending).line \in G)
  PROVE  Awaited(until, s, b, m, G)
<1> DEFINE p == r.pending
           t == s.pending
<1>1. /\ Head(p) = p[1] /\ Head(p) \in Notes /\ Len(t) = Len(p) - 1 /\ DOMAIN t = 1..(Len(p) - 1)
      /\ Len(p) \in Nat \ {0} /\ DOMAIN p = 1..Len(p)
      /\ \A k \in DOMAIN t : k + 1 \in DOMAIN p /\ t[k] = p[k + 1]
  BY Rest
<1>2. until <= s.handled + Len(t)
  BY <1>1 DEF Awaited
<1>3. /\ DOMAIN Append(l, Head(p)) = 1..(Len(l) + 1) /\ Len(l) \in Nat /\ DOMAIN l = 1..Len(l)
      /\ \A k \in DOMAIN l : Append(l, Head(p))[k] = l[k]
      /\ Append(l, Head(p))[Len(l) + 1] = Head(p)
  BY <1>1, Appended
<1> HIDE DEF p, t
<1>4. /\ ~r.closed => \/ Len(l) + 1 \in DOMAIN m /\ m[Len(l) + 1] = Head(p)
                      \/ Head(p).line \in G
      /\ \A k \in DOMAIN l : k \in DOMAIN m /\ m[k] = l[k]
  BY <1>3 DEF p
<1>5. ASSUME NEW n \in DOMAIN b
      PROVE  \/ s.closed \/ b[n].line \in G \/ \E k \in DOMAIN m : m[k] = b[n]
             \/ \E k \in DOMAIN t : k + s.handled <= until /\ t[k] = b[n]
  <2>1. CASE r.closed
    BY <2>1
  <2>2. CASE \E k \in DOMAIN l : l[k] = b[n]
    BY <1>4, <2>2
  <2>3. ASSUME ~r.closed, NEW k \in DOMAIN p, k + r.handled <= until, p[k] = b[n]
        PROVE  \/ b[n].line \in G \/ \E h \in DOMAIN m : m[h] = b[n]
               \/ \E h \in DOMAIN t : h + s.handled <= until /\ t[h] = b[n]
    <3>1. CASE k = 1
      BY <1>1, <1>4, <2>3, <3>1
    <3>2. CASE k # 1
      <4>1. PICK h : h = k - 1
        OBVIOUS
      <4>2. h \in DOMAIN t /\ h + 1 = k
        BY <1>1, <2>3, <3>2, <4>1
      <4>3. h + s.handled <= until
        BY <1>1, <2>3, <4>1
      <4>4. t[h] = b[n]
        BY <1>1, <2>3, <4>2
      <4> QED
        BY <4>2, <4>3, <4>4
    <3> QED
      BY <3>1, <3>2
  <2>4. \/ r.closed \/ b[n].line \in F \/ \E k \in DOMAIN l : l[k] = b[n]
        \/ \E k \in DOMAIN p : k + r.handled <= until /\ p[k] = b[n]
    BY DEF Awaited, p
  <2> QED
    BY <2>1, <2>2, <2>3, <2>4
<1> QED
  BY <1>2, <1>5 DEF Awaited, t

LEMMA AwaitedFirst ==
  ASSUME NEW r, NEW s, NEW q \in Seq(Notes), NEW l, NEW F, r.pending \in Seq(Notes), r.handled \in Nat,
         s.pending = r.pending \o q, s.handled = r.handled
  PROVE  Awaited(r.handled + Len(r.pending \o q), s, q, l, F)
<1>1. /\ Len(s.pending) = Len(r.pending) + Len(q) /\ Len(r.pending) \in Nat /\ Len(q) \in Nat
      /\ \A k \in DOMAIN q : k + Len(r.pending) \in DOMAIN s.pending
           /\ s.pending[k + Len(r.pending)] = q[k]
      /\ DOMAIN q = 1..Len(q)
  <2> DEFINE p == r.pending
  <2>1. p \in Seq(Notes) /\ s.pending = p \o q
    OBVIOUS
  <2> HIDE DEF p
  <2>2. /\ Len(p \o q) = Len(p) + Len(q) /\ Len(p) \in Nat /\ Len(q) \in Nat /\ DOMAIN q = 1..Len(q)
        /\ \A k \in DOMAIN q : k + Len(p) \in DOMAIN (p \o q) /\ (p \o q)[k + Len(p)] = q[k]
    BY <2>1, Concat
  <2> QED
    BY <2>1, <2>2 DEF p
<1>2. ASSUME NEW n \in DOMAIN q
      PROVE  \E k \in DOMAIN s.pending : k + s.handled <= r.handled + Len(r.pending \o q)
        /\ s.pending[k] = q[n]
  <2>1. n + Len(r.pending) + s.handled <= r.handled + Len(s.pending)
    BY <1>1
  <2> QED
    BY <1>1, <2>1
<1>3. r.handled + Len(r.pending \o q) <= s.handled + Len(s.pending)
  <2>1. Len(s.pending) \in Nat /\ Len(s.pending) = Len(r.pending \o q)
    BY <1>1
  <2> QED
    BY <2>1
<1> QED
  BY <1>2, <1>3 DEF Awaited

(* A request that waits for its lines has just been taken or waited before. *)
LEMMA StillWaits ==
  ASSUME Types, RequestsOK, RecordersOK, [Next]_vars, NEW i \in Slots,
         requests'[i].kind = "events", requests'[i].stage = "wait", requests'[i].live
  PROVE  \/ Takes(i)
         \/ /\ requests[i].kind = "events" /\ requests[i].stage = "wait" /\ requests[i].live
            /\ requests'[i].rec = requests[i].rec /\ requests'[i].until = requests[i].until
            /\ batch' = batch
<1> DEFINE Before == /\ requests[i].kind = "events" /\ requests[i].stage = "wait" /\ requests[i].live
                     /\ requests'[i].rec = requests[i].rec /\ requests'[i].until = requests[i].until
                     /\ batch' = batch
<1>1. requests \in [Slots -> Requests]
  BY DEF Types
<1>2. ASSUME requests'[i] = requests[i], batch' = batch
      PROVE  Before
  BY <1>2
<1>3. CASE Idles \/ PrintLine
  BY <1>2, <1>3 DEF Idles, PrintLine
<1>4. CASE Flushes
  <2>1. PICK k \in Slots : ~sending /\ requests' = [requests EXCEPT ![k] = NewRequest("events", batch')]
    BY <1>4 DEF Flushes, Flushed
  <2>2. k # i
    BY <1>1, <2>1 DEF NewRequest
  <2>3. Live(i) /\ requests[i].kind = "events"
    BY <1>1, <2>1, <2>2 DEF Live
  <2> QED
    BY <2>1, <2>3 DEF RequestsOK, LiveOK
<1>5. CASE Loses
  BY <1>5, LosesEffect DEF Lost
<1>6. ASSUME NEW k \in Slots, Answers(k)
      PROVE  Before
  <2>1. \/ Ignored(k)
        \/ Live(k) /\ requests' = [requests EXCEPT ![k] = NewRequest("events", batch')]
        \/ Live(k) /\ requests' = [requests EXCEPT ![k] = NewRequest("complete", <<>>)]
        \/ Live(k) /\ requests' = [requests EXCEPT ![k] = Free]
    BY <1>6, AnswerEffect DEF Answers, NextBatch, NextResult, NextNothing, ResultTaken, Live
  <2>2. k # i
    BY <1>1, <2>1, Sizes DEF NewRequest, Ignored
  <2>3. requests'[i] = requests[i]
    BY <1>1, <2>1, <2>2 DEF Ignored
  <2>4. Live(i)
    BY <2>3 DEF Live
  <2>5. ~Live(k)
    BY <2>2, <2>4 DEF RequestsOK, LiveOK
  <2> QED
    BY <1>2, <2>1, <2>3, <2>5 DEF Ignored, runnerVars
<1>7. ASSUME NEW k \in Slots, Accepts(k) \/ Open(k) \/ Detaches(k) \/ FinishRows(k) \/ Takes(k)
      PROVE  Before \/ Takes(i)
  <2>1. Progress(k) /\ batch' = batch
    BY <1>7, ProgressEffect DEF Progress, runnerVars
  <2>2. CASE k # i
    BY <1>2, <2>1, <2>2 DEF Progress
  <2>3. CASE k = i
    <3>1. requests[i].kind = "events" /\ requests[i].live
      BY <2>1, <2>3 DEF Progress
    <3>2. ~Accepts(i) /\ ~Open(i)
      BY <1>1 DEF Accepts, Open, Requests
    <3>3. ~Detaches(i) /\ ~FinishRows(i)
      BY <3>1 DEF Detaches, FinishRows
    <3> QED
      BY <1>7, <2>3, <3>2, <3>3
  <2> QED
    BY <2>2, <2>3
<1>8. ASSUME NEW r \in DOMAIN recorders, Records(r)
      PROVE  Before
  <2>1. UNCHANGED <<runnerVars, requests>>
    BY <1>8, Zenon DEF Records, Resume, ResumeFails, HandleLine, HandleFails
  <2> QED
    BY <1>2, <2>1 DEF runnerVars
<1> QED
  BY <1>3, <1>4, <1>5, <1>6, <1>7, <1>8, StepKinds

LEMMA WaitStep ==
  ASSUME FlowInv, [Next]_vars
  PROVE  WaitOK'
<1>1. Types /\ RequestsOK /\ RecordersOK /\ log \in Seq(Notes)
  BY KeptType DEF FlowInv
<1> SUFFICES ASSUME NEW i \in Slots, requests'[i].kind = "events", requests'[i].stage = "wait",
                    requests'[i].live
             PROVE  Awaited(requests'[i].until, recorders'[requests'[i].rec], batch', log', failed')
  BY DEF WaitOK
<1>2. CASE Takes(i)
  <2> DEFINE r == requests[i].rec
  <2>1. r \in DOMAIN recorders /\ Taking(i, r)
    BY <1>1, <1>2, TakesEffect
  <2>2. Live(i) /\ batch' = batch /\ requests[i].kind = "events"
    BY <1>1, <1>2, ProgressEffect DEF Progress, Live, runnerVars
  <2>3. requests[i].lines = batch
    BY <1>1, <2>2 DEF RequestsOK, LiveOK
  <2>4. requests'[i].rec = r
          /\ requests'[i].until = recorders[r].handled + Len(recorders[r].pending \o batch)
    BY <1>1, <1>2, <2>3 DEF Takes, Types, Requests
  <2>5. recorders[r].pending \in Seq(Notes) /\ recorders[r].handled \in Nat /\ batch \in Seq(Notes)
    BY <1>1, <2>1, RecorderFacts, KeptType
  <2>6. recorders'[r].pending = recorders[r].pending \o batch
          /\ recorders'[r].handled = recorders[r].handled
    BY <2>1, <2>3 DEF Taking
  <2> QED
    BY <2>2, <2>4, <2>5, <2>6, AwaitedFirst
<1>3. CASE /\ requests[i].kind = "events" /\ requests[i].stage = "wait" /\ requests[i].live
           /\ requests'[i].rec = requests[i].rec /\ requests'[i].until = requests[i].until
           /\ batch' = batch
  <2> DEFINE r == requests[i].rec
             u == requests[i].until
  <2>1. r \in DOMAIN recorders /\ u \in Nat
    BY <1>1, <1>3, RecOf, RequestFacts DEF RequestsOK, SlotsOK
  <2>2. recorders[r].pending \in Seq(Notes) /\ recorders[r].handled \in Nat
    BY <1>1, <2>1, RecorderFacts
  <2>3. Awaited(u, recorders[r], batch, log, failed)
    BY <1>3 DEF FlowInv, WaitOK
  <2> HIDE DEF r, u
  <2>4. CASE Waiting
    <3>1. r \in DOMAIN recorders'
      BY <2>1, <2>4, Sizes DEF Waiting
    <3>2. /\ recorders'[r].pending = recorders[r].pending /\ recorders'[r].handled = recorders[r].handled
          /\ recorders[r].closed => recorders'[r].closed
          /\ UNCHANGED <<log, failed>>
      BY <2>1, <2>4, <3>1 DEF Waiting
    <3>3. Awaited(u, recorders'[r], batch, log', failed')
      BY <2>3, <3>2 DEF Awaited
    <3> QED
      BY <1>3, <3>3 DEF r, u
  <2>5. ASSUME NEW k \in Slots, NEW s \in DOMAIN recorders, Taking(k, s)
        PROVE  Awaited(u, recorders'[r], batch, log', failed')
    <3>1. UNCHANGED <<log, failed>> /\ requests[k].lines \in Seq(Notes)
      <4>1. UNCHANGED <<log, failed>>
        BY <2>5, Zenon DEF Taking, Takes
      <4> QED
        BY <1>1, <4>1, RequestFacts
    <3>2. CASE s = r
      <4>1. /\ recorders'[r].pending = recorders[r].pending \o requests[k].lines
            /\ recorders'[r].handled = recorders[r].handled /\ recorders'[r].closed = recorders[r].closed
        BY <2>5, <3>2 DEF Taking
      <4> QED
        BY <2>1, <2>2, <2>3, <3>1, <4>1, AwaitedLonger
    <3>3. CASE s # r
      BY <2>1, <2>3, <2>5, <3>1, <3>3 DEF Taking
    <3> QED
      BY <3>2, <3>3
  <2>6. ASSUME NEW s \in DOMAIN recorders, NEW item \in Notes, Handling(s, item)
        PROVE  Awaited(u, recorders'[r], batch, log', failed')
    <3>1. CASE s = r
      <4>1. /\ recorders[r].pending # <<>> /\ recorders'[r].pending = Tail(recorders[r].pending)
            /\ recorders'[r].handled = recorders[r].handled + 1
            /\ recorders'[r].closed = recorders[r].closed
            /\ failed \subseteq failed'
            /\ \/ log' = Append(log, Head(recorders[r].pending))
               \/ log' = log /\ (recorders[r].closed \/ Head(recorders[r].pending).line \in failed')
        BY <2>6, <3>1 DEF Handling, Logged
      <4> QED
        BY <1>1, <2>1, <2>2, <2>3, <4>1, AwaitedHandled
    <3>2. CASE s # r
      <4>1. recorders'[r] = recorders[r]
        BY <2>1, <2>6, <3>2 DEF Handling
      <4>2. (log' = log \/ log' = Append(log, item)) /\ failed \subseteq failed'
        BY <2>6 DEF Handling, Logged
      <4>3. \A k \in DOMAIN log : k \in DOMAIN log' /\ log'[k] = log[k]
        <5>1. /\ DOMAIN Append(log, item) = 1..(Len(log) + 1) /\ Len(log) \in Nat
                   /\ DOMAIN log = 1..Len(log)
              /\ \A k \in DOMAIN log : Append(log, item)[k] = log[k]
          BY <1>1, Appended
        <5> QED
          BY <4>2, <5>1
      <4> QED
        BY <2>3, <4>1, <4>2, <4>3 DEF Awaited
    <3> QED
      BY <3>1, <3>2
  <2> QED
    BY <1>1, <1>3, <2>4, <2>5, <2>6, Chains DEF r, u
<1> QED
  BY <1>1, <1>2, <1>3, StillWaits

-----------------------------------------------------------------------------
(* The result is on its way only when everything has been seen.            *)
LEMMA NewlyEnding ==
  ASSUME Types, RequestsOK, RecordersOK, [Next]_vars, ~Ending, Ending'
  PROVE  \E i \in Slots : NextLines /\ NextResult(i)
<1>1. /\ ~over /\ \A i \in Slots : requests[i].kind # "complete"
      /\ \A r \in DOMAIN recorders : ~recorders[r].closed
  BY DEF Ending
<1>3. \A r \in DOMAIN recorders' : ~recorders'[r].closed
  BY <1>1, Chains DEF Waiting, Taking, Handling
<1>4. requests \in [Slots -> Requests]
  BY DEF Types
<1>5. ASSUME NEW k \in Slots, requests'[k] = requests[k] \/ requests'[k].kind # "complete"
      PROVE  requests'[k].kind # "complete"
  BY <1>1, <1>5
<1>6. CASE Idles \/ PrintLine
  BY <1>1, <1>3, <1>6 DEF Idles, PrintLine, serverVars, Ending
<1>7. CASE Flushes
  <2>1. PICK i \in Slots : over' = over
          /\ requests' = [requests EXCEPT ![i] = NewRequest("events", batch')]
    BY <1>7 DEF Flushes, Flushed, serverVars
  <2>2. \A k \in Slots : requests'[k].kind # "complete"
    BY <1>1, <1>4, <2>1 DEF NewRequest
  <2> QED
    BY <1>1, <1>3, <2>1, <2>2 DEF Ending
<1>8. CASE Loses
  <2>1. over' = over
        /\ \A k \in Slots : requests'[k] = Free \/ requests'[k] = [requests[k] EXCEPT !.live = FALSE]
    BY <1>8, LosesEffect DEF Lost, Dropped
  <2>2. ASSUME NEW k \in Slots
        PROVE  requests'[k].kind # "complete"
    <3>1. [requests[k] EXCEPT !.live = FALSE].kind = requests[k].kind /\ requests[k].kind # "complete"
      BY <1>1, <1>4 DEF Requests
    <3>2. Free.kind # "complete"
      BY Sizes
    <3> QED
      BY <2>1, <3>1, <3>2
  <2> QED
    BY <1>1, <1>3, <2>1, <2>2 DEF Ending
<1>9. ASSUME NEW i \in Slots, Answers(i)
      PROVE  NextLines /\ NextResult(i)
  <2>1. over' = over
    BY <1>1, <1>9 DEF Answers, Types, ServerTypes
  <2>2. \/ NextLines /\ NextResult(i)
        \/ requests' = [requests EXCEPT ![i] = Free]
        \/ requests' = [requests EXCEPT ![i] = NewRequest("events", batch')]
    BY <1>9, AnswerEffect DEF Answers, Ignored, NextBatch, NextNothing, ResultTaken
  <2>3. ASSUME requests' = [requests EXCEPT ![i] = Free]
          \/ requests' = [requests EXCEPT ![i] = NewRequest("events", batch')]
        PROVE  FALSE
    <3>1. \A k \in Slots : requests'[k].kind # "complete"
      BY <1>1, <1>4, <2>3, Sizes DEF NewRequest
    <3> QED
      BY <1>1, <1>3, <2>1, <3>1 DEF Ending
  <2> QED
    BY <2>2, <2>3
<1>10. ASSUME NEW i \in Slots, Accepts(i) \/ Open(i) \/ Takes(i) \/ Detaches(i) \/ FinishRows(i)
       PROVE  FALSE
  <2>1. Progress(i)
    BY <1>10, ProgressEffect
  <2>2. over' = over /\ \A k \in Slots : requests'[k].kind # "complete"
    BY <1>1, <2>1 DEF Progress
  <2> QED
    BY <1>1, <1>3, <2>2 DEF Ending
<1>11. ASSUME NEW r \in DOMAIN recorders, Records(r)
       PROVE  FALSE
  <2>1. UNCHANGED <<requests, over>>
    BY <1>11, Zenon DEF Records, Resume, ResumeFails, HandleLine, HandleFails
  <2> QED
    BY <1>1, <1>3, <2>1 DEF Ending
<1> QED
  BY <1>6, <1>7, <1>8, <1>9, <1>10, <1>11, StepKinds

LEMMA EndingStep ==
  ASSUME FlowInv, [Next]_vars
  PROVE  EndingOK'
<1>1. Types /\ RequestsOK /\ RecordersOK
  BY DEF FlowInv
<1>2. /\ Seen \subseteq Seen' /\ out \in Nat /\ out' \in Nat
      /\ phase # "running" => phase' # "running" /\ out' = out
  BY <1>1, Grows
<1>3. CASE Ending
  <2>1. AllSeen
    BY <1>3 DEF FlowInv, EndingOK
  <2> QED
    BY <1>2, <2>1 DEF EndingOK, AllSeen
<1>4. ASSUME ~Ending, Ending'
      PROVE  AllSeen'
  <2>1. PICK i \in Slots : NextLines /\ NextResult(i)
    BY <1>1, <1>4, NewlyEnding
  <2>2. phase' = "complete" /\ Kept' = <<>>
    BY <2>1 DEF NextLines, NextResult
  <2>3. Covered(Kept', out', Seen')
    BY WaitingStep DEF WaitingOK
  <2>4. 1..out' \subseteq Seen'
    BY <2>2, <2>3 DEF Covered, LinesOf
  <2> QED
    BY <2>2, <2>4 DEF AllSeen
<1> QED
  BY <1>3, <1>4 DEF EndingOK

(* The first part of the invariant.                                        *)
LEMMA FlowInvInit == Init => FlowInv
<1> SUFFICES ASSUME Init PROVE FlowInv
  OBVIOUS
<1>1. <<>> \in Seq(Notes) /\ <<>> \in Seq(Rows) /\ DOMAIN <<>> = {}
  BY EmptySeq
<1>2. /\ NewRecorder("ready") \in Recorders /\ NewRecorder("ready").state = "ready"
      /\ NewRecorder("ready").pending = <<>> /\ ~NewRecorder("ready").closed
  BY NewRecorderType
<1>3. /\ recorders \in Seq(Recorders) /\ Len(recorders) = 1 /\ DOMAIN recorders = {1}
      /\ recorders[1] = NewRecorder("ready")
  BY <1>2 DEF Init
<1>4. requests \in [Slots -> Requests] /\ \A i \in Slots : requests[i] = Free
  BY Sizes DEF Init
<1>5. Types
  <2>1. /\ out = 0 /\ queue = <<>> /\ batch = <<>> /\ dropped = 0 /\ late = FALSE /\ sending = FALSE
        /\ phase = "running" /\ trimmed = {} /\ drops = 0 /\ unheard = {} /\ failed = {}
        /\ over = FALSE /\ current = 1 /\ rows = <<>> /\ log = <<>> /\ faults = 0 /\ abandoned = FALSE
    BY DEF Init
  <2>2. 0 \in 0..Len(Script) /\ 0 \in 0..MaxFaults /\ 1 \in 0..1
    BY Sizes
  <2>3. RunnerTypes
    BY <1>1, <2>1, <2>2 DEF RunnerTypes
  <2>4. ServerTypes
    BY <1>1, <1>3, <2>1, <2>2 DEF ServerTypes
  <2> QED
    BY <1>4, <2>1, <2>2, <2>3, <2>4 DEF Types
<1>6. RequestsOK
  <2>1. SlotsOK
    BY <1>3, <1>4, Sizes DEF SlotsOK
  <2>2. LiveOK
    BY <1>4, Sizes DEF LiveOK, Live, Init
  <2>3. GivenOK
    <3>1. Given = {}
      BY <1>4 DEF Given
    <3> QED
      BY <3>1, FS_EmptySet DEF GivenOK, Init
  <2> QED
    BY <2>1, <2>2, <2>3 DEF RequestsOK
<1>7. RecordersOK
  BY <1>2, <1>3 DEF RecordersOK
<1>8. WaitingOK
  <2>1. Kept = <<>> /\ out = 0
    BY <1>1, ConcatEmptySeq DEF Init, Kept
  <2> QED
    BY <1>1, <2>1 DEF WaitingOK, Covered, Sorted, Below
<1>9. OrderOK /\ LogOK
  BY <1>2, <1>3, <1>4, OrderlyEmpty, Sizes DEF OrderOK, LogOK, Init
<1>10. WaitOK
  BY <1>4, Sizes DEF WaitOK
<1>11. EndingOK
  BY <1>2, <1>3, <1>4, Sizes DEF EndingOK, Ending, Init
<1> QED
  BY <1>5, <1>6, <1>7, <1>8, <1>9, <1>10, <1>11 DEF FlowInv

LEMMA FlowInvStep ==
  ASSUME FlowInv, [Next]_vars
  PROVE  FlowInv'
<1>1. Types /\ RequestsOK /\ RecordersOK
  BY DEF FlowInv
<1>2. Types' /\ RequestsOK' /\ RecordersOK'
  BY <1>1, TypesStep, RequestsStep, RecordersStep
<1> QED
  BY <1>2, WaitingStep, OrderStep, WaitStep, EndingStep DEF FlowInv

-----------------------------------------------------------------------------
(* As long as no request was given up, there is one at a time.             *)
LEMMA OnlyOne ==
  ASSUME Types, RequestsOK, Calm, NEW i \in Slots, requests[i] # Free
  PROVE  /\ Live(i) /\ ~over /\ phase # "over"
         /\ \A k \in Slots : k # i => requests[k] = Free
<1>1. \A k \in Slots : requests[k] # Free => Live(k)
  BY DEF RequestsOK, SlotsOK, Calm, Live
<1>2. \A k \in Slots : k # i => requests[k] = Free
  BY <1>1 DEF RequestsOK, LiveOK
<1>3. requests[i].kind \in {"events", "complete"}
  BY RequestFacts DEF RequestsOK, SlotsOK
<1>4. phase # "over"
  BY <1>1, <1>3 DEF RequestsOK, LiveOK
<1> QED
  BY <1>1, <1>2, <1>4 DEF Calm

LEMMA StagesKept ==
  ASSUME \A k \in Slots :
           \/ requests'[k] = requests[k]
           \/ requests[k].stage \notin {"wait", "settled"} /\ requests'[k].stage \notin {"wait", "settled"}
  PROVE  /\ \A r : Waits(r)' <=> Waits(r)
         /\ \A k \in Slots : Ends(k)' <=> Ends(k)
         /\ \A k \in Slots : Ends(k) => requests'[k] = requests[k]
<1>1. ASSUME NEW r PROVE Waits(r)' <=> Waits(r)
  BY DEF Waits
<1>2. ASSUME NEW k \in Slots
      PROVE  (Ends(k)' <=> Ends(k)) /\ (Ends(k) => requests'[k] = requests[k])
  BY DEF Ends
<1> QED
  BY <1>1, <1>2

(* Steps that leave the recorders alone, and no request drained.           *)
LEMMA CalmQuiet ==
  ASSUME Calm, UNCHANGED <<recorders, current, over>>, over => phase' = "over",
         \A k \in Slots :
           \/ requests'[k] = requests[k]
           \/ /\ requests[k].stage \notin {"wait", "settled"}
              /\ requests'[k].stage \notin {"wait", "settled"}
              /\ requests'[k] # Free => requests'[k].live
              /\ requests'[k].stage \in {"sent", "read"} => requests'[k].rec \in {0, current}
  PROVE  Calm'
<1>1. /\ \A r : Waits(r)' <=> Waits(r)
      /\ \A k \in Slots : Ends(k)' <=> Ends(k)
      /\ \A k \in Slots : Ends(k) => requests'[k] = requests[k]
  BY StagesKept
<1>2. \A i \in Slots : requests'[i] # Free => requests'[i].live
  BY DEF Calm
<1>3. \A i \in Slots : requests'[i].stage = "wait" =>
        LET r == recorders'[requests'[i].rec]
        IN  requests'[i].until = r.handled + Len(r.pending) /\ ~r.closed
  <2> SUFFICES ASSUME NEW i \in Slots, requests'[i].stage = "wait"
               PROVE  LET r == recorders'[requests'[i].rec]
                      IN  requests'[i].until = r.handled + Len(r.pending) /\ ~r.closed
    OBVIOUS
  <2>1. requests'[i] = requests[i] /\ recorders' = recorders
    OBVIOUS
  <2> QED
    BY <2>1 DEF Calm
<1>4. \A i \in Slots : /\ Ends(i)' => current' = 0
                       /\ requests'[i].stage \in {"sent", "read"} => requests'[i].rec \in {0, current'}
  BY <1>1 DEF Calm
<1>5. over' => phase' = "over"
  OBVIOUS
<1>6. ASSUME NEW r \in DOMAIN recorders'
      PROVE  /\ recorders'[r].pending # <<>> => Waits(r)'
             /\ recorders'[r].closed => r # current'
             /\ ~recorders'[r].closed =>
                  r = current' \/ over' \/ \E i \in Slots : Ends(i)' /\ requests'[i].rec = r
  <2>1. r \in DOMAIN recorders /\ recorders'[r] = recorders[r] /\ current' = current /\ over' = over
    OBVIOUS
  <2>2. /\ recorders[r].pending # <<>> => Waits(r)
        /\ recorders[r].closed => r # current
        /\ ~recorders[r].closed => r = current \/ over \/ \E i \in Slots : Ends(i) /\ requests[i].rec = r
    BY <2>1 DEF Calm
  <2> QED
    BY <1>1, <2>1, <2>2
<1> QED
  BY <1>2, <1>3, <1>4, <1>5, <1>6 DEF Calm

(* Nothing waits in a chain unless a request waits for it, and only the    *)
(* recorder of the map, or of the result, is not closed.                   *)
LEMMA CalmRecorders ==
  ASSUME Types, RequestsOK, Calm, NEW i \in Slots, requests[i] # Free, NEW r \in DOMAIN recorders
  PROVE  /\ requests[i].stage # "wait" \/ Drained(i) => recorders[r].pending = <<>>
         /\ recorders[r].closed => r # current
         /\ ~recorders[r].closed => r = current \/ (Ends(i) /\ requests[i].rec = r)
<1>1. ~over /\ \A k \in Slots : k # i => requests[k] = Free
  BY OnlyOne
<1>2. Free.stage = "free" /\ Free.kind = "none"
  BY Sizes
<1>3. ASSUME requests[i].stage # "wait" \/ Drained(i), recorders[r].pending # <<>>
      PROVE  FALSE
  <2>1. requests[i].stage = "wait" /\ requests[i].rec = r
    BY <1>1, <1>2, <1>3 DEF Calm, Waits
  <2>2. recorders[r].handled >= recorders[r].handled + Len(recorders[r].pending)
    BY <1>3, <2>1 DEF Calm, Drained
  <2>3. Len(recorders[r].pending) = 0
    BY <2>2, RecorderFacts
  <2> QED
    BY <1>3, <2>3, RecorderFacts, EmptySeq
<1>4. \A k \in Slots : Ends(k) => k = i
  BY <1>1, <1>2 DEF Ends
<1>5. /\ recorders[r].closed => r # current
      /\ ~recorders[r].closed => r = current \/ (Ends(i) /\ requests[i].rec = r)
  BY <1>1, <1>4 DEF Calm
<1> QED
  BY <1>3, <1>5

(* A step after which nobody waits for a chain.                            *)
LEMMA CalmRests ==
  ASSUME \A k \in Slots : /\ requests'[k].stage \notin {"wait", "settled"} /\ requests'[k].rec = 0
                          /\ requests'[k] # Free => requests'[k].live,
         over' => phase' = "over",
         \A r \in DOMAIN recorders' :
           /\ recorders'[r].pending = <<>>
           /\ recorders'[r].closed => r # current'
           /\ ~recorders'[r].closed => r = current' \/ over'
  PROVE  Calm'
<1>1. \A k \in Slots : ~Ends(k)'
  BY DEF Ends
<1> QED
  BY <1>1 DEF Calm

LEMMA CalmAnswers ==
  ASSUME Types, RequestsOK, RecordersOK, Calm, NEW i \in Slots, Answers(i)
  PROVE  Calm'
<1>1. /\ requests[i] # Free /\ Live(i) /\ requests[i].live /\ ~over
      /\ \A k \in Slots : k # i => requests[k] = Free
  BY OnlyOne DEF Answers, Live
<1>2. requests \in [Slots -> Requests] /\ recorders' = recorders
  BY <1>1 DEF Types, Answers
<1>3. \/ requests' = [requests EXCEPT ![i] = NewRequest("events", batch')]
      \/ requests' = [requests EXCEPT ![i] = NewRequest("complete", <<>>)]
      \/ requests' = [requests EXCEPT ![i] = Free]
  BY <1>1, AnswerEffect DEF Answers, Ignored, NextBatch, NextResult, NextNothing, ResultTaken
<1>4. \A k \in Slots : requests'[k].stage \notin {"wait", "settled"} /\ requests'[k].rec = 0
        /\ (requests'[k] # Free => requests'[k].live)
  BY <1>1, <1>2, <1>3, Sizes DEF NewRequest
<1>5. ASSUME NEW r \in DOMAIN recorders
      PROVE  recorders[r].pending = <<>>
  <2>1. requests[i].stage # "wait" \/ Drained(i)
    BY <1>1, RecOf DEF Answers
  <2> QED
    BY <1>1, <2>1, CalmRecorders
<1>6. over' => phase' = "over"
  <2> SUFFICES ASSUME over' PROVE phase' = "over"
    OBVIOUS
  <2>1. requests[i].kind = "complete"
    BY <1>1 DEF Answers
  <2> QED
    BY <1>1, <2>1, AnswerEffect DEF Answers, Ignored, NextBatch, NextResult, NextNothing, ResultTaken
<1>7. ~(requests[i].stage = "read" /\ requests[i].rec # 0 /\ recorders[requests[i].rec].state = "null")
  BY <1>1, RecOf DEF RecordersOK
<1>8. over' \/ (requests[i].kind = "events" /\ current' = current)
  BY <1>1, <1>7 DEF Answers
<1>9. ASSUME NEW r \in DOMAIN recorders
      PROVE  /\ recorders[r].closed => r # current'
             /\ ~recorders[r].closed => r = current' \/ over'
  <2>1. /\ recorders[r].closed => r # current
        /\ ~recorders[r].closed => r = current \/ (Ends(i) /\ requests[i].rec = r)
    BY <1>1, CalmRecorders
  <2>2. r # 0 /\ current' \in {0, current}
    BY RecorderFacts DEF Answers
  <2> QED
    BY <1>8, <2>1, <2>2 DEF Ends
<1> QED
  BY <1>2, <1>4, <1>5, <1>6, <1>9, CalmRests

LEMMA CalmRefuses ==
  ASSUME Types, RequestsOK, Calm, NEW i \in Slots, Refuses(i)
  PROVE  Calm'
<1> DEFINE r == requests[i].rec
<1>1. /\ requests[i] # Free /\ Live(i) /\ over' = over /\ current' = current
      /\ requests' = [requests EXCEPT ![i] = Free] /\ requests \in [Slots -> Requests]
  BY Sizes DEF Refuses, Refuse, Live, Types
<1>2. ~over /\ \A k \in Slots : k # i => requests[k] = Free
  BY <1>1, OnlyOne
<1>3. \A k \in Slots : requests'[k] = Free
  BY <1>1, <1>2
<1>4. \A k \in Slots : requests'[k].stage \notin {"wait", "settled"} /\ requests'[k].rec = 0
  BY <1>3, Sizes
<1>5. CASE requests[i].stage = "read" /\ recorders' = recorders
  <2>1. ASSUME NEW k \in DOMAIN recorders
        PROVE  /\ recorders[k].pending = <<>>
               /\ recorders[k].closed => k # current
               /\ ~recorders[k].closed => k = current
    BY <1>1, <1>5, CalmRecorders DEF Ends
  <2> QED
    BY <1>1, <1>2, <1>3, <1>4, <1>5, <2>1, CalmRests
<1>6. CASE requests[i].stage = "settled" /\ recorders' = recorders
  <2>1. recorders[r].closed
    BY <1>6 DEF RequestsOK, SlotsOK
  <2>2. ASSUME NEW k \in DOMAIN recorders
        PROVE  /\ recorders[k].pending = <<>>
               /\ recorders[k].closed => k # current
               /\ ~recorders[k].closed => k = current
    BY <1>1, <1>6, <2>1, CalmRecorders
  <2> QED
    BY <1>1, <1>2, <1>3, <1>4, <1>6, <2>2, CalmRests
<1>7. CASE FinishRowsFails(i)
  <2>1. PICK jobs : Finishing(i, jobs)
    BY <1>7, FinishingEffect
  <2> DEFINE new == [recorders[r] EXCEPT !.closed = TRUE, !.jobs = jobs]
  <2>2. /\ requests[i].kind = "complete" /\ Drained(i) /\ r \in DOMAIN recorders /\ Changed(r, new)
    BY <2>1, Zenon DEF Finishing, Changed
  <2>3. new.pending = recorders[r].pending /\ new.closed
    BY <2>2, RecorderFacts DEF Recorders
  <2> HIDE DEF new
  <2>4. current = 0
    BY <2>2 DEF Calm, Ends, Drained
  <2>5. ASSUME NEW k \in DOMAIN recorders'
        PROVE  /\ recorders'[k].pending = <<>>
               /\ recorders'[k].closed => k # current'
               /\ ~recorders'[k].closed => k = current' \/ over'
    <3>1. /\ k \in DOMAIN recorders /\ (k # r => recorders'[k] = recorders[k])
          /\ recorders'[r] = new
      BY <2>2, ChangedFacts
    <3>2. recorders[k].pending = <<>> /\ k # 0
      BY <1>1, <2>2, <3>1, CalmRecorders, RecorderFacts
    <3>3. ~recorders[k].closed => k = r
      BY <1>1, <2>4, <3>1, <3>2, CalmRecorders
    <3> QED
      BY <1>1, <2>3, <2>4, <3>1, <3>2, <3>3
  <2> QED
    BY <1>1, <1>2, <1>3, <1>4, <2>5, CalmRests
<1> QED
  BY <1>5, <1>6, <1>7 DEF Refuses

LEMMA CalmOpen ==
  ASSUME Types, RequestsOK, Calm, NEW i \in Slots, Open(i)
  PROVE  Calm'
<1>1. requests[i].stage = "read" /\ requests \in [Slots -> Requests] /\ requests[i] # Free
  BY Sizes DEF Open, Types
<1>2. ~over /\ requests[i].live /\ \A k \in Slots : k # i => requests[k] = Free
  BY <1>1, OnlyOne DEF Live
<1>3. over' = over
  BY DEF Open
<1> DEFINE n == IF current # 0 THEN current ELSE Len(recorders) + 1
<1>4. requests' = [requests EXCEPT ![i].rec = n]
  BY DEF Open
<1> HIDE DEF n
<1>5. /\ requests'[i].stage = "read" /\ requests'[i].live /\ requests'[i].rec = n
      /\ \A k \in Slots : k # i => requests'[k] = requests[k]
  <2>1. requests[i] \in Requests /\ requests'[i] = [requests[i] EXCEPT !.rec = n]
        /\ \A k \in Slots : k # i => requests'[k] = requests[k]
    BY <1>1, <1>4
  <2> QED
    BY <1>1, <1>2, <2>1 DEF Requests
<1>6. CASE current # 0
  <2>1. n = current /\ UNCHANGED <<recorders, current>>
    BY <1>6 DEF Open, n
  <2> QED
    BY <1>1, <1>2, <1>3, <1>5, <2>1, CalmQuiet
<1>7. CASE current = 0
  <2>1. /\ NewRecorder("loading") \in Recorders
        /\ NewRecorder("loading").pending = <<>> /\ ~NewRecorder("loading").closed
    BY NewRecorderType
  <2>2. /\ recorders' = Append(recorders, NewRecorder("loading")) /\ current' = Len(recorders) + 1
        /\ n = Len(recorders) + 1 /\ recorders \in Seq(Recorders)
    BY <1>7 DEF Open, n, Types, ServerTypes
  <2>3. /\ DOMAIN recorders' = 1..(Len(recorders) + 1) /\ DOMAIN recorders = 1..Len(recorders)
        /\ Len(recorders) \in Nat
        /\ \A k \in DOMAIN recorders : recorders'[k] = recorders[k]
        /\ recorders'[current'] = NewRecorder("loading")
    BY <2>1, <2>2, Appended
  <2>4. \A k \in Slots : k # i => requests'[k] = Free
    BY <1>2, <1>5
  <2>5. \A k \in Slots : /\ requests'[k].stage \notin {"wait", "settled"}
                         /\ requests'[k] # Free => requests'[k].live
                         /\ requests'[k].stage \in {"sent", "read"} => requests'[k].rec \in {0, current'}
    BY <1>5, <2>2, <2>4, Sizes
  <2>6. \A k \in Slots : ~Ends(k)'
    BY <2>5 DEF Ends
  <2>7. ASSUME NEW k \in DOMAIN recorders'
        PROVE  /\ recorders'[k].pending = <<>>
               /\ recorders'[k].closed => k # current'
               /\ ~recorders'[k].closed => k = current'
    <3>1. CASE k = current'
      BY <2>1, <2>3, <3>1
    <3>2. CASE k # current'
      <4>1. k \in DOMAIN recorders /\ k # 0
        BY <2>2, <2>3, <3>2
      <4>2. /\ recorders[k].pending = <<>>
            /\ ~recorders[k].closed => k = current
        BY <1>1, <4>1, CalmRecorders DEF Ends
      <4> QED
        BY <1>7, <2>3, <3>2, <4>1, <4>2
    <3> QED
      BY <3>1, <3>2
  <2> QED
    BY <1>2, <1>3, <2>5, <2>6, <2>7 DEF Calm
<1> QED
  BY <1>6, <1>7

LEMMA CalmWaits ==
  ASSUME Types, RequestsOK, Calm, NEW i \in Slots, Takes(i) \/ Detaches(i)
  PROVE  Calm'
<1> DEFINE r == requests[i].rec
<1>1. requests[i].stage = "read" /\ requests \in [Slots -> Requests] /\ requests[i] # Free
        /\ r \in DOMAIN recorders /\ r # 0
  <2>1. requests[i].stage = "read" /\ requests \in [Slots -> Requests] /\ requests[i] # Free
          /\ r \in DOMAIN recorders
    BY Sizes DEF Takes, Detaches, Types
  <2>2. r # 0
    BY <2>1, RecorderFacts
  <2> QED
    BY <2>1, <2>2
<1>2. /\ ~over /\ requests[i].live /\ \A k \in Slots : k # i => requests[k] = Free
      /\ over' = over
  BY <1>1, OnlyOne DEF Live, Takes, Detaches
<1>3. r = current /\ ~recorders[r].closed
  BY <1>1, CalmRecorders DEF Calm
<1>4. \A k \in DOMAIN recorders : recorders[k].pending = <<>> /\ (~recorders[k].closed => k = r)
  BY <1>1, <1>3, CalmRecorders DEF Ends
<1>5. /\ requests'[i].stage = "wait" /\ requests'[i].rec = r /\ requests'[i].live
      /\ \A k \in Slots : k # i => requests'[k] = Free
      /\ requests'[i].kind = requests[i].kind
  <2>1. PICK u : requests' = [requests EXCEPT ![i].stage = "wait", ![i].until = u]
    BY DEF Takes, Detaches
  <2> QED
    BY <1>1, <1>2, <2>1 DEF Requests
<1>6. Waits(r)'
  BY <1>5 DEF Waits
<1>7. /\ \A k \in Slots : requests'[k] # Free => requests'[k].live
      /\ \A k \in Slots : requests'[k].stage = "wait" => k = i
      /\ \A k \in Slots : requests'[k].stage \notin {"sent", "read"}
      /\ \A k \in Slots : Ends(k)' => k = i
  BY <1>5, Sizes DEF Ends
<1>8. CASE Takes(i)
  <2>1. Taking(i, r) /\ current' = current /\ requests[i].kind = "events"
    BY <1>8, TakesEffect DEF Takes
  <2>2. /\ DOMAIN recorders' = DOMAIN recorders /\ recorders'[r].pending = recorders[r].pending \o requests[i].lines
        /\ recorders'[r].handled = recorders[r].handled /\ recorders'[r].closed = recorders[r].closed
        /\ \A k \in DOMAIN recorders : k # r => recorders'[k] = recorders[k]
    BY <2>1 DEF Taking
  <2>3. requests'[i].until = recorders'[r].handled + Len(recorders'[r].pending)
    <3>1. requests[i] \in Requests /\ requests'[i] =
            [requests[i] EXCEPT !.stage = "wait",
                                !.until = recorders[r].handled + Len(recorders[r].pending \o requests[i].lines)]
      BY <1>1, <1>8 DEF Takes
    <3>2. requests'[i].until = recorders[r].handled + Len(recorders[r].pending \o requests[i].lines)
      BY <3>1 DEF Requests
    <3> QED
      BY <2>2, <3>2
  <2>4. \A k \in Slots : ~Ends(k)'
    BY <1>5, <1>7, <2>1 DEF Ends
  <2>5. \A k \in Slots : requests'[k].stage = "wait" =>
          LET q == recorders'[requests'[k].rec]
          IN  requests'[k].until = q.handled + Len(q.pending) /\ ~q.closed
    BY <1>3, <1>5, <1>7, <2>2, <2>3
  <2>6. ASSUME NEW q \in DOMAIN recorders'
        PROVE  /\ recorders'[q].pending # <<>> => Waits(q)'
               /\ recorders'[q].closed => q # current'
               /\ ~recorders'[q].closed => q = current'
    <3>1. CASE q = r
      <4>1. Waits(q)'
        BY <1>5, <3>1 DEF Waits
      <4> QED
        BY <1>3, <2>1, <2>2, <3>1, <4>1
    <3>2. CASE q # r
      BY <1>3, <1>4, <2>1, <2>2, <3>2
    <3> QED
      BY <3>1, <3>2
  <2> QED
    BY <1>2, <1>7, <2>4, <2>5, <2>6 DEF Calm
<1>9. CASE Detaches(i)
  <2>1. /\ recorders' = recorders /\ requests[i].kind = "complete" /\ current' = 0
        /\ requests'[i].until = recorders[r].handled + Len(recorders[r].pending)
    BY <1>1, <1>9 DEF Detaches, Requests
  <2>2. Ends(i)'
    BY <1>5, <2>1 DEF Ends
  <2>3. \A k \in Slots : requests'[k].stage = "wait" =>
          LET q == recorders'[requests'[k].rec]
          IN  requests'[k].until = q.handled + Len(q.pending) /\ ~q.closed
    BY <1>3, <1>5, <1>7, <2>1
  <2>4. ASSUME NEW q \in DOMAIN recorders'
        PROVE  /\ recorders'[q].pending # <<>> => Waits(q)'
               /\ recorders'[q].closed => q # current'
               /\ ~recorders'[q].closed => Ends(i)' /\ requests'[i].rec = q
    BY <1>4, <1>5, <2>1, <2>2, RecorderFacts
  <2> QED
    BY <1>2, <1>7, <2>1, <2>3, <2>4 DEF Calm
<1> QED
  BY <1>8, <1>9

LEMMA CalmFinishRows ==
  ASSUME Types, RequestsOK, Calm, NEW i \in Slots, FinishRows(i)
  PROVE  Calm'
<1> DEFINE r == requests[i].rec
<1>1. PICK jobs : Finishing(i, jobs)
  BY FinishingEffect
<1> DEFINE new == [recorders[r] EXCEPT !.closed = TRUE, !.jobs = jobs]
<1>2. requests[i].kind = "complete" /\ Drained(i) /\ r \in DOMAIN recorders /\ Changed(r, new)
  BY <1>1, Zenon DEF Finishing, Changed
<1>3. new.pending = recorders[r].pending /\ new.closed
  BY <1>2, RecorderFacts DEF Recorders
<1> HIDE DEF new
<1>4. requests[i].stage = "wait" /\ requests \in [Slots -> Requests] /\ requests[i] # Free
  BY <1>2, Sizes DEF Drained, Types
<1>5. current = 0 /\ current' = current /\ over' = over /\ ~over
  BY <1>2, <1>4, OnlyOne DEF Calm, Ends, FinishRows
<1>6. requests[i].live /\ \A k \in Slots : k # i => requests[k] = Free
  BY <1>4, OnlyOne DEF Live
<1>7. /\ requests'[i].stage = "settled" /\ requests'[i].live
      /\ \A k \in Slots : k # i => requests'[k] = Free
  BY <1>4, <1>6 DEF FinishRows, Requests
<1>8. \A k \in Slots : /\ requests'[k] # Free => requests'[k].live
                       /\ requests'[k].stage \notin {"wait", "sent", "read"}
  BY <1>7, Sizes
<1>9. ASSUME NEW k \in DOMAIN recorders'
      PROVE  /\ recorders'[k].pending = <<>>
             /\ recorders'[k].closed => k # current'
             /\ recorders'[k].closed
  <2>1. /\ k \in DOMAIN recorders /\ (k # r => recorders'[k] = recorders[k])
        /\ recorders'[r] = new
    BY <1>2, ChangedFacts
  <2>2. recorders[k].pending = <<>> /\ k # 0
    BY <1>2, <1>4, <2>1, CalmRecorders, RecorderFacts
  <2>3. ~recorders[k].closed => k = r
    BY <1>4, <1>5, <2>1, <2>2, CalmRecorders
  <2> QED
    BY <1>3, <1>5, <2>1, <2>2, <2>3
<1> QED
  BY <1>5, <1>8, <1>9 DEF Calm

LEMMA CalmRecords ==
  ASSUME Types, RequestsOK, RecordersOK, Calm, NEW r \in DOMAIN recorders, Records(r)
  PROVE  Calm'
<1>1. requests' = requests /\ UNCHANGED <<phase, over, current>>
  <2>1. CASE Resume(r) \/ ResumeFails(r)
    BY <2>1 DEF Resume, ResumeFails, runnerVars
  <2>2. CASE HandleLine(r) \/ HandleFails(r)
    BY <2>2 DEF HandleLine, HandleFails, runnerVars
  <2> QED
    BY <2>1, <2>2 DEF Records
<1>2. /\ \A k : Waits(k)' <=> Waits(k)
      /\ \A k \in Slots : Ends(k)' <=> Ends(k)
  BY <1>1, StagesKept
<1>3. \E new : /\ Changed(r, new) /\ new.closed = recorders[r].closed
               /\ new.pending # <<>> => recorders[r].pending # <<>>
               /\ new.handled + Len(new.pending) = recorders[r].handled + Len(recorders[r].pending)
  <2>1. CASE Resume(r)
    <3>1. PICK new : /\ Changed(r, new) /\ new.state = (IF over THEN "null" ELSE "ready")
                     /\ new.closed = recorders[r].closed /\ new.pending = recorders[r].pending
                     /\ new.handled = recorders[r].handled
                     /\ new.known = { j \in Jobs : RowOf(j) # {} }
                     /\ new.jobs = [j \in Jobs |-> Remembered(j)]
      BY <2>1, ResumeChanges
    <3> QED
      BY <3>1
  <2>2. CASE ResumeFails(r)
    <3>1. PICK new : /\ Changed(r, new) /\ new.state = "rejected"
                     /\ new.closed = recorders[r].closed /\ new.pending = recorders[r].pending
                     /\ new.handled = recorders[r].handled
      BY <2>2, ResumeFailsChanges
    <3> QED
      BY <3>1
  <2>3. CASE HandleLine(r) \/ HandleFails(r)
    <3>1. PICK item, known, jobs : Handles(r, item, known, jobs)
      BY <2>3, HandleLineEffect
    <3>2. PICK new : /\ Changed(r, new) /\ new.state = recorders[r].state
                     /\ new.closed = recorders[r].closed /\ new.pending = Tail(recorders[r].pending)
                     /\ new.handled = recorders[r].handled + 1 /\ new.known = known /\ new.jobs = jobs
      BY <3>1, HandlesChanges
    <3>3. recorders[r].pending # <<>> /\ recorders[r].pending \in Seq(Notes)
            /\ recorders[r].handled \in Nat
      BY <3>1, RecorderFacts, Zenon DEF Handles
    <3>4. Len(Tail(recorders[r].pending)) = Len(recorders[r].pending) - 1
            /\ Len(recorders[r].pending) \in Nat
      BY <3>3, Rest
    <3>5. /\ Changed(r, new) /\ new.closed = recorders[r].closed
          /\ new.pending # <<>> => recorders[r].pending # <<>>
          /\ new.handled + Len(new.pending) = recorders[r].handled + Len(recorders[r].pending)
      BY <3>2, <3>3, <3>4
    <3> QED
      BY <3>5
  <2> QED
    BY <2>1, <2>2, <2>3 DEF Records
<1>4. PICK new : /\ Changed(r, new) /\ new.closed = recorders[r].closed
                 /\ new.pending # <<>> => recorders[r].pending # <<>>
                 /\ new.handled + Len(new.pending) = recorders[r].handled + Len(recorders[r].pending)
  BY <1>3
<1>5. /\ DOMAIN recorders' = DOMAIN recorders
      /\ recorders'[r] = new
      /\ \A k \in DOMAIN recorders : k # r => recorders'[k] = recorders[k]
  BY <1>4, ChangedFacts
<1>6. ASSUME NEW i \in Slots, requests'[i].stage = "wait"
      PROVE  LET q == recorders'[requests'[i].rec]
             IN  requests'[i].until = q.handled + Len(q.pending) /\ ~q.closed
  <2>1. requests[i].stage = "wait" /\ requests'[i] = requests[i] /\ requests[i].rec \in DOMAIN recorders
    BY <1>1, <1>6, RecOf DEF RequestsOK, SlotsOK
  <2>2. /\ requests[i].until = recorders[requests[i].rec].handled + Len(recorders[requests[i].rec].pending)
        /\ ~recorders[requests[i].rec].closed
    BY <2>1 DEF Calm
  <2>3. CASE requests[i].rec = r
    BY <1>4, <1>5, <2>1, <2>2, <2>3
  <2>4. CASE requests[i].rec # r
    BY <1>5, <2>1, <2>2, <2>4
  <2> QED
    BY <2>3, <2>4
<1>7. ASSUME NEW q \in DOMAIN recorders'
      PROVE  /\ recorders'[q].pending # <<>> => Waits(q)'
             /\ recorders'[q].closed => q # current'
             /\ ~recorders'[q].closed =>
                  r = q \/ q = current' \/ over' \/ \E i \in Slots : Ends(i)' /\ requests'[i].rec = q
             /\ recorders'[q].closed = recorders[q].closed
  <2>1. q \in DOMAIN recorders
    BY <1>5
  <2>2. /\ recorders[q].pending # <<>> => Waits(q)
        /\ recorders[q].closed => q # current
        /\ ~recorders[q].closed => q = current \/ over \/ \E i \in Slots : Ends(i) /\ requests[i].rec = q
    BY <2>1 DEF Calm
  <2>3. /\ recorders'[q].closed = recorders[q].closed
        /\ recorders'[q].pending # <<>> => recorders[q].pending # <<>>
    BY <1>4, <1>5, <2>1
  <2> QED
    BY <1>1, <1>2, <2>2, <2>3
<1>8. ASSUME NEW q \in DOMAIN recorders', ~recorders'[q].closed
      PROVE  q = current' \/ over' \/ \E i \in Slots : Ends(i)' /\ requests'[i].rec = q
  <2>1. q \in DOMAIN recorders /\ ~recorders[q].closed
    BY <1>5, <1>7, <1>8
  <2>2. q = current \/ over \/ \E i \in Slots : Ends(i) /\ requests[i].rec = q
    BY <2>1 DEF Calm
  <2> QED
    BY <1>1, <1>2, <2>2
<1>9. /\ \A i \in Slots : requests'[i] # Free => requests'[i].live
      /\ over' => phase' = "over"
      /\ \A i \in Slots : /\ Ends(i)' => current' = 0
                          /\ requests'[i].stage \in {"sent", "read"} => requests'[i].rec \in {0, current'}
  BY <1>1, <1>2 DEF Calm
<1> QED
  BY <1>6, <1>7, <1>8, <1>9 DEF Calm

LEMMA CalmLoses ==
  ASSUME Types, RequestsOK, Calm, Loses, ~abandoned'
  PROVE  Calm'
<1>1. requests \in [Slots -> Requests]
  BY DEF Types
<1>2. ASSUME NEW i \in Slots, Fail(i)
      PROVE  Calm'
  <2>1. /\ requests' = [requests EXCEPT ![i] = Free] /\ requests[i].stage = "sent"
        /\ UNCHANGED <<recorders, current, over>> /\ requests[i] # Free
    BY <1>2, Sizes DEF Fail, serverVars
  <2>2. ~over
    BY <2>1, OnlyOne
  <2> QED
    BY <1>1, <2>1, <2>2, CalmQuiet, Sizes
<1>3. ASSUME NEW i \in Slots, Abandon(i)
      PROVE  FALSE
  BY <1>3 DEF Abandon
<1>4. CASE Restart
  <2>1. /\ recorders' = <<>> /\ over' = over /\ \A k \in Slots : requests'[k] = Free
        /\ (\E i \in Slots : Live(i)) \/ phase' = phase
    BY <1>4 DEF Restart, runnerVars
  <2>2. over => phase' = "over"
    <3>1. ASSUME NEW i \in Slots, Live(i)
          PROVE  ~over
      <4>1. requests[i] # Free
        BY <3>1, Sizes DEF Live
      <4> QED
        BY <4>1, OnlyOne
    <3> QED
      BY <2>1, <3>1 DEF Calm
  <2>3. DOMAIN recorders' = {}
    BY <2>1
  <2> QED
    BY <2>1, <2>2, <2>3, CalmRests, Sizes
<1> QED
  BY <1>2, <1>3, <1>4, CalmRefuses DEF Loses, Fault

LEMMA CalmStep ==
  ASSUME FlowInv, CalmOK, [Next]_vars
  PROVE  CalmOK' /\ (abandoned => abandoned')
<1>1. Types /\ RequestsOK /\ RecordersOK
  BY DEF FlowInv
<1>2. abandoned => abandoned'
  <2>1. ASSUME NEW i \in Slots, Accepts(i) \/ Open(i) \/ Takes(i) \/ Detaches(i) \/ FinishRows(i)
        PROVE  abandoned' = abandoned
    BY <1>1, <2>1, ProgressEffect DEF Progress
  <2>2. CASE Loses
    BY <1>1, <2>2, LosesEffect DEF Lost
  <2>3. ASSUME NEW r \in DOMAIN recorders, Records(r)
        PROVE  abandoned' = abandoned
    BY <2>3, Zenon DEF Records, Resume, ResumeFails, HandleLine, HandleFails
  <2> QED
    BY <1>1, <2>1, <2>2, <2>3, StepKinds DEF Idles, PrintLine, Flushes, Answers
<1> SUFFICES ASSUME ~abandoned', ~abandoned, Calm
             PROVE  Calm'
  BY <1>2 DEF CalmOK
<1>3. requests \in [Slots -> Requests]
  BY <1>1 DEF Types
<1>4. CASE Idles \/ PrintLine
  <2>1. UNCHANGED <<requests, recorders, current, over>>
    BY <1>4 DEF Idles, PrintLine, serverVars
  <2>2. over => phase' = "over"
    BY <1>4 DEF Idles, PrintLine, Calm
  <2> QED
    BY <2>1, <2>2, CalmQuiet
<1>5. CASE Flushes
  <2>1. PICK i \in Slots : /\ requests[i] = Free /\ requests' = [requests EXCEPT ![i] = NewRequest("events", batch')]
                           /\ UNCHANGED <<recorders, current, over>> /\ phase # "over"
    BY <1>5 DEF Flushes, Flushed, serverVars
  <2>2. ~over
    BY <2>1 DEF Calm
  <2>3. \A k \in Slots : \/ requests'[k] = requests[k]
                         \/ /\ requests[k].stage \notin {"wait", "settled"}
                            /\ requests'[k].stage \notin {"wait", "settled"}
                            /\ requests'[k] # Free => requests'[k].live
                            /\ requests'[k].stage \in {"sent", "read"} => requests'[k].rec \in {0, current}
    BY <1>3, <2>1, Sizes DEF NewRequest
  <2> QED
    BY <2>1, <2>2, <2>3, CalmQuiet
<1>6. ASSUME NEW i \in Slots, Accepts(i)
      PROVE  Calm'
  <2>1. requests[i].stage = "sent" /\ ~over /\ requests' = [requests EXCEPT ![i].stage = "read"]
        /\ UNCHANGED <<recorders, current, over>> /\ requests[i] # Free
    BY <1>6, Sizes DEF Accepts, serverVars
  <2>2. requests[i].live /\ requests[i].rec \in {0, current}
    BY <2>1 DEF Calm
  <2>3. \A k \in Slots : \/ requests'[k] = requests[k]
                         \/ /\ requests[k].stage \notin {"wait", "settled"}
                            /\ requests'[k].stage \notin {"wait", "settled"}
                            /\ requests'[k] # Free => requests'[k].live
                            /\ requests'[k].stage \in {"sent", "read"} => requests'[k].rec \in {0, current}
    BY <1>3, <2>1, <2>2 DEF Requests
  <2> QED
    BY <2>1, <2>3, CalmQuiet
<1> QED
  BY <1>1, <1>4, <1>5, <1>6, StepKinds, CalmAnswers, CalmOpen, CalmWaits, CalmFinishRows, CalmRecords,
    CalmLoses

-----------------------------------------------------------------------------
(* The notes on dropped lines: none before a line is dropped, and one, or  *)
(* the count of the next, afterwards.                                      *)
LEMMA NotedJoined ==
  ASSUME NEW p \in Seq(Notes), NEW q \in Seq(Notes)
  PROVE  Noted(p \o q) <=> Noted(p) \/ Noted(q)
<1> DEFINE w == p \o q
<1>1. /\ Len(p) \in Nat /\ DOMAIN w \subseteq Nat
      /\ \A k \in DOMAIN p : k \in DOMAIN w /\ w[k] = p[k]
      /\ \A k \in DOMAIN q : k + Len(p) \in DOMAIN w /\ w[k + Len(p)] = q[k]
      /\ \A k \in DOMAIN w : k > Len(p) => k - Len(p) \in DOMAIN q /\ w[k] = q[k - Len(p)]
      /\ \A k \in DOMAIN w : k <= Len(p) => k \in DOMAIN p /\ w[k] = p[k]
  BY Concat
<1> HIDE DEF w
<1>2. ASSUME NEW k \in DOMAIN w
      PROVE  (\E i \in DOMAIN p : p[i] = w[k]) \/ (\E i \in DOMAIN q : q[i] = w[k])
  <2>1. k <= Len(p) \/ k > Len(p)
    BY <1>1
  <2> QED
    BY <1>1, <2>1
<1> QED
  BY <1>1, <1>2 DEF Noted, w

LEMMA NotedAppended ==
  ASSUME NEW q \in Seq(Notes), NEW e \in Notes
  PROVE  Noted(Append(q, e)) <=> Noted(q) \/ e.gone > 0
<1> DEFINE a == Append(q, e)
<1>1. /\ DOMAIN a = 1..(Len(q) + 1) /\ Len(q) \in Nat /\ DOMAIN q = 1..Len(q)
      /\ \A k \in DOMAIN q : a[k] = q[k]
      /\ a[Len(q) + 1] = e
  BY Appended
<1> HIDE DEF a
<1>2. /\ \A k \in DOMAIN a : k \in DOMAIN q \/ k = Len(q) + 1
      /\ \A k \in DOMAIN q : k \in DOMAIN a
      /\ Len(q) + 1 \in DOMAIN a
  BY <1>1
<1> QED
  BY <1>1, <1>2 DEF Noted, a

LEMMA NotedTail ==
  ASSUME NEW q \in Seq(Notes), q # <<>>, ~Noted(q)
  PROVE  ~Noted(Tail(q)) /\ ~(Head(q).gone > 0)
BY Rest DEF Noted

LEMMA TrimNoted ==
  ASSUME NEW q \in Seq(Notes)
  PROVE  /\ Excess(q) = 0 => /\ SubSeq(q, Excess(q) + 1, Len(q)) = q
                             /\ LinesOf(SubSeq(q, 1, Excess(q))) = {}
         /\ Excess(q) > 0 /\ ~Noted(q) => LinesOf(SubSeq(q, 1, Excess(q))) # {}
<1> DEFINE e == Excess(q)
           d == SubSeq(q, 1, e)
<1>1. e \in 0..Len(q) /\ e \in Nat /\ Len(q) \in Nat /\ DOMAIN q = 1..Len(q)
  BY Trim, Elements
<1> HIDE DEF e
<1>2. /\ d \in Seq(Notes) /\ Len(d) = e /\ DOMAIN d = 1..e
      /\ \A k \in DOMAIN d : k \in DOMAIN q /\ d[k] = q[k]
  BY <1>1, PrefixOf
<1> HIDE DEF d
<1>3. ASSUME e = 0
      PROVE  SubSeq(q, e + 1, Len(q)) = q /\ LinesOf(d) = {}
  <2>1. e + 1 = 1
    BY <1>3
  <2>2. SubSeq(q, 1, Len(q)) = q
    BY SubSeqFull
  <2>3. DOMAIN d = {}
    BY <1>2, <1>3
  <2> QED
    BY <2>1, <2>2, <2>3 DEF LinesOf
<1>4. ASSUME e > 0, ~Noted(q)
      PROVE  LinesOf(d) # {}
  <2>1. 1 \in DOMAIN d /\ 1 \in DOMAIN q /\ d[1] = q[1]
    BY <1>1, <1>2, <1>4
  <2>2. q[1] \in Notes /\ ~(q[1].gone > 0)
    BY <1>4, <2>1, Elements DEF Noted
  <2>3. q[1].line # 0
    BY <2>2, NoteType
  <2> QED
    BY <2>1, <2>3 DEF LinesOf
<1> QED
  BY <1>3, <1>4 DEF e, d

(* A note of a batch that is answered is in the log.                       *)
LEMMA AnsweredLogged ==
  ASSUME FlowInv, Calm, NEW i \in Slots, Answers(i), requests[i].live, requests[i].kind = "events"
  PROVE  \A item \in ItemsOf(batch) : item.gone > 0 => item \in ItemsOf(log)
<1>1. Types /\ RequestsOK /\ RecordersOK /\ requests[i] # Free
  BY DEF FlowInv, Answers
<1>2. ~over /\ requests[i].stage # "settled"
  BY <1>1, OnlyOne DEF RequestsOK, SlotsOK
<1>3. Drained(i)
  BY <1>1, <1>2, RecOf DEF Answers, RecordersOK
<1> DEFINE r == requests[i].rec
<1>4. requests[i].stage = "wait" /\ r \in DOMAIN recorders
  BY <1>1, <1>3, RecOf DEF Drained, RequestsOK, SlotsOK
<1>5. recorders[r].pending = <<>>
  BY <1>1, <1>3, <1>4, CalmRecorders
<1>6. ~recorders[r].closed
  BY <1>4 DEF Calm
<1>7. Awaited(requests[i].until, recorders[r], batch, log, failed)
  BY <1>4 DEF FlowInv, WaitOK
<1>8. \A n \in DOMAIN batch : batch[n].line \in failed \/ \E k \in DOMAIN log : log[k] = batch[n]
  BY <1>5, <1>6, <1>7 DEF Awaited
<1>9. \A n \in DOMAIN batch : batch[n].gone > 0 => batch[n].line \notin failed
  BY <1>1, Elements, NoteType DEF Types, RunnerTypes, ServerTypes
<1> QED
  BY <1>8, <1>9 DEF ItemsOf

(* What the invariant says of the drops, item by item.                     *)
AllItems == ItemsOf(queue) \cup ItemsOf(batch) \cup ItemsOf(log)
Heard(d, S, T) == d \in S \/ \E item \in T : item.gone > 0 /\ d \in About(item)
Tells(S, n) == \E item \in S : item.gone > 0 /\ item.upto = n

Remembering ==
  /\ \A d \in 1 .. (drops - dropped) : Heard(d, unheard, AllItems)
  /\ drops > 0 /\ dropped = 0 => Tells(AllItems, drops)

LEMMA ItemsJoined ==
  ASSUME NEW p \in Seq(Notes), NEW q \in Seq(Notes)
  PROVE  ItemsOf(p \o q) = ItemsOf(p) \cup ItemsOf(q)
<1> DEFINE w == p \o q
<1>1. /\ Len(p) \in Nat /\ DOMAIN w \subseteq Nat
      /\ \A k \in DOMAIN p : k \in DOMAIN w /\ w[k] = p[k]
      /\ \A k \in DOMAIN q : k + Len(p) \in DOMAIN w /\ w[k + Len(p)] = q[k]
      /\ \A k \in DOMAIN w : k > Len(p) => k - Len(p) \in DOMAIN q /\ w[k] = q[k - Len(p)]
      /\ \A k \in DOMAIN w : k <= Len(p) => k \in DOMAIN p /\ w[k] = p[k]
  BY Concat
<1> HIDE DEF w
<1>2. ASSUME NEW k \in DOMAIN w
      PROVE  (\E i \in DOMAIN p : p[i] = w[k]) \/ (\E i \in DOMAIN q : q[i] = w[k])
  <2>1. k <= Len(p) \/ k > Len(p)
    BY <1>1
  <2> QED
    BY <1>1, <2>1
<1>3. ItemsOf(w) \subseteq ItemsOf(p) \cup ItemsOf(q)
  BY <1>2 DEF ItemsOf
<1>4. ItemsOf(p) \subseteq ItemsOf(w)
  BY <1>1 DEF ItemsOf
<1>5. ItemsOf(q) \subseteq ItemsOf(w)
  <2>1. ASSUME NEW k \in DOMAIN q
        PROVE  \E n \in DOMAIN w : w[n] = q[k]
    BY <1>1
  <2> QED
    BY <2>1 DEF ItemsOf
<1> QED
  BY <1>3, <1>4, <1>5 DEF w

LEMMA ItemsAppended ==
  ASSUME NEW q \in Seq(Notes), NEW e \in Notes
  PROVE  ItemsOf(Append(q, e)) = ItemsOf(q) \cup {e}
<1> DEFINE a == Append(q, e)
<1>1. /\ DOMAIN a = 1..(Len(q) + 1) /\ Len(q) \in Nat /\ DOMAIN q = 1..Len(q)
      /\ \A k \in DOMAIN q : a[k] = q[k]
      /\ a[Len(q) + 1] = e
  BY Appended
<1> HIDE DEF a
<1>2. /\ \A k \in DOMAIN a : k \in DOMAIN q \/ k = Len(q) + 1
      /\ \A k \in DOMAIN q : k \in DOMAIN a
      /\ Len(q) + 1 \in DOMAIN a
  BY <1>1
<1> QED
  BY <1>1, <1>2 DEF ItemsOf, a

LEMMA ItemsTrimmed ==
  ASSUME NEW q \in Seq(Notes)
  PROVE  /\ ItemsOf(q) \subseteq ItemsOf(SubSeq(q, 1, Excess(q))) \cup ItemsOf(SubSeq(q, Excess(q) + 1, Len(q)))
         /\ Len(SubSeq(q, 1, Excess(q))) = Excess(q) /\ Excess(q) \in Nat
         /\ Excess(q) = 0 => ItemsOf(SubSeq(q, 1, Excess(q))) = {}
<1> DEFINE e == Excess(q)
           d == SubSeq(q, 1, e)
           s == SubSeq(q, e + 1, Len(q))
<1>1. e \in 0..Len(q) /\ e \in Nat /\ Len(q) \in Nat /\ DOMAIN q = 1..Len(q)
  BY Trim, Elements
<1> HIDE DEF e
<1>2. /\ Len(d) = e /\ DOMAIN d = 1..e /\ \A k \in 1..e : d[k] = q[k]
  BY <1>1, PrefixOf
<1>3. \A k \in DOMAIN q : k > e => k - e \in DOMAIN s /\ s[k - e] = q[k]
  BY <1>1, SuffixOf
<1> HIDE DEF d, s
<1>4. ASSUME NEW k \in DOMAIN q
      PROVE  q[k] \in ItemsOf(d) \cup ItemsOf(s)
  <2>1. CASE k <= e
    <3>1. k \in 1..e
      BY <1>1, <2>1
    <3> QED
      BY <1>2, <3>1 DEF ItemsOf
  <2>2. CASE k > e
    BY <1>3, <2>2 DEF ItemsOf
  <2> QED
    BY <1>1, <2>1, <2>2
<1>5. ASSUME e = 0
      PROVE  ItemsOf(d) = {}
  <2>1. DOMAIN d = {}
    BY <1>2, <1>5
  <2> QED
    BY <2>1 DEF ItemsOf
<1>6. ItemsOf(q) \subseteq ItemsOf(d) \cup ItemsOf(s)
  BY <1>4 DEF ItemsOf
<1> QED
  BY <1>1, <1>2, <1>5, <1>6 DEF e, d, s

(* Nothing is dropped, and no note gets lost.                              *)
LEMMA DropsQuiet ==
  ASSUME Remembering, UNCHANGED <<drops, dropped, unheard>>,
         \A item \in AllItems : item.gone > 0 => item \in AllItems'
  PROVE  Remembering'
<1>1. \A d : Heard(d, unheard, AllItems) => Heard(d, unheard', AllItems')
  BY DEF Heard
<1>2. \A n : Tells(AllItems, n) => Tells(AllItems', n)
  BY DEF Tells
<1> QED
  BY <1>1, <1>2 DEF Remembering, Heard, Tells

(* The oldest items of a queue are dropped: c is the count of the drops    *)
(* that no note is about, and L has the notes that are elsewhere.          *)
LEMMA DropsTrimmed ==
  ASSUME Types, NEW q \in Seq(Notes), NEW c \in Nat, NEW L,
         \A d \in 1 .. (drops - c) : Heard(d, unheard, ItemsOf(q) \cup L),
         drops > 0 /\ c = 0 => Tells(ItemsOf(q) \cup L, drops),
         Drop(SubSeq(q, 1, Excess(q))), dropped' = c + Excess(q),
         ItemsOf(SubSeq(q, Excess(q) + 1, Len(q))) \cup L \subseteq AllItems'
  PROVE  Remembering'
<1> DEFINE e == Excess(q)
           s == SubSeq(q, 1, e)
<1>1. /\ \A item \in ItemsOf(q) \cup L : item \in ItemsOf(s) \/ item \in AllItems'
      /\ Len(s) = e /\ e \in Nat /\ (e = 0 => ItemsOf(s) = {})
  BY ItemsTrimmed
<1>2. /\ drops' = drops + Len(s)
      /\ unheard' = unheard \cup UNION { About(s[i]) : i \in DOMAIN s }
  BY DEF Drop
<1>3. /\ unheard \subseteq unheard'
      /\ \A item \in ItemsOf(s) : About(item) \subseteq unheard'
  BY <1>2 DEF ItemsOf
<1> HIDE DEF e, s
<1>4. drops \in Nat /\ drops' = drops + e /\ dropped' = c + e
  BY <1>1, <1>2 DEF Types, RunnerTypes, e
<1>5. ASSUME NEW d \in 1 .. (drops' - dropped')
      PROVE  Heard(d, unheard', AllItems')
  <2>1. d \in 1 .. (drops - c)
    BY <1>1, <1>4
  <2>2. Heard(d, unheard, ItemsOf(q) \cup L)
    BY <2>1
  <2> QED
    BY <1>1, <1>3, <2>2 DEF Heard
<1>6. ASSUME drops' > 0, dropped' = 0
      PROVE  Tells(AllItems', drops')
  <2>1. e = 0 /\ c = 0
    BY <1>1, <1>4, <1>6
  <2>2. drops' = drops /\ drops > 0
    BY <1>4, <1>6, <2>1
  <2>3. Tells(ItemsOf(q) \cup L, drops)
    BY <2>1, <2>2
  <2> QED
    BY <1>1, <2>1, <2>2, <2>3 DEF Tells
<1> QED
  BY <1>5, <1>6 DEF Remembering, Heard, Tells

LEMMA DropsPrintLine ==
  ASSUME Types, PrintLine, Remembering
  PROVE  Remembering'
<1> DEFINE q == Append(queue, Line(out + 1))
           L == ItemsOf(batch) \cup ItemsOf(log)
<1>1. /\ queue' = SubSeq(q, Excess(q) + 1, Len(q)) /\ batch' = batch /\ log' = log
      /\ dropped' = dropped + Excess(q) /\ Drop(SubSeq(q, 1, Excess(q)))
  BY DEF PrintLine, Enqueue, serverVars
<1>2. queue \in Seq(Notes) /\ dropped \in Nat
  BY DEF Types, RunnerTypes
<1>3. Line(out + 1) \in Notes
  <2>1. out + 1 \in 1..Len(Script)
    BY Sizes DEF PrintLine, Types, RunnerTypes
  <2> QED
    BY <2>1 DEF Notes, Line
<1>4. q \in Seq(Notes) /\ ItemsOf(queue) \subseteq ItemsOf(q)
  BY <1>2, <1>3, Appended, ItemsAppended
<1> HIDE DEF q
<1>5. \A item \in AllItems : item \in ItemsOf(q) \cup L
  BY <1>4 DEF AllItems
<1>6. \A d \in 1 .. (drops - dropped) : Heard(d, unheard, ItemsOf(q) \cup L)
  BY <1>5 DEF Remembering, Heard
<1>7. drops > 0 /\ dropped = 0 => Tells(ItemsOf(q) \cup L, drops)
  BY <1>5 DEF Remembering, Tells
<1>8. ItemsOf(SubSeq(q, Excess(q) + 1, Len(q))) \cup L \subseteq AllItems'
  BY <1>1 DEF AllItems
<1> HIDE DEF L
<1> QED
  BY <1>1, <1>2, <1>4, <1>6, <1>7, <1>8, DropsTrimmed

LEMMA DropsFlushes ==
  ASSUME Types, RequestsOK, Flushes, Remembering
  PROVE  Remembering'
<1>1. PICK i \in Slots : Flushed(i)
  BY DEF Flushes
<1>2. /\ Kept' = SubSeq(Announced, Excess(Announced) + 1, Len(Announced)) /\ dropped' = Excess(Announced)
      /\ Drop(SubSeq(Announced, 1, Excess(Announced)))
      /\ log' = log /\ batch' \in Seq(Notes) /\ queue' \in Seq(Notes)
  BY <1>1 DEF Flushed, Flushes, serverVars
<1>3. Announced \in Seq(Notes) /\ Excess(Announced) \in Nat
  BY AnnouncedType, Trim
<1>4. batch = <<>> /\ queue \in Seq(Notes) /\ dropped \in Nat /\ drops \in Nat
  BY DEF Flushes, RequestsOK, LiveOK, Types, RunnerTypes
<1> DEFINE L == ItemsOf(log)
<1>5. \A item \in AllItems : item \in ItemsOf(queue) \cup L
  BY <1>4 DEF AllItems, ItemsOf
<1>6. /\ \A d \in 1 .. (drops - 0) : Heard(d, unheard, ItemsOf(Announced) \cup L)
      /\ drops > 0 => Tells(ItemsOf(Announced) \cup L, drops)
  <2>1. CASE dropped > 0
    <3> DEFINE note == Marker(dropped, drops)
    <3>1. /\ note \in Notes /\ note.gone > 0 /\ note.upto = drops
          /\ About(note) = (drops - dropped + 1) .. drops
      BY <1>4, <2>1 DEF Notes, Marker, About
    <3>2. Announced = Append(queue, note)
      BY <2>1 DEF Announced
    <3> HIDE DEF note
    <3>3. ItemsOf(Announced) = ItemsOf(queue) \cup {note}
      BY <1>4, <3>1, <3>2, ItemsAppended
    <3>4. ASSUME NEW d \in 1 .. (drops - 0)
          PROVE  Heard(d, unheard, ItemsOf(Announced) \cup L)
      <4>1. CASE d <= drops - dropped
        <5>1. d \in 1 .. (drops - dropped)
          BY <1>4, <4>1
        <5>2. Heard(d, unheard, AllItems)
          BY <5>1 DEF Remembering
        <5> QED
          BY <1>5, <3>3, <5>2 DEF Heard
      <4>2. CASE d > drops - dropped
        <5>1. d \in About(note)
          BY <1>4, <3>1, <4>2
        <5> QED
          BY <3>1, <3>3, <5>1 DEF Heard
      <4> QED
        BY <1>4, <4>1, <4>2
    <3>5. Tells(ItemsOf(Announced) \cup L, drops)
      BY <3>1, <3>3 DEF Tells
    <3> QED
      BY <3>4, <3>5
  <2>2. CASE ~(dropped > 0)
    <3>1. Announced = queue /\ dropped = 0
      BY <1>4, <2>2 DEF Announced
    <3>2. \A d \in 1 .. (drops - 0) : Heard(d, unheard, AllItems)
      BY <3>1 DEF Remembering
    <3>3. drops > 0 => Tells(AllItems, drops)
      BY <3>1 DEF Remembering
    <3> QED
      BY <1>5, <3>1, <3>2, <3>3 DEF Heard, Tells
  <2> QED
    BY <2>1, <2>2
<1>7. ItemsOf(SubSeq(Announced, Excess(Announced) + 1, Len(Announced))) \cup L \subseteq AllItems'
  <2>1. ItemsOf(Kept') = ItemsOf(batch') \cup ItemsOf(queue')
    BY <1>2, ItemsJoined DEF Kept
  <2> QED
    BY <1>2, <2>1 DEF AllItems
<1>8. 0 \in Nat /\ dropped' = 0 + Excess(Announced)
  BY <1>2, <1>3
<1> HIDE DEF L
<1> QED
  BY <1>2, <1>3, <1>6, <1>7, <1>8, DropsTrimmed

LEMMA DropsRequeued ==
  ASSUME Types, Requeued, log' = log, Remembering
  PROVE  Remembering'
<1> DEFINE L == ItemsOf(log)
<1>1. /\ queue' = SubSeq(Kept, Excess(Kept) + 1, Len(Kept)) /\ dropped' = dropped + Excess(Kept)
      /\ Drop(SubSeq(Kept, 1, Excess(Kept)))
  BY DEF Requeued
<1>2. queue \in Seq(Notes) /\ batch \in Seq(Notes) /\ Kept \in Seq(Notes) /\ dropped \in Nat
  BY KeptType DEF Types, RunnerTypes
<1>3. \A item \in AllItems : item \in ItemsOf(Kept) \cup L
  BY <1>2, ItemsJoined DEF AllItems, Kept
<1>4. \A d \in 1 .. (drops - dropped) : Heard(d, unheard, ItemsOf(Kept) \cup L)
  BY <1>3 DEF Remembering, Heard
<1>5. drops > 0 /\ dropped = 0 => Tells(ItemsOf(Kept) \cup L, drops)
  BY <1>3 DEF Remembering, Tells
<1>6. ItemsOf(SubSeq(Kept, Excess(Kept) + 1, Len(Kept))) \cup L \subseteq AllItems'
  BY <1>1 DEF AllItems
<1> HIDE DEF L
<1> QED
  BY <1>1, <1>2, <1>4, <1>5, <1>6, DropsTrimmed

LEMMA DropsStep ==
  ASSUME FlowInv, CalmOK, DropsRemembered, [Next]_vars
  PROVE  DropsRemembered'
<1>1. Types /\ RequestsOK /\ RecordersOK
  BY DEF FlowInv
<1> SUFFICES ASSUME ~abandoned'
             PROVE  Remembering'
  BY DEF DropsRemembered, Remembering, Heard, Tells, AllItems
<1>2. ~abandoned /\ Calm
  BY CalmStep DEF CalmOK
<1>3. Remembering
  BY <1>2 DEF DropsRemembered, Remembering, Heard, Tells, AllItems
<1>4. ASSUME UNCHANGED <<dropped, queue, batch, log, lost>>
      PROVE  Remembering'
  BY <1>3, <1>4, DropsQuiet DEF AllItems, lost
<1>5. CASE Idles
  BY <1>4, <1>5 DEF Idles, serverVars
<1>6. CASE PrintLine
  BY <1>1, <1>3, <1>6, DropsPrintLine
<1>7. CASE Flushes
  BY <1>1, <1>3, <1>7, DropsFlushes
<1>8. CASE Loses
  <2>1. Lost /\ log' = log
    BY <1>1, <1>8, LosesEffect DEF Lost
  <2>2. CASE Requeued
    BY <1>1, <1>3, <2>1, <2>2, DropsRequeued
  <2>3. CASE NotRequeued
    BY <1>4, <2>1, <2>3 DEF NotRequeued
  <2> QED
    BY <2>1, <2>2, <2>3 DEF Lost
<1>9. ASSUME NEW i \in Slots, Answers(i)
      PROVE  Remembering'
  <2>1. \/ Ignored(i)
        \/ NextLines /\ requests[i].live /\ requests[i].kind = "events"
        \/ ResultTaken(i)
    BY <1>1, <1>9, AnswerEffect DEF Answers, NextBatch, NextResult, NextNothing
  <2>2. log' = log
    BY <1>9 DEF Answers
  <2>3. CASE Ignored(i) \/ ResultTaken(i)
    BY <1>4, <2>2, <2>3 DEF Ignored, ResultTaken, runnerVars
  <2>4. CASE NextLines /\ requests[i].live /\ requests[i].kind = "events"
    <3>1. \A item \in ItemsOf(batch) : item.gone > 0 => item \in ItemsOf(log)
      BY <1>2, <1>9, <2>4, AnsweredLogged
    <3>2. Kept' = queue /\ batch' \in Seq(Notes) /\ queue' \in Seq(Notes)
            /\ UNCHANGED <<drops, dropped, unheard>>
      BY <2>4 DEF NextLines, lost
    <3>3. ItemsOf(queue) = ItemsOf(batch') \cup ItemsOf(queue')
      BY <3>2, ItemsJoined DEF Kept
    <3>4. \A item \in AllItems : item.gone > 0 => item \in AllItems'
      BY <2>2, <3>1, <3>3 DEF AllItems
    <3> QED
      BY <1>3, <3>2, <3>4, DropsQuiet
  <2> QED
    BY <2>1, <2>3, <2>4
<1>10. ASSUME NEW i \in Slots, Accepts(i) \/ Open(i) \/ Takes(i) \/ Detaches(i) \/ FinishRows(i)
       PROVE  Remembering'
  BY <1>1, <1>4, <1>10, ProgressEffect DEF Progress, runnerVars
<1>11. ASSUME NEW r \in DOMAIN recorders, Resume(r) \/ ResumeFails(r)
       PROVE  Remembering'
  BY <1>4, <1>11 DEF Resume, ResumeFails, runnerVars
<1>12. ASSUME NEW r \in DOMAIN recorders, HandleLine(r) \/ HandleFails(r)
       PROVE  Remembering'
  <2>1. PICK item, known, jobs : Handles(r, item, known, jobs)
    BY <1>1, <1>12, HandleLineEffect
  <2>2. \A k \in DOMAIN log : k \in DOMAIN log' /\ log'[k] = log[k]
    BY <1>1, <2>1, LogGrows
  <2>3. ItemsOf(log) \subseteq ItemsOf(log')
    BY <2>2 DEF ItemsOf
  <2>4. UNCHANGED runnerVars
    BY <2>1, Zenon DEF Handles
  <2>5. \A note \in AllItems : note.gone > 0 => note \in AllItems'
    BY <2>3, <2>4 DEF AllItems, runnerVars
  <2> QED
    BY <1>3, <2>4, <2>5, DropsQuiet DEF runnerVars, lost
<1> QED
  BY <1>1, <1>5, <1>6, <1>7, <1>8, <1>9, <1>10, <1>11, <1>12, StepKinds DEF Records

LEMMA TrimmedGrows ==
  ASSUME Types, RequestsOK, RecordersOK, [Next]_vars
  PROVE  trimmed \subseteq trimmed'
<1>1. CASE Idles \/ PrintLine \/ Flushes
  BY <1>1 DEF Idles, PrintLine, Enqueue, Drop, Flushes, Flushed, lost
<1>2. CASE Loses
  BY <1>2, LosesEffect DEF Lost, Requeued, NotRequeued
<1>3. ASSUME NEW i \in Slots, Answers(i)
      PROVE  trimmed' = trimmed
  <2>1. Ignored(i) \/ NextLines \/ ResultTaken(i)
    BY <1>3, AnswerEffect DEF Answers
  <2> QED
    BY <2>1 DEF Ignored, NextLines, ResultTaken, runnerVars, lost
<1>4. ASSUME NEW i \in Slots, Accepts(i) \/ Open(i) \/ Takes(i) \/ Detaches(i) \/ FinishRows(i)
      PROVE  trimmed' = trimmed
  BY <1>4, ProgressEffect DEF Progress, runnerVars, lost
<1>5. ASSUME NEW r \in DOMAIN recorders, Records(r)
      PROVE  trimmed' = trimmed
  BY <1>5, Zenon DEF Records, Resume, ResumeFails, HandleLine, HandleFails, runnerVars, lost
<1> QED
  BY <1>1, <1>2, <1>3, <1>4, <1>5, StepKinds

LEMMA NotesStep ==
  ASSUME FlowInv, NotesOK, [Next]_vars
  PROVE  NotesOK'
<1>1. Types /\ RequestsOK /\ RecordersOK
  BY DEF FlowInv
<1>2. /\ queue \in Seq(Notes) /\ batch \in Seq(Notes) /\ Kept \in Seq(Notes) /\ log \in Seq(Notes)
      /\ dropped \in Nat /\ trimmed \subseteq trimmed'
  <2>1. trimmed \subseteq trimmed'
    BY <1>1, TrimmedGrows
  <2> QED
    BY <1>1, <2>1, KeptType DEF Types, RunnerTypes
<1> SUFFICES ASSUME trimmed' = {}
             PROVE  /\ dropped' = 0 /\ ~Noted(Kept') /\ ~Noted(log')
                    /\ \A i \in Slots : ~Noted(requests'[i].lines)
                    /\ \A r \in DOMAIN recorders' : ~Noted(recorders'[r].pending)
  BY DEF NotesOK
<1>3. /\ trimmed = {} /\ dropped = 0 /\ ~Noted(Kept) /\ ~Noted(log) /\ ~Noted(queue) /\ ~Noted(batch)
      /\ \A i \in Slots : ~Noted(requests[i].lines)
      /\ \A r \in DOMAIN recorders : ~Noted(recorders[r].pending)
  BY <1>2, NotedJoined DEF NotesOK, Kept
<1>4. dropped' = 0 /\ ~Noted(Kept')
  <2> DEFINE Goal == dropped' = 0 /\ ~Noted(Kept')
  <2>1. ASSUME UNCHANGED <<dropped, queue, batch>>
        PROVE  Goal
    BY <1>3, <2>1 DEF Kept
  <2>2. ASSUME NEW q \in Seq(Notes), ~Noted(q), dropped' = Excess(q),
               trimmed' = trimmed \cup LinesOf(SubSeq(q, 1, Excess(q)))
        PROVE  dropped' = 0 /\ SubSeq(q, Excess(q) + 1, Len(q)) = q
    <3>1. Excess(q) = 0
      BY <1>3, <2>2, Trim, TrimNoted
    <3> QED
      BY <2>2, <3>1, TrimNoted
  <2>3. CASE Idles
    BY <2>1, <2>3 DEF Idles
  <2>4. CASE PrintLine
    <3> DEFINE q == Append(queue, Line(out + 1))
    <3>1. /\ queue' = SubSeq(q, Excess(q) + 1, Len(q)) /\ batch' = batch
          /\ dropped' = dropped + Excess(q)
          /\ trimmed' = trimmed \cup LinesOf(SubSeq(q, 1, Excess(q)))
      BY <2>4 DEF PrintLine, Enqueue, Drop
    <3>6. Line(out + 1) \in Notes /\ Line(out + 1).gone = 0
      <4>1. out + 1 \in 1..Len(Script)
        BY <1>1, <2>4, Sizes DEF PrintLine, Types, RunnerTypes
      <4> QED
        BY <4>1 DEF Notes, Line
    <3>2. q \in Seq(Notes) /\ ~Noted(q)
      BY <1>2, <1>3, <3>6, Appended, NotedAppended
    <3> HIDE DEF q
    <3>3. Excess(q) \in Nat /\ dropped' = Excess(q)
      BY <1>3, <3>1, <3>2, Trim
    <3>4. dropped' = 0 /\ queue' = q
      BY <2>2, <3>1, <3>2, <3>3
    <3>5. ~Noted(batch \o q)
      BY <1>2, <1>3, <3>2, NotedJoined
    <3> QED
      BY <3>1, <3>4, <3>5 DEF Kept
  <2>5. CASE Flushes
    <3>1. PICK i \in Slots : Flushed(i)
      BY <2>5 DEF Flushes
    <3>2. Announced = queue
      BY <1>3 DEF Announced
    <3> QED
      BY <1>2, <1>3, <2>2, <3>1, <3>2 DEF Flushed
  <2>6. CASE Loses
    <3>1. Lost
      BY <1>1, <2>6, LosesEffect
    <3>2. CASE Requeued
      <4>1. dropped' = Excess(Kept)
        BY <1>2, <1>3, <3>2, Trim DEF Requeued
      <4> QED
        BY <1>2, <1>3, <2>2, <3>2, <4>1 DEF Requeued
    <3>3. CASE NotRequeued
      BY <2>1, <3>3 DEF NotRequeued
    <3> QED
      BY <3>1, <3>2, <3>3 DEF Lost
  <2>7. ASSUME NEW i \in Slots, Answers(i)
        PROVE  Goal
    <3>1. Ignored(i) \/ NextLines \/ ResultTaken(i)
      BY <1>1, <2>7, AnswerEffect DEF Answers
    <3>2. CASE Ignored(i) \/ ResultTaken(i)
      BY <2>1, <3>2 DEF Ignored, ResultTaken, runnerVars
    <3>3. CASE NextLines
      BY <1>3, <3>3 DEF NextLines
    <3> QED
      BY <3>1, <3>2, <3>3
  <2>8. ASSUME NEW i \in Slots, Accepts(i) \/ Open(i) \/ Takes(i) \/ Detaches(i) \/ FinishRows(i)
        PROVE  Goal
    BY <1>1, <2>1, <2>8, ProgressEffect DEF Progress, runnerVars
  <2>9. ASSUME NEW r \in DOMAIN recorders, Records(r)
        PROVE  Goal
    <3>1. UNCHANGED <<dropped, queue, batch>>
      BY <2>9, Zenon DEF Records, Resume, ResumeFails, HandleLine, HandleFails, runnerVars
    <3> QED
      BY <2>1, <3>1
  <2> QED
    BY <1>1, <2>3, <2>4, <2>5, <2>6, <2>7, <2>8, <2>9, StepKinds
<1>5. ASSUME NEW i \in Slots
      PROVE  ~Noted(requests'[i].lines)
  <2>1. batch' \in Seq(Notes) /\ queue' \in Seq(Notes)
    <3>1. Types'
      BY <1>1, TypesStep
    <3> QED
      BY <3>1 DEF Types, RunnerTypes
  <2>2. ~Noted(batch') /\ ~Noted(<<>>)
    BY <1>4, <2>1, NotedJoined DEF Kept, Noted
  <2> QED
    BY <1>1, <1>3, <2>2, LinesOfRequests
<1>6. ~Noted(log') /\ \A r \in DOMAIN recorders' : ~Noted(recorders'[r].pending)
  <2>1. ~Noted(<<>>)
    BY DEF Noted
  <2>2. CASE Waiting
    BY <1>3, <2>1, <2>2 DEF Waiting
  <2>3. ASSUME NEW i \in Slots, NEW s \in DOMAIN recorders, Taking(i, s)
        PROVE  ~Noted(log') /\ \A r \in DOMAIN recorders' : ~Noted(recorders'[r].pending)
    <3>1. ~Noted(recorders[s].pending \o requests[i].lines)
      BY <1>1, <1>3, RecorderFacts, RequestFacts, NotedJoined
    <3> QED
      BY <1>3, <2>3, <3>1 DEF Taking, Takes
  <2>4. ASSUME NEW s \in DOMAIN recorders, NEW item \in Notes, Handling(s, item)
        PROVE  ~Noted(log') /\ \A r \in DOMAIN recorders' : ~Noted(recorders'[r].pending)
    <3>1. recorders[s].pending \in Seq(Notes) /\ recorders[s].pending # <<>>
            /\ item = Head(recorders[s].pending)
      BY <1>1, <2>4, RecorderFacts DEF Handling
    <3>2. ~Noted(Tail(recorders[s].pending)) /\ ~(item.gone > 0)
      BY <1>3, <3>1, NotedTail
    <3>3. ~Noted(Append(log, item))
      BY <1>2, <1>3, <3>2, NotedAppended
    <3> QED
      BY <1>3, <2>4, <3>2, <3>3 DEF Handling, Logged
  <2> QED
    BY <1>1, <2>2, <2>3, <2>4, Chains
<1> QED
  BY <1>4, <1>5, <1>6

-----------------------------------------------------------------------------
(* The rows of the jobs.                                                   *)
(* The steps that leave the rows and what the recorders know of them.      *)
LEMMA TableQuiet ==
  ASSUME Table, UNCHANGED <<rows, failed>>, over' \/ Settles' => over \/ Settles,
         \A r \in DOMAIN recorders' :
           recorders'[r].state = "ready" /\ ~recorders'[r].closed =>
             /\ r \in DOMAIN recorders /\ recorders[r].state = "ready" /\ ~recorders[r].closed
             /\ recorders'[r].jobs = recorders[r].jobs /\ recorders'[r].known = recorders[r].known
  PROVE  Table'
<1>1. \A j : RowOf(j)' = RowOf(j) /\ (EndFailed(j)' <=> EndFailed(j))
  BY DEF RowOf, EndFailed, EventOf
<1>2. ASSUME NEW r \in DOMAIN recorders', recorders'[r].state = "ready", ~recorders'[r].closed, NEW j \in Jobs
      PROVE  Knows(recorders[r], j)'
  <2>1. /\ r \in DOMAIN recorders /\ Knows(recorders[r], j)
        /\ recorders'[r].jobs = recorders[r].jobs /\ recorders'[r].known = recorders[r].known
    BY <1>2 DEF Table
  <2> QED
    BY <1>1, <2>1 DEF Knows
<1>3. (over \/ Settles => \A n \in DOMAIN rows :
         rows[n].status # "in_progress" \/ EndFailed(rows[n].job))'
  <2>1. over \/ Settles => \A n \in DOMAIN rows :
          rows[n].status # "in_progress" \/ \E e \in failed : EventOf(e, "end", rows[n].job)
    BY DEF Table, EndFailed
  <2>2. over' \/ Settles' => \A n \in DOMAIN rows :
          rows[n].status # "in_progress" \/ \E e \in failed : EventOf(e, "end", rows[n].job)
    BY <2>1
  <2>3. rows' = rows /\ failed' = failed
    OBVIOUS
  <2> QED
    BY <2>2, <2>3 DEF EndFailed, EventOf
<1>4. \A m, n \in DOMAIN rows' : rows'[m].job = rows'[n].job => m = n
  BY DEF Table
<1> QED
  BY <1>2, <1>3, <1>4 DEF Table, EndFailed

(* A line is handled by the one recorder that is not closed.               *)
LEMMA CalmHandles ==
  ASSUME FlowInv, Calm, NEW r \in DOMAIN recorders, NEW item, NEW known, NEW jobs,
         Handles(r, item, known, jobs)
  PROVE  /\ recorders[r].state = "ready" /\ ~recorders[r].closed
         /\ \A k \in DOMAIN recorders : k # r => recorders[k].closed
         /\ ~over /\ ~Settles
         /\ log' = Append(log, item) \/ item.line \in failed'
         /\ UNCHANGED <<requests, over, trimmed, out, phase>>
<1>1. recorders[r].pending # <<>> /\ Logged(r, item) /\ UNCHANGED <<requests, over, runnerVars>>
  BY Zenon DEF Handles
<1>2. PICK i \in Slots : requests[i].stage = "wait" /\ requests[i].rec = r
  BY <1>1 DEF Calm, Waits
<1>3. requests[i] # Free
  BY <1>2, Sizes
<1>4. ~over /\ \A k \in Slots : k # i => requests[k] = Free
  BY <1>3, OnlyOne DEF FlowInv
<1>5. ~recorders[r].closed
  BY <1>2 DEF Calm
<1>6. ASSUME NEW k \in DOMAIN recorders, k # r
      PROVE  recorders[k].closed
  <2>1. ~recorders[k].closed => k = current \/ (Ends(i) /\ requests[i].rec = k)
    BY <1>3, CalmRecorders DEF FlowInv
  <2>2. r = current \/ Ends(i)
    BY <1>3, <1>5, CalmRecorders DEF FlowInv
  <2>3. Ends(i) => current = 0
    BY DEF Calm
  <2>4. k # 0 /\ r # 0
    BY RecorderFacts DEF FlowInv
  <2> QED
    BY <1>2, <1>6, <2>1, <2>2, <2>3, <2>4
<1>7. ~Settles
  BY <1>2, <1>4, Sizes DEF Settles
<1>8. recorders[r].state = "ready"
  BY <1>1, RecorderFacts DEF FlowInv, RecordersOK
<1>9. log' = Append(log, item) \/ item.line \in failed'
  BY <1>1, <1>5 DEF Logged
<1> QED
  BY <1>1, <1>4, <1>5, <1>6, <1>7, <1>8, <1>9 DEF runnerVars, lost

(* The row of a job as its recorder writes it.                             *)
Written(j, job, n) ==
  /\ j \in Jobs /\ job \in JobStates /\ job.row = n
  /\ RowOf(j) = {} => n = Len(rows) + 1
  /\ RowOf(j) # {} => n \in RowOf(j)
  /\ DOMAIN rows' = DOMAIN rows \cup {n}
  /\ rows'[n] = [job |-> j, status |-> job.status, steps |-> job.steps]
  /\ \A k \in DOMAIN rows : k # n => rows'[k] = rows[k]

LEMMA PersistWritten ==
  ASSUME Types, NEW j \in Jobs, NEW job \in JobStates, rows' = Persist(rows, j, job),
         RowOf(j) = {} => job.row = Len(rows) + 1, RowOf(j) # {} => job.row \in RowOf(j)
  PROVE  Written(j, job, job.row)
<1>1. Len(rows) \in Nat /\ DOMAIN rows = 1..Len(rows) /\ RowOf(j) \subseteq DOMAIN rows
  BY RowFacts DEF RowOf
<1>2. job.row \in Nat \ {0} /\ job.row <= Len(rows) + 1
  BY <1>1
<1>3. RowAt(job) = job.row
  BY <1>1, <1>2 DEF RowAt
<1>4. /\ DOMAIN rows' = DOMAIN rows \cup {job.row}
      /\ rows'[job.row] = [job |-> j, status |-> job.status, steps |-> job.steps]
      /\ \A k \in DOMAIN rows : k # job.row => rows'[k] = rows[k]
  <2>1. job.row # 0 /\ RowAt(job) = job.row
    BY <1>2, <1>3
  <2>2. /\ DOMAIN rows' = DOMAIN rows \cup {RowAt(job)}
        /\ rows'[RowAt(job)] = [job |-> j, status |-> job.status, steps |-> job.steps]
        /\ \A k \in DOMAIN rows : k # RowAt(job) => rows'[k] = rows[k]
    BY <2>1, PersistEffect
  <2> QED
    BY <2>1, <2>2
<1> QED
  BY <1>4 DEF Written

LEMMA TableWritten ==
  ASSUME Types, Table, NEW j, NEW job, NEW n, Written(j, job, n)
  PROVE  /\ \A k, l \in DOMAIN rows' : rows'[k].job = rows'[l].job => k = l
         /\ RowOf(j)' = {n} /\ \A h : h # j => RowOf(h)' = RowOf(h)
<1>1. \A k, l \in DOMAIN rows : rows[k].job = rows[l].job => k = l
  BY DEF Table
<1>2. RowOf(j) \subseteq {n}
  BY <1>1 DEF Written, RowOf
<1>3. \A k \in DOMAIN rows : k = n => rows[k].job = j
  <2>1. CASE RowOf(j) = {}
    <3>1. Len(rows) + 1 \notin DOMAIN rows
      BY RowFacts
    <3> QED
      BY <2>1, <3>1 DEF Written
  <2>2. CASE RowOf(j) # {}
    BY <2>2 DEF Written, RowOf
  <2> QED
    BY <2>1, <2>2
<1>4. \A k \in DOMAIN rows : k # n => rows[k].job # j
  BY <1>2 DEF RowOf
<1>5. rows'[n].job = j /\ DOMAIN rows' = DOMAIN rows \cup {n}
      /\ \A k \in DOMAIN rows : k # n => rows'[k] = rows[k]
  BY DEF Written
<1>6. \A k \in DOMAIN rows' : k # n => k \in DOMAIN rows /\ rows'[k] = rows[k] /\ rows'[k].job # j
  BY <1>4, <1>5
<1>7. \A k, l \in DOMAIN rows' : rows'[k].job = rows'[l].job => k = l
  BY <1>1, <1>5, <1>6
<1>8. RowOf(j)' = {n}
  BY <1>5, <1>6 DEF RowOf
<1>9. ASSUME NEW h, h # j
      PROVE  RowOf(h)' = RowOf(h)
  BY <1>3, <1>5, <1>6, <1>9 DEF RowOf
<1> QED
  BY <1>7, <1>8, <1>9

(* What the recorder of a line takes its job for.                          *)
LEMMA StartedKnown ==
  ASSUME Types, NEW r \in DOMAIN recorders, NEW j \in Jobs, Knows(recorders[r], j),
         NEW started, started = Started(recorders[r], j)
  PROVE  /\ started \in JobStates
         /\ RowOf(j) = {} =>
              \/ started.row = 0 /\ j \in recorders[r].known /\ failed # {} /\ started = recorders[r].jobs[j]
              \/ /\ started.row = Len(rows) + 1 /\ started.row # 0 /\ j \notin recorders[r].known
                 /\ started.status = "in_progress" /\ started.steps = <<>>
         /\ RowOf(j) # {} =>
              /\ j \in recorders[r].known /\ started.row \in RowOf(j)
              /\ started.row # 0 /\ ~(started.row > Len(rows))
              /\ started.status = rows[started.row].status \/ EndFailed(j)
              /\ started.steps = rows[started.row].steps \/ failed # {}
<1>1. started \in JobStates
  BY StartedType
<1>2. /\ StartedJob.row = Len(rows) + 1 /\ StartedJob.row # 0
      /\ StartedJob.status = "in_progress" /\ StartedJob.steps = <<>>
  BY StartedType
<1>3. started = IF j \in recorders[r].known THEN recorders[r].jobs[j] ELSE StartedJob
  BY DEF Started
<1>4. Len(rows) \in Nat /\ DOMAIN rows = 1..Len(rows) /\ RowOf(j) \subseteq DOMAIN rows
  BY RowFacts DEF RowOf
<1>5. CASE RowOf(j) = {}
  BY <1>1, <1>2, <1>3, <1>5 DEF Knows
<1>6. CASE RowOf(j) # {}
  <2>1. /\ j \in recorders[r].known /\ started = recorders[r].jobs[j] /\ started.row \in RowOf(j)
        /\ started.status = rows[started.row].status \/ EndFailed(j)
        /\ started.steps = rows[started.row].steps \/ failed # {}
    BY <1>3, <1>6 DEF Knows
  <2>2. started.row # 0 /\ ~(started.row > Len(rows))
    BY <1>4, <2>1
  <2> QED
    BY <1>1, <1>6, <2>1, <2>2
<1> QED
  BY <1>5, <1>6

LEMMA HandledStatus ==
  ASSUME NEW job \in JobStates, NEW e \in LogEvents, e.event # "end"
  PROVE  Handled(job, e).status = job.status
<1>1. e.event \in {"start", "finish"}
  BY DEF LogEvents
<1>2. CASE e.event = "start"
  <2>1. Handled(job, e) = [job EXCEPT !.steps = Append(job.steps, [key |-> e.step, status |-> "in_progress"])]
    BY <1>2 DEF Handled
  <2> QED
    BY <2>1 DEF JobStates
<1>3. CASE e.event = "finish"
  <2> DEFINE n == LastStep(job.steps, e.step)
  <2>1. Handled(job, e) = IF n = 0 THEN job ELSE [job EXCEPT !.steps[n].status = e.result]
    BY <1>3 DEF Handled
  <2> HIDE DEF n
  <2> QED
    BY <2>1 DEF JobStates
<1> QED
  BY <1>1, <1>2, <1>3

(* After a line, whether its writes succeeded or not, the recorder knows   *)
(* its job as well as it should.                                           *)
LEMMA LineKnown ==
  ASSUME FlowInv, Calm, Table, NEW r \in DOMAIN recorders, NEW item, NEW known, NEW jobs,
         Handles(r, item, known, jobs), item.line # 0, NEW e, e = Script[item.line],
         NEW new, new.known = known, new.jobs = jobs
  PROVE  /\ e.job \in Jobs /\ known = recorders[r].known \cup {e.job} /\ failed \subseteq failed'
         /\ \A h \in Jobs : h # e.job => jobs[h] = recorders[r].jobs[h]
         /\ rows' = rows \/ \E job, n : Written(e.job, job, n)
         /\ Knows(new, e.job)'
<1> DEFINE j == e.job
           started == Started(recorders[r], j)
<1>1. /\ Types /\ item.line \in 1..Len(Script) /\ known = recorders[r].known \cup {j}
      /\ \E job \in JobStates :
           /\ jobs = [recorders[r].jobs EXCEPT ![j] = job]
           /\ \/ failed' = failed /\ Recorded(r, e, job)
              \/ failed' = failed \cup {item.line} /\ Unrecorded(r, e, job)
  <2>1. Types
    BY DEF FlowInv
  <2> QED
    BY <2>1, Zenon DEF Handles
<1>2. PICK job \in JobStates :
        /\ jobs = [recorders[r].jobs EXCEPT ![j] = job]
        /\ \/ failed' = failed /\ Recorded(r, e, job)
           \/ failed' = failed \cup {item.line} /\ Unrecorded(r, e, job)
  BY <1>1
<1>3. e \in LogEvents /\ j \in Jobs
  BY <1>1, EventType
<1>4. Knows(recorders[r], j)
  <2>1. recorders[r].state = "ready" /\ ~recorders[r].closed
    BY CalmHandles
  <2> QED
    BY <1>3, <2>1 DEF Table
<1> HIDE DEF started
<1>5. /\ started \in JobStates
      /\ RowOf(j) = {} =>
           \/ started.row = 0 /\ j \in recorders[r].known /\ failed # {} /\ started = recorders[r].jobs[j]
           \/ /\ started.row = Len(rows) + 1 /\ started.row # 0 /\ j \notin recorders[r].known
              /\ started.status = "in_progress" /\ started.steps = <<>>
      /\ RowOf(j) # {} =>
           /\ j \in recorders[r].known /\ started.row \in RowOf(j)
           /\ started.row # 0 /\ ~(started.row > Len(rows))
           /\ started.status = rows[started.row].status \/ EndFailed(j)
           /\ started.steps = rows[started.row].steps \/ failed # {}
  BY <1>1, <1>3, <1>4, StartedKnown DEF started
<1>6. recorders[r].jobs \in [Jobs -> JobStates]
  BY <1>1, RecorderFacts
<1>7. /\ jobs[j] = job /\ \A h \in Jobs : h # j => jobs[h] = recorders[r].jobs[h]
      /\ j \in known /\ failed \subseteq failed'
  BY <1>1, <1>2, <1>3, <1>6
<1>8. Handled(started, e) \in JobStates /\ Handled(started, e).row = started.row
  BY <1>3, <1>5, HandledType
<1>9. EndFailed(j) => EndFailed(j)'
  BY <1>7 DEF EndFailed, EventOf
<1>10. ASSUME NEW w \in JobStates, NEW n, Written(j, w, n), job.row = n,
              job.status = w.status \/ EndFailed(j)', job.steps = w.steps \/ failed' # {}
       PROVE  Knows(new, j)'
  <2>1. RowOf(j)' = {n}
    BY <1>1, <1>10, TableWritten
  <2>2. rows'[n].status = w.status /\ rows'[n].steps = w.steps
    BY <1>10 DEF Written
  <2> QED
    BY <1>7, <1>10, <2>1, <2>2 DEF Knows
<1>11. ASSUME rows' = rows
       PROVE  RowOf(j)' = RowOf(j)
  BY <1>11 DEF RowOf
<1> HIDE DEF j
<1>12. CASE failed' = failed /\ Recorded(r, e, job)
  <2>1. \/ started.row = 0 /\ job = started /\ rows' = rows
        \/ started.row # 0 /\ job = Handled(started, e) /\ rows' = Persist(rows, j, job)
    BY <1>12 DEF Recorded, started, j
  <2>2. CASE started.row = 0 /\ job = started /\ rows' = rows
    <3>1. RowOf(j) = {} /\ failed # {}
      BY <1>5, <2>2
    <3>2. Knows(new, j)'
      BY <1>7, <1>11, <1>12, <2>2, <3>1 DEF Knows
    <3> QED
      BY <1>1, <1>3, <1>7, <2>2, <3>2 DEF j
  <2>3. CASE started.row # 0 /\ job = Handled(started, e) /\ rows' = Persist(rows, j, job)
    <3>1. Written(j, job, job.row)
      BY <1>1, <1>3, <1>5, <1>8, <2>3, PersistWritten
    <3>2. Knows(new, j)'
      BY <1>10, <3>1
    <3> QED
      BY <1>1, <1>3, <1>7, <3>1, <3>2 DEF j
  <2> QED
    BY <2>1, <2>2, <2>3
<1>13. CASE failed' = failed \cup {item.line} /\ Unrecorded(r, e, job)
  <2>1. failed' # {} /\ item.line \in failed'
    BY <1>13
  <2>2. \/ j \notin recorders[r].known /\ job = Unknown /\ rows' = rows
        \/ /\ started.row # 0 /\ job = Handled(started, e)
           /\ rows' = IF started.row > Len(rows) THEN Persist(rows, j, started) ELSE rows
    BY <1>13 DEF Unrecorded, started, j
  <2>3. ASSUME j \notin recorders[r].known, job = Unknown, rows' = rows
        PROVE  (rows' = rows \/ \E w, n : Written(j, w, n)) /\ Knows(new, j)'
    <3>1. RowOf(j) = {} /\ job.row = 0
      BY <1>5, <2>3 DEF Unknown
    <3>2. Knows(new, j)'
      BY <1>7, <1>11, <2>1, <2>3, <3>1 DEF Knows
    <3> QED
      BY <2>3, <3>2
  <2>4. ASSUME started.row # 0, job = Handled(started, e),
               rows' = IF started.row > Len(rows) THEN Persist(rows, j, started) ELSE rows
        PROVE  (rows' = rows \/ \E w, n : Written(j, w, n)) /\ Knows(new, j)'
    <3>1. job.status = started.status \/ EndFailed(j)'
      <4>1. CASE e.event = "end"
        <5>1. EventOf(item.line, "end", j)
          BY <1>1, <4>1, ScriptAssumption DEF EventOf, j
        <5> QED
          BY <2>1, <5>1 DEF EndFailed, EventOf
      <4>2. CASE e.event # "end"
        BY <1>3, <1>5, <2>4, <4>2, HandledStatus
      <4> QED
        BY <4>1, <4>2
    <3>2. CASE RowOf(j) = {}
      <4>1. started.row = Len(rows) + 1
        BY <1>5, <2>4, <3>2
      <4>2. Len(rows) \in Nat
        BY <1>1, RowFacts
      <4>3. rows' = Persist(rows, j, started)
        BY <2>4, <4>1, <4>2
      <4>4. Written(j, started, started.row)
        BY <1>1, <1>3, <1>5, <3>2, <4>1, <4>3, PersistWritten
      <4>5. Knows(new, j)'
        BY <1>5, <1>8, <1>10, <2>1, <2>4, <3>1, <4>4
      <4> QED
        BY <4>4, <4>5
    <3>3. CASE RowOf(j) # {}
      <4>1. /\ rows' = rows /\ job.row \in RowOf(j) /\ job.row = started.row
            /\ started.status = rows[started.row].status \/ EndFailed(j)
        BY <1>5, <1>8, <2>4, <3>3
      <4>2. RowOf(j)' = RowOf(j)
        BY <1>11, <4>1
      <4>3. job.status = rows'[job.row].status \/ EndFailed(j)'
        BY <1>9, <3>1, <4>1
      <4>4. Knows(new, j)'
        BY <1>7, <2>1, <3>3, <4>1, <4>2, <4>3 DEF Knows
      <4> QED
        BY <4>1, <4>4
    <3> QED
      BY <3>2, <3>3
  <2>5. (rows' = rows \/ \E w, n : Written(j, w, n)) /\ Knows(new, j)'
    BY <2>2, <2>3, <2>4
  <2> QED
    BY <1>1, <1>3, <1>7, <2>5 DEF j
<1> QED
  BY <1>2, <1>12, <1>13

(* As long as no write has failed, the row is what the line makes of it.   *)
Updated(e) ==
  \E old \in JobStates : \E new, n :
    /\ Written(e.job, new, n) /\ new = Handled(old, e)
    /\ IF RowOf(e.job) = {} THEN old.steps = <<>> /\ old.status = "in_progress"
       ELSE old.steps = rows[n].steps /\ old.status = rows[n].status

LEMMA LineWritten ==
  ASSUME FlowInv, Calm, Table, NEW r \in DOMAIN recorders, NEW item, NEW known, NEW jobs,
         Handles(r, item, known, jobs), item.line # 0, NEW e, e = Script[item.line], failed' = {}
  PROVE  Updated(e)
<1> DEFINE j == e.job
           started == Started(recorders[r], j)
<1>1. /\ Types /\ item.line \in 1..Len(Script)
      /\ \E job \in JobStates :
           \/ failed' = failed /\ Recorded(r, e, job)
           \/ failed' = failed \cup {item.line} /\ Unrecorded(r, e, job)
  <2>1. Types
    BY DEF FlowInv
  <2> QED
    BY <2>1, Zenon DEF Handles
<1>2. PICK job \in JobStates : Recorded(r, e, job) /\ failed = {}
  BY <1>1
<1>3. e \in LogEvents /\ j \in Jobs
  BY <1>1, EventType
<1>4. Knows(recorders[r], j)
  <2>1. recorders[r].state = "ready" /\ ~recorders[r].closed
    BY CalmHandles
  <2> QED
    BY <1>3, <2>1 DEF Table
<1>5. ~EndFailed(j)
  BY <1>2 DEF EndFailed
<1> HIDE DEF started
<1>6. /\ started \in JobStates
      /\ RowOf(j) = {} => /\ started.row = Len(rows) + 1 /\ started.row # 0
                          /\ started.status = "in_progress" /\ started.steps = <<>>
      /\ RowOf(j) # {} =>
           /\ started.row \in RowOf(j) /\ started.row # 0
           /\ started.status = rows[started.row].status
           /\ started.steps = rows[started.row].steps
  BY <1>1, <1>2, <1>3, <1>4, <1>5, StartedKnown DEF started
<1>7. started.row # 0
  BY <1>6
<1>8. job = Handled(started, e) /\ rows' = Persist(rows, j, job)
  BY <1>2, <1>7 DEF Recorded, started, j
<1>9. job.row = started.row
  BY <1>3, <1>6, <1>8, HandledType
<1> HIDE DEF j
<1>10. Written(j, job, job.row)
  BY <1>1, <1>3, <1>6, <1>8, <1>9, PersistWritten
<1>11. IF RowOf(j) = {} THEN started.steps = <<>> /\ started.status = "in_progress"
       ELSE started.steps = rows[job.row].steps /\ started.status = rows[job.row].status
  BY <1>6, <1>9
<1>12. started \in JobStates
  BY <1>6
<1> QED
  BY <1>8, <1>10, <1>11, <1>12 DEF j, Updated

(* The rows as finish() would leave them: what ran has failed, what had    *)
(* ended is as it was, and a job that never started has a row of its own.  *)
LEMMA SettledWell ==
  ASSUME Types, Table, NEW r \in DOMAIN recorders, recorders[r].state = "ready", ~recorders[r].closed,
         NEW S, S = SettledRows(r)
  PROVE  /\ DOMAIN rows \subseteq DOMAIN S
         /\ \A n \in DOMAIN rows :
              /\ S[n].job = rows[n].job
              /\ S[n].status # "in_progress" \/ EndFailed(rows[n].job)
              /\ failed = {} =>
                   \/ S[n] = rows[n]
                   \/ /\ DOMAIN S[n].steps = DOMAIN rows[n].steps
                      /\ \A k \in DOMAIN rows[n].steps : /\ S[n].steps[k].key = rows[n].steps[k].key
                                                         /\ S[n].steps[k].status # "in_progress"
         /\ \A n \in DOMAIN S \ DOMAIN rows :
              RowOf(S[n].job) = {} /\ S[n].status = "skipped" /\ S[n].steps = <<>>
         /\ \A m, n \in DOMAIN S : S[m].job = S[n].job => m = n
<1> DEFINE jobs == recorders[r].jobs
<1>1. /\ \A m, n \in DOMAIN rows : rows[m].job = rows[n].job => m = n
      /\ \A j \in Jobs : Knows(recorders[r], j)
      /\ jobs \in [Jobs -> JobStates]
  BY RecorderFacts DEF Table
<1>2. /\ DOMAIN rows \subseteq DOMAIN S
      /\ \A n \in DOMAIN rows :
           S[n] = IF jobs[rows[n].job].row = n /\ jobs[rows[n].job].status = "in_progress"
                    THEN [job |-> rows[n].job, status |-> Settled(jobs[rows[n].job]).status,
                          steps |-> Settled(jobs[rows[n].job]).steps]
                    ELSE rows[n]
      /\ \A n \in DOMAIN S \ DOMAIN rows :
           S[n].job \in NeverStarted(r) /\ S[n].status = "skipped" /\ S[n].steps = <<>>
      /\ \A m, n \in DOMAIN S \ DOMAIN rows : S[m].job = S[n].job => m = n
  BY SettledRowsFacts
<1>3. \A j \in NeverStarted(r) : RowOf(j) = {}
  <2>1. \A j \in Jobs : RowOf(j) # {} => jobs[j].row \in DOMAIN rows
    BY <1>1 DEF Knows, RowOf
  <2>2. 0 \notin DOMAIN rows
    BY RowFacts
  <2> QED
    BY <2>1, <2>2 DEF NeverStarted
<1>4. ASSUME NEW n \in DOMAIN rows
      PROVE  /\ S[n].job = rows[n].job
             /\ S[n].status # "in_progress" \/ EndFailed(rows[n].job)
             /\ failed = {} =>
                  \/ S[n] = rows[n]
                  \/ /\ DOMAIN S[n].steps = DOMAIN rows[n].steps
                     /\ \A k \in DOMAIN rows[n].steps : /\ S[n].steps[k].key = rows[n].steps[k].key
                                                        /\ S[n].steps[k].status # "in_progress"
  <2> DEFINE j == rows[n].job
             job == jobs[j]
  <2>1. j \in Jobs /\ n \in RowOf(j) /\ n # 0
    BY RowFacts DEF RowOf
  <2>2. job.row \in RowOf(j) /\ (job.status = rows[job.row].status \/ EndFailed(j))
        /\ (job.steps = rows[job.row].steps \/ failed # {})
    BY <1>1, <2>1 DEF Knows
  <2>3. job.row = n
    BY <1>1, <2>1, <2>2 DEF RowOf
  <2>4. job \in JobStates
    BY <1>1, <2>1
  <2>5. S[n] = IF job.status = "in_progress"
                 THEN [job |-> j, status |-> Settled(job).status, steps |-> Settled(job).steps]
                 ELSE rows[n]
    BY <1>2, <2>3
  <2> HIDE DEF jobs, job
  <2>6. CASE job.status = "in_progress"
    <3>1. /\ Settled(job).status # "in_progress" /\ DOMAIN Settled(job).steps = DOMAIN job.steps
          /\ \A k \in DOMAIN job.steps : /\ Settled(job).steps[k].key = job.steps[k].key
                                         /\ Settled(job).steps[k].status # "in_progress"
      BY <2>1, <2>3, <2>4, <2>6, SettledFacts
    <3>2. S[n].job = j /\ S[n].status = Settled(job).status /\ S[n].steps = Settled(job).steps
      BY <2>5, <2>6
    <3>3. failed = {} => rows[n].steps = job.steps
      BY <2>2, <2>3
    <3> QED
      BY <3>1, <3>2, <3>3
  <2>7. CASE job.status # "in_progress"
    <3>1. S[n] = rows[n]
      BY <2>5, <2>7
    <3>2. rows[n].status # "in_progress" \/ EndFailed(j)
      BY <2>2, <2>3, <2>7
    <3> QED
      BY <3>1, <3>2
  <2> QED
    BY <2>6, <2>7
<1>5. \A n \in DOMAIN S \ DOMAIN rows : RowOf(S[n].job) = {}
  BY <1>2, <1>3
<1>6. ASSUME NEW m \in DOMAIN S, NEW n \in DOMAIN S, S[m].job = S[n].job
      PROVE  m = n
  <2>1. \A k \in DOMAIN rows, l \in DOMAIN S \ DOMAIN rows : S[k].job # S[l].job
    BY <1>4, <1>5 DEF RowOf
  <2>2. \A k, l \in DOMAIN rows : S[k].job = S[l].job => k = l
    BY <1>1, <1>4
  <2> QED
    BY <1>2, <1>6, <2>1, <2>2
<1> QED
  BY <1>2, <1>4, <1>5, <1>6

(* The rows it leaves when it fails are some of these and some as before.  *)
LEMMA FinishedRows ==
  ASSUME Types, NEW i \in Slots, FinishRows(i) \/ FinishRowsFails(i), NEW S, S = SettledRows(requests[i].rec),
         requests[i].rec \in DOMAIN recorders
  PROVE  /\ DOMAIN rows \subseteq DOMAIN rows' /\ DOMAIN rows' \subseteq DOMAIN S
         /\ \A n \in DOMAIN rows' : rows'[n] = S[n] \/ (n \in DOMAIN rows /\ rows'[n] = rows[n])
         /\ FinishRows(i) => rows' = S
<1>1. S \in Seq(Rows) /\ DOMAIN rows \subseteq DOMAIN S /\ Len(rows) \in Nat /\ DOMAIN rows = 1..Len(rows)
  BY SettledRowsFacts, RowFacts
<1>2. Len(S) \in Nat /\ DOMAIN S = 1..Len(S)
  BY <1>1, LenProperties
<1>3. ASSUME FinishRows(i)
      PROVE  rows' = S
  BY <1>3 DEF FinishRows
<1>4. ASSUME FinishRowsFails(i)
      PROVE  /\ DOMAIN rows \subseteq DOMAIN rows' /\ DOMAIN rows' \subseteq DOMAIN S
             /\ \A n \in DOMAIN rows' : rows'[n] = S[n] \/ (n \in DOMAIN rows /\ rows'[n] = rows[n])
  <2> DEFINE r == requests[i].rec
             all == SettledRows(r)
  <2>1. \E left \in SUBSET DOMAIN rows, m \in Len(rows)..Len(all) :
          \E at \in IF left = {} THEN {0} ELSE left :
            /\ left = {} \/ m = Len(rows)
            /\ rows' = [n \in 1..m |-> IF n \in left THEN rows[n] ELSE all[n]]
            /\ recorders' = [recorders EXCEPT ![r].closed = TRUE,
                 ![r].jobs = [j \in Jobs |-> IF recorders[r].jobs[j].row \in left \ {at}
                                              THEN recorders[r].jobs[j]
                                              ELSE Settled(recorders[r].jobs[j])]]
    BY <1>4, Zenon DEF FinishRowsFails
  <2>5. PICK left \in SUBSET DOMAIN rows, m \in Len(rows)..Len(all) :
          \E at \in IF left = {} THEN {0} ELSE left :
            /\ left = {} \/ m = Len(rows)
            /\ rows' = [n \in 1..m |-> IF n \in left THEN rows[n] ELSE all[n]]
            /\ recorders' = [recorders EXCEPT ![r].closed = TRUE,
                 ![r].jobs = [j \in Jobs |-> IF recorders[r].jobs[j].row \in left \ {at}
                                              THEN recorders[r].jobs[j]
                                              ELSE Settled(recorders[r].jobs[j])]]
    BY <2>1, Zenon
  <2>6. rows' = [n \in 1..m |-> IF n \in left THEN rows[n] ELSE all[n]]
    BY <2>5, Zenon
  <2> HIDE DEF all
  <2>7. all = S
    BY DEF all
  <2>2. /\ left \subseteq DOMAIN rows /\ m \in Len(rows)..Len(S)
        /\ rows' = [n \in 1..m |-> IF n \in left THEN rows[n] ELSE S[n]]
    BY <2>5, <2>6, <2>7
  <2>3. 1..Len(rows) \subseteq 1..m /\ 1..m \subseteq 1..Len(S)
    BY <1>1, <1>2, <2>2
  <2>4. DOMAIN rows' = 1..m
    BY <2>2
  <2> QED
    BY <1>1, <1>2, <2>2, <2>3, <2>4
<1> QED
  BY <1>1, <1>3, <1>4

(* After finish(), whether its writes succeeded or not.                    *)
LEMMA FinishEffect ==
  ASSUME FlowInv, Calm, Table, NEW i \in Slots, FinishRows(i) \/ FinishRowsFails(i)
  PROVE  /\ DOMAIN rows \subseteq DOMAIN rows'
         /\ \A n \in DOMAIN rows :
              /\ rows'[n].job = rows[n].job
              /\ FinishRows(i) => rows'[n].status # "in_progress" \/ EndFailed(rows[n].job)
              /\ failed = {} =>
                   \/ rows'[n] = rows[n]
                   \/ /\ DOMAIN rows'[n].steps = DOMAIN rows[n].steps
                      /\ \A k \in DOMAIN rows[n].steps : /\ rows'[n].steps[k].key = rows[n].steps[k].key
                                                         /\ rows'[n].steps[k].status # "in_progress"
         /\ \A n \in DOMAIN rows' \ DOMAIN rows :
              RowOf(rows'[n].job) = {} /\ rows'[n].status = "skipped" /\ rows'[n].steps = <<>>
         /\ \A m, n \in DOMAIN rows' : rows'[m].job = rows'[n].job => m = n
         /\ \A s \in DOMAIN recorders' : recorders'[s].closed
<1> DEFINE r == requests[i].rec
           S == SettledRows(r)
<1>1. Types /\ RequestsOK
  BY DEF FlowInv
<1>2. PICK jobs : Finishing(i, jobs)
  BY <1>1, FinishingEffect
<1> DEFINE new == [recorders[r] EXCEPT !.closed = TRUE, !.jobs = jobs]
<1>3. /\ requests[i].kind = "complete" /\ Drained(i) /\ r \in DOMAIN recorders
      /\ recorders[r].state = "ready" /\ Changed(r, new)
  BY <1>2, Zenon DEF Finishing, Changed
<1>4. new.closed
  BY <1>1, <1>3, RecorderFacts DEF Recorders
<1> HIDE DEF new
<1>5. requests[i].stage = "wait" /\ requests[i] # Free /\ ~recorders[r].closed
  BY <1>3, Sizes DEF Drained, Calm
<1>6. current = 0 /\ \A s \in DOMAIN recorders : s # r => recorders[s].closed
  <2>1. current = 0
    BY <1>3, <1>5 DEF Calm, Ends
  <2>2. \A s \in DOMAIN recorders : s # 0
    BY <1>1, RecorderFacts
  <2> QED
    BY <1>1, <1>5, <2>1, <2>2, CalmRecorders
<1>7. \A s \in DOMAIN recorders' : recorders'[s].closed
  <2>1. /\ DOMAIN recorders' = DOMAIN recorders /\ recorders'[r] = new
        /\ \A s \in DOMAIN recorders : s # r => recorders'[s] = recorders[s]
    BY <1>1, <1>3, ChangedFacts
  <2> QED
    BY <1>4, <1>6, <2>1
<1>8. /\ DOMAIN rows \subseteq DOMAIN S
      /\ \A n \in DOMAIN rows :
           /\ S[n].job = rows[n].job
           /\ S[n].status # "in_progress" \/ EndFailed(rows[n].job)
           /\ failed = {} =>
                \/ S[n] = rows[n]
                \/ /\ DOMAIN S[n].steps = DOMAIN rows[n].steps
                   /\ \A k \in DOMAIN rows[n].steps : /\ S[n].steps[k].key = rows[n].steps[k].key
                                                      /\ S[n].steps[k].status # "in_progress"
      /\ \A n \in DOMAIN S \ DOMAIN rows :
           RowOf(S[n].job) = {} /\ S[n].status = "skipped" /\ S[n].steps = <<>>
      /\ \A m, n \in DOMAIN S : S[m].job = S[n].job => m = n
  BY <1>1, <1>3, <1>5, SettledWell
<1>9. /\ DOMAIN rows \subseteq DOMAIN rows' /\ DOMAIN rows' \subseteq DOMAIN S
      /\ \A n \in DOMAIN rows' : rows'[n] = S[n] \/ (n \in DOMAIN rows /\ rows'[n] = rows[n])
      /\ FinishRows(i) => rows' = S
  BY <1>1, <1>3, FinishedRows
<1> HIDE DEF S, r
<1>10. \A n \in DOMAIN rows' : rows'[n].job = S[n].job
  BY <1>8, <1>9
<1>11. \A m, n \in DOMAIN rows' : rows'[m].job = rows'[n].job => m = n
  BY <1>8, <1>9, <1>10
<1>12. \A n \in DOMAIN rows' \ DOMAIN rows : rows'[n] = S[n] /\ n \in DOMAIN S \ DOMAIN rows
  BY <1>9
<1>13. \A n \in DOMAIN rows : FinishRows(i) => rows'[n].status # "in_progress" \/ EndFailed(rows[n].job)
  BY <1>8, <1>9
<1>14. \A n \in DOMAIN rows : failed = {} =>
           \/ rows'[n] = rows[n]
           \/ /\ DOMAIN rows'[n].steps = DOMAIN rows[n].steps
              /\ \A k \in DOMAIN rows[n].steps : /\ rows'[n].steps[k].key = rows[n].steps[k].key
                                                 /\ rows'[n].steps[k].status # "in_progress"
  BY <1>8, <1>9
<1> QED
  BY <1>7, <1>8, <1>9, <1>10, <1>11, <1>12, <1>13, <1>14

(* The run is over, or about to be, only after that.                       *)
LEMMA NewlySettled ==
  ASSUME FlowInv, Calm, [Next]_vars, ~(over \/ Settles), \A i \in Slots : ~FinishRows(i)
  PROVE  ~(over' \/ Settles')
<1>1. Types /\ RequestsOK /\ RecordersOK /\ requests \in [Slots -> Requests]
  BY DEF FlowInv, Types
<1>2. CASE Idles \/ PrintLine
  BY <1>2 DEF Idles, PrintLine, serverVars, Settles
<1>3. CASE Flushes
  <2>1. PICK i \in Slots : requests' = [requests EXCEPT ![i] = NewRequest("events", batch')]
          /\ over' = over
    BY <1>3 DEF Flushes, Flushed, serverVars
  <2> QED
    BY <1>1, <2>1 DEF NewRequest, Settles
<1>4. CASE Loses
  <2>1. over' = over
        /\ \A k \in Slots : requests'[k] = Free \/ requests'[k] = [requests[k] EXCEPT !.live = FALSE]
    BY <1>1, <1>4, LosesEffect DEF Lost, Dropped
  <2>2. ASSUME NEW k \in Slots
        PROVE  requests'[k].stage # "settled"
    <3>1. [requests[k] EXCEPT !.live = FALSE].stage = requests[k].stage /\ requests[k].stage # "settled"
      BY <1>1 DEF Requests, Settles
    <3>2. Free.stage # "settled"
      BY Sizes
    <3> QED
      BY <2>1, <3>1, <3>2
  <2> QED
    BY <2>1, <2>2 DEF Settles
<1>5. ASSUME NEW i \in Slots, Answers(i)
      PROVE  ~(over' \/ Settles')
  <2>1. ~over'
    <3>1. requests[i].stage # "settled"
      BY DEF Settles
    <3>2. requests[i].stage = "read" /\ requests[i].rec # 0 => recorders[requests[i].rec].state # "null"
      BY <1>1, RecOf DEF RecordersOK
    <3>3. requests[i] # Free => requests[i].live
      BY DEF Calm
    <3> QED
      BY <1>5, <3>1, <3>2, <3>3 DEF Answers
  <2>2. \/ requests' = [requests EXCEPT ![i] = NewRequest("events", batch')]
        \/ requests' = [requests EXCEPT ![i] = NewRequest("complete", <<>>)]
        \/ requests' = [requests EXCEPT ![i] = Free]
    BY <1>1, <1>5, AnswerEffect DEF Answers, Ignored, NextBatch, NextResult, NextNothing, ResultTaken
  <2> QED
    BY <1>1, <2>1, <2>2, Sizes DEF NewRequest, Settles
<1>6. ASSUME NEW i \in Slots, Accepts(i) \/ Open(i) \/ Takes(i) \/ Detaches(i)
      PROVE  ~(over' \/ Settles')
  <2>1. Progress(i)
    BY <1>1, <1>6, ProgressEffect
  <2>2. requests[i] \in Requests /\ requests[i].stage # "settled"
    BY <1>1 DEF Settles
  <2>3. ASSUME Accepts(i)
        PROVE  requests'[i].stage # "settled"
    <3>1. requests'[i] = [requests[i] EXCEPT !.stage = "read"]
      BY <1>1, <2>3 DEF Accepts
    <3> QED
      BY <2>2, <3>1 DEF Requests
  <2>4. ASSUME Open(i)
        PROVE  requests'[i].stage # "settled"
    <3>1. PICK r : requests'[i] = [requests[i] EXCEPT !.rec = r]
      BY <1>1, <2>4 DEF Open
    <3> QED
      BY <2>2, <3>1 DEF Requests
  <2>5. ASSUME Takes(i) \/ Detaches(i)
        PROVE  requests'[i].stage # "settled"
    <3>1. \E n : requests' = [requests EXCEPT ![i].stage = "wait", ![i].until = n]
      <4>1. CASE Takes(i)
        BY <4>1, Zenon DEF Takes
      <4>2. CASE Detaches(i)
        BY <4>2, Zenon DEF Detaches
      <4> QED
        BY <2>5, <4>1, <4>2
    <3>2. PICK n : requests' = [requests EXCEPT ![i].stage = "wait", ![i].until = n]
      BY <3>1
    <3>3. requests'[i] = [requests[i] EXCEPT !.stage = "wait", !.until = n]
      BY <1>1, <3>2
    <3> QED
      BY <2>2, <3>3 DEF Requests
  <2>6. requests'[i].stage # "settled"
    BY <1>6, <2>3, <2>4, <2>5
  <2> QED
    BY <2>1, <2>6 DEF Progress, Settles
<1>7. ASSUME NEW r \in DOMAIN recorders, Records(r)
      PROVE  ~(over' \/ Settles')
  <2>1. UNCHANGED <<over, requests>>
    BY <1>7, Zenon DEF Records, Resume, ResumeFails, HandleLine, HandleFails
  <2> QED
    BY <2>1 DEF Settles
<1> QED
  BY <1>1, <1>2, <1>3, <1>4, <1>5, <1>6, <1>7, StepKinds

(* Rows change when a line is handled, or the result taken.                *)
LEMMA RowsKept ==
  ASSUME FlowInv, Calm, [Next]_vars
  PROVE  \/ UNCHANGED <<rows, log, failed>>
         \/ \E i \in Slots : (FinishRows(i) \/ FinishRowsFails(i)) /\ UNCHANGED <<log, failed>>
         \/ \E r \in DOMAIN recorders : HandleLine(r) \/ HandleFails(r)
<1>1. Types /\ RequestsOK /\ RecordersOK
  BY DEF FlowInv
<1>2. CASE Idles \/ PrintLine \/ Flushes
  BY <1>2 DEF Idles, PrintLine, Flushes, serverVars
<1>3. CASE Fault
  BY <1>3 DEF Fault, Fail, Abandon, Restart, serverVars
<1>4. ASSUME NEW i \in Slots, Accepts(i) \/ Open(i) \/ Takes(i) \/ Detaches(i)
      PROVE  UNCHANGED <<rows, log, failed>>
  BY <1>4 DEF Accepts, Open, Takes, Detaches, serverVars
<1>5. ASSUME NEW i \in Slots, Answers(i)
      PROVE  UNCHANGED <<rows, log, failed>>
  <2>1. requests[i] # Free => requests[i].live
    BY DEF Calm
  <2> QED
    BY <1>5, <2>1 DEF Answers
<1>6. ASSUME NEW r \in DOMAIN recorders, Resume(r) \/ ResumeFails(r)
      PROVE  UNCHANGED <<rows, log, failed>>
  BY <1>6, Zenon DEF Resume, ResumeFails
<1>7. ASSUME NEW i \in Slots, FinishRows(i) \/ FinishRowsFails(i)
      PROVE  UNCHANGED <<log, failed>>
  BY <1>7, Zenon DEF FinishRows, FinishRowsFails
<1>8. ASSUME NEW i \in Slots, Refuses(i)
      PROVE  UNCHANGED <<rows, log, failed>> \/ FinishRowsFails(i)
  BY <1>8 DEF Refuses
<1> QED
  BY <1>1, <1>2, <1>3, <1>4, <1>5, <1>6, <1>7, <1>8, StepKinds DEF Loses, Records

LEMMA TableStep ==
  ASSUME FlowInv, CalmOK, TableOK, [Next]_vars
  PROVE  TableOK'
<1>1. Types /\ RequestsOK /\ RecordersOK
  BY DEF FlowInv
<1> SUFFICES ASSUME ~abandoned'
             PROVE  Table'
  BY DEF TableOK
<1>2. Calm /\ Table
  BY CalmStep DEF CalmOK, TableOK
<1>3. ASSUME UNCHANGED <<rows, failed>>, \A i \in Slots : ~FinishRows(i),
             \A r \in DOMAIN recorders' :
               recorders'[r].state = "ready" /\ ~recorders'[r].closed =>
                 /\ r \in DOMAIN recorders /\ recorders[r].state = "ready" /\ ~recorders[r].closed
                 /\ recorders'[r].jobs = recorders[r].jobs /\ recorders'[r].known = recorders[r].known
      PROVE  Table'
  BY <1>2, <1>3, NewlySettled, TableQuiet
<1>4. ASSUME NEW i \in Slots, FinishRows(i) \/ FinishRowsFails(i)
      PROVE  Table'
  <2>1. /\ DOMAIN rows \subseteq DOMAIN rows'
        /\ \A n \in DOMAIN rows :
             /\ rows'[n].job = rows[n].job
             /\ FinishRows(i) => rows'[n].status # "in_progress" \/ EndFailed(rows[n].job)
        /\ \A n \in DOMAIN rows' \ DOMAIN rows : rows'[n].status = "skipped"
        /\ \A m, n \in DOMAIN rows' : rows'[m].job = rows'[n].job => m = n
        /\ \A r \in DOMAIN recorders' : recorders'[r].closed
    BY <1>2, <1>4, FinishEffect
  <2>2. (over \/ Settles => \A n \in DOMAIN rows :
           rows[n].status # "in_progress" \/ EndFailed(rows[n].job))'
    <3>1. CASE FinishRows(i)
      <4>1. failed' = failed
        BY <3>1 DEF FinishRows
      <4>2. \A n \in DOMAIN rows' :
              rows'[n].status # "in_progress" \/ \E e \in failed : EventOf(e, "end", rows'[n].job)
        BY <2>1, <3>1 DEF EndFailed
      <4> QED
        BY <4>1, <4>2 DEF EndFailed, EventOf
    <3>2. CASE FinishRowsFails(i)
      <4>1. over' = over /\ requests' = [requests EXCEPT ![i] = Free]
            /\ requests[i].kind = "complete" /\ requests[i].stage = "wait"
        BY <3>2, Zenon DEF FinishRowsFails, Refuse, Drained
      <4>2. ~over /\ \A k \in Slots : k # i => requests[k] = Free
        BY <1>1, <1>2, <4>1, OnlyOne, Sizes
      <4>3. \A k \in Slots : requests'[k] = Free
        BY <1>1, <4>1, <4>2 DEF Types
      <4> QED
        BY <4>1, <4>2, <4>3, Sizes DEF Settles
    <3> QED
      BY <1>4, <3>1, <3>2
  <2> QED
    BY <2>1, <2>2 DEF Table
<1>5. ASSUME NEW r \in DOMAIN recorders, HandleLine(r) \/ HandleFails(r)
      PROVE  Table'
  <2>1. PICK item, known, jobs : Handles(r, item, known, jobs)
    BY <1>1, <1>5, HandleLineEffect
  <2>2. /\ recorders[r].state = "ready" /\ ~recorders[r].closed
        /\ \A k \in DOMAIN recorders : k # r => recorders[k].closed
        /\ ~over /\ ~Settles /\ UNCHANGED <<requests, over>>
    BY <1>2, <2>1, CalmHandles
  <2>3. ~over' /\ ~Settles'
    BY <2>2 DEF Settles
  <2>4. PICK new : /\ Changed(r, new) /\ new.state = recorders[r].state
                   /\ new.closed = recorders[r].closed /\ new.known = known /\ new.jobs = jobs
    BY <1>1, <2>1, HandlesChanges
  <2>5. /\ DOMAIN recorders' = DOMAIN recorders /\ recorders'[r] = new
        /\ \A k \in DOMAIN recorders : k # r => recorders'[k] = recorders[k]
    BY <1>1, <2>4, ChangedFacts
  <2>6. \A j \in Jobs : Knows(recorders[r], j)
    BY <1>2, <2>2 DEF Table
  <2>7. CASE item.line = 0
    <3>1. UNCHANGED <<rows, failed>> /\ jobs = recorders[r].jobs /\ known = recorders[r].known
      BY <2>1, <2>7 DEF Handles
    <3>2. over' \/ Settles' => over \/ Settles
      BY <2>3
    <3>3. \A k \in DOMAIN recorders' :
            recorders'[k].state = "ready" /\ ~recorders'[k].closed =>
              /\ k \in DOMAIN recorders /\ recorders[k].state = "ready" /\ ~recorders[k].closed
              /\ recorders'[k].jobs = recorders[k].jobs /\ recorders'[k].known = recorders[k].known
      BY <2>2, <2>4, <2>5, <3>1
    <3> QED
      BY <1>2, <3>1, <3>2, <3>3, TableQuiet
  <2>8. CASE item.line # 0
    <3>1. PICK e : e = Script[item.line]
      OBVIOUS
    <3> DEFINE j == e.job
    <3>2. /\ j \in Jobs /\ known = recorders[r].known \cup {j} /\ failed \subseteq failed'
          /\ \A h \in Jobs : h # j => jobs[h] = recorders[r].jobs[h]
          /\ rows' = rows \/ \E job, n : Written(j, job, n)
          /\ Knows(new, j)'
      BY <1>2, <2>1, <2>4, <2>8, <3>1, LineKnown
    <3> HIDE DEF j
    <3>3. /\ \A k, l \in DOMAIN rows' : rows'[k].job = rows'[l].job => k = l
          /\ \A h : h # j => RowOf(h)' = RowOf(h) /\ \A k \in RowOf(h) : rows'[k] = rows[k]
      <4>1. CASE rows' = rows
        BY <1>2, <4>1 DEF Table, RowOf
      <4>2. ASSUME NEW job, NEW n, Written(j, job, n)
            PROVE  /\ \A k, l \in DOMAIN rows' : rows'[k].job = rows'[l].job => k = l
                   /\ \A h : h # j => RowOf(h)' = RowOf(h) /\ \A k \in RowOf(h) : rows'[k] = rows[k]
        <5>1. /\ \A k, l \in DOMAIN rows' : rows'[k].job = rows'[l].job => k = l
              /\ RowOf(j)' = {n} /\ \A h : h # j => RowOf(h)' = RowOf(h)
          BY <1>1, <1>2, <4>2, TableWritten
        <5>2. ASSUME NEW h, h # j, NEW k \in RowOf(h)
              PROVE  rows'[k] = rows[k]
          <6>1. k \in DOMAIN rows /\ k \in RowOf(h)'
            BY <5>1, <5>2 DEF RowOf
          <6>2. k # n
            <7>1. rows'[k].job = h
              BY <6>1 DEF RowOf
            <7>2. rows'[n].job = j
              BY <4>2 DEF Written
            <7> QED
              BY <5>2, <7>1, <7>2
          <6> QED
            BY <4>2, <6>1, <6>2 DEF Written
        <5> QED
          BY <5>1, <5>2
      <4> QED
        BY <3>2, <4>1, <4>2
    <3>4. ASSUME NEW h \in Jobs, h # j
          PROVE  Knows(new, h)'
      <4>1. Knows(recorders[r], h) /\ new.jobs[h] = recorders[r].jobs[h]
            /\ (h \in new.known <=> h \in recorders[r].known)
        BY <2>4, <2>6, <3>2, <3>4
      <4>2. RowOf(h)' = RowOf(h) /\ \A k \in RowOf(h) : rows'[k] = rows[k]
        BY <3>3, <3>4
      <4>3. (failed # {} => failed' # {}) /\ (EndFailed(h) => EndFailed(h)')
        BY <3>2 DEF EndFailed, EventOf
      <4> QED
        BY <4>1, <4>2, <4>3 DEF Knows
    <3>5. \A h \in Jobs : Knows(new, h)'
      BY <3>2, <3>4
    <3>6. \A k \in DOMAIN recorders' : recorders'[k].state = "ready" /\ ~recorders'[k].closed =>
            \A h \in Jobs : Knows(recorders[k], h)'
      <4>1. ASSUME NEW k \in DOMAIN recorders', ~recorders'[k].closed, NEW h \in Jobs
            PROVE  Knows(recorders[k], h)'
        <5>1. k = r /\ recorders'[k] = new
          BY <2>2, <2>5, <4>1
        <5>2. Knows(new, h)'
          BY <3>5
        <5> QED
          BY <5>1, <5>2 DEF Knows
      <4> QED
        BY <4>1
    <3> QED
      BY <2>3, <3>3, <3>6 DEF Table
  <2> QED
    BY <2>7, <2>8
<1>6. ASSUME NEW r \in DOMAIN recorders, Resume(r)
      PROVE  Table'
  <2>1. PICK new : /\ Changed(r, new) /\ new.closed = recorders[r].closed
                   /\ new.known = { j \in Jobs : RowOf(j) # {} }
                   /\ new.jobs = [j \in Jobs |-> Remembered(j)]
    BY <1>1, <1>6, ResumeChanges
  <2>2. /\ DOMAIN recorders' = DOMAIN recorders /\ recorders'[r] = new
        /\ \A k \in DOMAIN recorders : k # r => recorders'[k] = recorders[k]
    BY <1>1, <2>1, ChangedFacts
  <2>3. UNCHANGED <<rows, requests, over, failed>>
    BY <1>6, Zenon DEF Resume
  <2>4. ASSUME NEW j \in Jobs
        PROVE  Knows(new, j)
    <3>1. new.jobs[j] = Remembered(j) /\ (j \in new.known <=> RowOf(j) # {})
      BY <2>1
    <3> QED
      BY <1>1, <3>1, RememberedFacts DEF Knows, Unknown
  <2>5. ASSUME NEW k \in DOMAIN recorders', recorders'[k].state = "ready", ~recorders'[k].closed,
               NEW j \in Jobs
        PROVE  Knows(recorders[k], j)'
    <3>1. RowOf(j)' = RowOf(j) /\ (EndFailed(j)' <=> EndFailed(j))
      BY <2>3 DEF RowOf, EndFailed, EventOf
    <3>2. Knows(recorders'[k], j)
      BY <1>2, <2>2, <2>4, <2>5 DEF Table
    <3> QED
      BY <2>3, <3>1, <3>2 DEF Knows
  <2>6. (over \/ Settles => \A n \in DOMAIN rows :
           rows[n].status # "in_progress" \/ EndFailed(rows[n].job))'
    <3>1. over \/ Settles => \A n \in DOMAIN rows :
            rows[n].status # "in_progress" \/ \E e \in failed : EventOf(e, "end", rows[n].job)
      BY <1>2 DEF Table, EndFailed
    <3> QED
      BY <2>3, <3>1 DEF Settles, EndFailed, EventOf
  <2> QED
    BY <1>2, <2>3, <2>5, <2>6 DEF Table
<1>7. ASSUME NEW r \in DOMAIN recorders, ResumeFails(r), \A i \in Slots : ~FinishRows(i)
      PROVE  Table'
  <2>1. PICK new : Changed(r, new) /\ new.state = "rejected"
    BY <1>1, <1>7, ResumeFailsChanges
  <2>2. /\ DOMAIN recorders' = DOMAIN recorders /\ recorders'[r] = new
        /\ \A k \in DOMAIN recorders : k # r => recorders'[k] = recorders[k]
    BY <1>1, <2>1, ChangedFacts
  <2>3. UNCHANGED <<rows, failed>>
    BY <1>7 DEF ResumeFails
  <2> QED
    BY <1>3, <1>7, <2>1, <2>2, <2>3
<1>8. CASE /\ \A i \in Slots : ~FinishRows(i) /\ ~FinishRowsFails(i)
           /\ \A r \in DOMAIN recorders : ~Records(r)
  <2>1. UNCHANGED <<rows, failed>>
    BY <1>2, <1>8, RowsKept DEF Records
  <2>2. CASE recorders' = recorders
    BY <1>3, <1>8, <2>1, <2>2
  <2>3. CASE Loses
    <3>1. recorders' = recorders \/ recorders' = <<>>
      BY <1>8, <2>3 DEF Loses, Fault, Fail, Abandon, Restart, Refuses, serverVars
    <3>2. CASE recorders' = <<>>
      <4>1. DOMAIN recorders' = {}
        BY <3>2
      <4> QED
        BY <1>3, <1>8, <2>1, <4>1
    <3> QED
      BY <2>2, <3>1, <3>2
  <2>4. ASSUME NEW i \in Slots, Takes(i)
        PROVE  Table'
    <3> DEFINE r == requests[i].rec
               new == [recorders[r] EXCEPT !.pending = recorders[r].pending \o requests[i].lines]
    <3>1. r \in DOMAIN recorders /\ Changed(r, new)
      BY <2>4, Zenon DEF Takes, Changed
    <3>2. /\ new.state = recorders[r].state /\ new.closed = recorders[r].closed
          /\ new.jobs = recorders[r].jobs /\ new.known = recorders[r].known
      BY <1>1, <3>1, RecorderFacts DEF Recorders
    <3> HIDE DEF new
    <3>3. /\ DOMAIN recorders' = DOMAIN recorders /\ recorders'[r] = new
          /\ \A k \in DOMAIN recorders : k # r => recorders'[k] = recorders[k]
      BY <1>1, <3>1, ChangedFacts
    <3> QED
      BY <1>3, <1>8, <2>1, <3>2, <3>3
  <2>5. ASSUME NEW i \in Slots, Open(i)
        PROVE  Table'
    <3>1. CASE current # 0
      BY <2>2, <2>5, <3>1 DEF Open
    <3>2. CASE current = 0
      <4>1. recorders' = Append(recorders, NewRecorder("loading"))
        BY <2>5, <3>2 DEF Open
      <4>2. NewRecorder("loading") \in Recorders /\ NewRecorder("loading").state = "loading"
        BY NewRecorderType
      <4>3. /\ DOMAIN recorders' = 1..(Len(recorders) + 1) /\ Len(recorders) \in Nat
            /\ DOMAIN recorders = 1..Len(recorders)
            /\ \A k \in DOMAIN recorders : recorders'[k] = recorders[k]
            /\ recorders'[Len(recorders) + 1] = NewRecorder("loading")
        BY <1>1, <4>1, <4>2, Appended DEF Types, ServerTypes
      <4>4. \A k \in DOMAIN recorders' : k \in DOMAIN recorders \/ k = Len(recorders) + 1
        BY <4>3
      <4> QED
        BY <1>3, <1>8, <2>1, <4>2, <4>3, <4>4
    <3> QED
      BY <3>1, <3>2
  <2>6. CASE Idles \/ PrintLine \/ Flushes
    BY <2>2, <2>6 DEF Idles, PrintLine, Flushes, serverVars
  <2>7. ASSUME NEW i \in Slots, Accepts(i) \/ Detaches(i)
        PROVE  Table'
    BY <2>2, <2>7 DEF Accepts, Detaches, serverVars
  <2>8. ASSUME NEW i \in Slots, Answers(i)
        PROVE  Table'
    <3>1. requests[i] # Free => requests[i].live
      BY <1>2 DEF Calm
    <3>2. recorders' = recorders
      BY <2>8, <3>1 DEF Answers
    <3> QED
      BY <2>2, <3>2
  <2> QED
    BY <1>1, <1>8, <2>3, <2>4, <2>5, <2>6, <2>7, <2>8, StepKinds
<1> QED
  BY <1>4, <1>5, <1>6, <1>7, <1>8 DEF Records

-----------------------------------------------------------------------------
(* What the log says of a step, and of a job, when a line is added to it.  *)
LEMMA LogSays ==
  ASSUME Types, NEW item \in Notes, log' = Append(log, item), NEW key, NEW j
  PROVE  LET m == Len(log) + 1
         IN  /\ Begun(key, j) => Begun(key, j)'
             /\ Ended(j) => Ended(j)'
             /\ Unfinished(key, j) /\ ~(EventOf(m, "finish", j) /\ Script[m].step = key)
                  => Unfinished(key, j)'
             /\ EventOf(m, "start", j) /\ Script[m].step = key => Begun(key, j)' /\ Unfinished(key, j)'
             /\ EventOf(m, "end", j) => Ended(j)'
<1> DEFINE m == Len(log) + 1
<1>1. Len(log) \in Nat /\ Len(log') = m
  BY Appended DEF Types, ServerTypes
<1>2. Begun(key, j) => Begun(key, j)'
  BY <1>1 DEF Begun, EventOf
<1>3. Ended(j) => Ended(j)'
  BY <1>1 DEF Ended, EventOf
<1>4. ASSUME Unfinished(key, j), ~(EventOf(m, "finish", j) /\ Script[m].step = key)
      PROVE  Unfinished(key, j)'
  <2>1. PICK p \in 1..Len(log) :
          /\ EventOf(p, "start", j) /\ Script[p].step = key
          /\ \A q \in (p + 1)..Len(log) : ~(EventOf(q, "finish", j) /\ Script[q].step = key)
    BY <1>4 DEF Unfinished
  <2>2. \A q \in (p + 1)..Len(log') : ~(EventOf(q, "finish", j) /\ Script[q].step = key)
    <3>1. \A q \in (p + 1)..Len(log') : q \in (p + 1)..Len(log) \/ q = m
      BY <1>1
    <3> HIDE DEF m
    <3> QED
      BY <1>4, <2>1, <3>1
  <2>3. p \in 1..Len(log')
    BY <1>1, <2>1
  <2> QED
    BY <2>1, <2>2, <2>3 DEF Unfinished, EventOf
<1>5. ASSUME EventOf(m, "start", j), Script[m].step = key
      PROVE  Begun(key, j)' /\ Unfinished(key, j)'
  <2>1. m \in 1..Len(log') /\ (m + 1)..Len(log') = {}
    BY <1>1
  <2> HIDE DEF m
  <2> QED
    BY <1>5, <2>1 DEF Begun, Unfinished, EventOf
<1>6. EventOf(m, "end", j) => Ended(j)'
  <2>1. m \in 1..Len(log')
    BY <1>1
  <2> HIDE DEF m
  <2> QED
    BY <2>1 DEF Ended, EventOf
<1> QED
  BY <1>2, <1>3, <1>4, <1>5, <1>6

(* The next line of the script keeps what is known of another job true,    *)
(* and the line makes it true of its own.                                  *)
LEMMA OtherTold ==
  ASSUME Types, NEW item \in Notes, log' = Append(log, item), ~AllSeen,
         NEW j, NEW job \in Rows, Told(j, job), Script[Len(log) + 1].job # j
  PROVE  Told(j, job)'
<1> DEFINE m == Len(log) + 1
<1>1. ~EventOf(m, "finish", j)
  BY DEF EventOf
<1> HIDE DEF m
<1>2. \A k \in DOMAIN job.steps :
        /\ Begun(job.steps[k].key, j)'
        /\ job.steps[k].status = "in_progress" => Unfinished(job.steps[k].key, j)'
  BY <1>1, LogSays DEF Told, m
<1>3. job.status # "in_progress" => Ended(j)'
  BY LogSays DEF Told
<1> QED
  BY <1>2, <1>3 DEF Told

LEMMA HandledTold ==
  ASSUME Types, ActFinishes, NEW item \in Notes, log' = Append(log, item), ~AllSeen,
         NEW j, NEW job \in JobStates, Told(j, job),
         NEW m \in DOMAIN Script, m = Len(log) + 1, NEW e, e = Script[m], e.job = j,
         NEW new, new = Handled(job, e)
  PROVE  Told(j, new)'
<1>1. /\ e \in LogEvents /\ e.event \in {"start", "finish", "end"} /\ e.result \in Results
      /\ e.result # "in_progress"
  BY EventType DEF LogEvents, Results
<1>2. /\ job.steps \in Seq(Steps) /\ Len(job.steps) \in Nat /\ DOMAIN job.steps = 1..Len(job.steps)
      /\ new \in JobStates
  BY <1>1, HandledType DEF JobStates
<1>3. /\ m \in DOMAIN Script /\ Script[m] = e /\ Script[m].job = j /\ Len(log) \in Nat /\ m = Len(log) + 1
      /\ \A event : EventOf(m, event, j) <=> e.event = event
  BY DEF EventOf, Types, ServerTypes
<1>4. \A k \in DOMAIN job.steps : Begun(job.steps[k].key, j)'
  BY LogSays DEF Told
<1>5. job.status # "in_progress" => Ended(j)'
  BY LogSays DEF Told
<1>6. \A k \in DOMAIN job.steps :
        /\ job.steps[k].status = "in_progress"
        /\ ~(EventOf(m, "finish", j) /\ e.step = job.steps[k].key)
        => Unfinished(job.steps[k].key, j)'
  BY LogSays DEF Told
<1>7. \A k, l \in DOMAIN job.steps : job.steps[k].key = job.steps[l].key => k = l
  BY DEF Told
<1>8. CASE e.event = "start"
  <2> DEFINE s == [key |-> e.step, status |-> "in_progress"]
  <2>1. new = [job EXCEPT !.steps = Append(job.steps, s)]
    BY <1>8 DEF Handled
  <2>2. new.steps = Append(job.steps, s) /\ new.status = job.status
    BY <2>1 DEF JobStates
  <2>3. s \in Steps /\ s.key = e.step
    BY <1>1 DEF Steps, LogEvents, States
  <2> HIDE DEF s
  <2>4. /\ DOMAIN new.steps = 1..(Len(job.steps) + 1)
        /\ \A k \in DOMAIN job.steps : new.steps[k] = job.steps[k]
        /\ new.steps[Len(job.steps) + 1] = s
    BY <1>2, <2>2, <2>3, Appended
  <2>5. \A k \in DOMAIN new.steps : k \in DOMAIN job.steps \/ k = Len(job.steps) + 1
    BY <1>2, <2>4
  <2>6. Begun(e.step, j)' /\ Unfinished(e.step, j)'
    BY <1>3, <1>8, LogSays
  <2>7. \A k \in DOMAIN job.steps : job.steps[k].key # e.step
    <3> SUFFICES ASSUME NEW k \in DOMAIN job.steps, job.steps[k].key = e.step
                 PROVE  FALSE
      OBVIOUS
    <3>1. PICK p \in 1..Len(log) : EventOf(p, "start", j) /\ Script[p].step = e.step
      BY DEF Told, Begun
    <3>2. p = m
      BY <1>3, <1>8, <3>1 DEF ActFinishes, EventOf
    <3> QED
      BY <1>3, <3>1, <3>2
  <2>8. \A k \in DOMAIN new.steps :
          /\ Begun(new.steps[k].key, j)'
          /\ new.steps[k].status = "in_progress" => Unfinished(new.steps[k].key, j)'
    BY <1>3, <1>4, <1>6, <1>8, <2>3, <2>4, <2>5, <2>6
  <2>9. \A k, l \in DOMAIN new.steps : new.steps[k].key = new.steps[l].key => k = l
    BY <1>7, <2>3, <2>4, <2>5, <2>7
  <2> QED
    BY <1>5, <2>2, <2>8, <2>9 DEF Told
<1>9. CASE e.event = "finish"
  <2> DEFINE n == LastStep(job.steps, e.step)
  <2>1. \/ n = 0 /\ \A k \in DOMAIN job.steps : job.steps[k].key # e.step
        \/ n \in DOMAIN job.steps /\ job.steps[n].key = e.step
    BY <1>2, LastStepFacts
  <2>2. new = IF n = 0 THEN job ELSE [job EXCEPT !.steps[n].status = e.result]
    BY <1>9 DEF Handled
  <2> HIDE DEF n
  <2>3. /\ new.status = job.status /\ DOMAIN new.steps = DOMAIN job.steps
        /\ \A k \in DOMAIN job.steps :
             /\ new.steps[k].key = job.steps[k].key
             /\ k # n => new.steps[k] = job.steps[k]
             /\ k = n => new.steps[k].status = e.result
    <3>1. CASE n = 0
      BY <1>2, <2>2, <3>1
    <3>2. CASE n \in DOMAIN job.steps
      <4>1. new = [job EXCEPT !.steps[n].status = e.result]
        BY <1>2, <2>2, <3>2
      <4>2. new.status = job.status
        BY <4>1 DEF JobStates
      <4>3. new.steps = [job.steps EXCEPT ![n] = [job.steps[n] EXCEPT !.status = e.result]]
        BY <4>1 DEF JobStates
      <4>4. job.steps[n] \in Steps
        BY <1>2, <3>2
      <4>5. [job.steps[n] EXCEPT !.status = e.result].status = e.result
            /\ [job.steps[n] EXCEPT !.status = e.result].key = job.steps[n].key
        BY <4>4 DEF Steps
      <4> QED
        BY <3>2, <4>2, <4>3, <4>5
    <3> QED
      BY <2>1, <3>1, <3>2
  <2>4. \A k \in DOMAIN job.steps : job.steps[k].key = e.step => k = n
    BY <1>7, <2>1
  <2>5. \A k \in DOMAIN new.steps :
          /\ Begun(new.steps[k].key, j)'
          /\ new.steps[k].status = "in_progress" => Unfinished(new.steps[k].key, j)'
    BY <1>1, <1>4, <1>6, <2>3, <2>4
  <2>6. \A k, l \in DOMAIN new.steps : new.steps[k].key = new.steps[l].key => k = l
    BY <1>7, <2>3
  <2> QED
    BY <1>5, <2>3, <2>5, <2>6 DEF Told
<1>10. CASE e.event = "end"
  <2>1. new = [job EXCEPT !.status = e.result]
    BY <1>10 DEF Handled
  <2>2. new.steps = job.steps
    BY <2>1 DEF JobStates
  <2>3. Ended(j)'
    BY <1>3, <1>10, LogSays
  <2>4. \A k \in DOMAIN new.steps :
          /\ Begun(new.steps[k].key, j)'
          /\ new.steps[k].status = "in_progress" => Unfinished(new.steps[k].key, j)'
    BY <1>3, <1>4, <1>6, <1>10, <2>2
  <2> QED
    BY <1>7, <2>2, <2>3, <2>4 DEF Told
<1> QED
  BY <1>1, <1>8, <1>9, <1>10

(* A line that is handled when nothing was dropped or repeated is the next *)
(* one of the script.                                                      *)
LEMMA NextLine ==
  ASSUME FlowInv, Calm, NotesOK, NEW r \in DOMAIN recorders, NEW item, NEW known, NEW jobs,
         Handles(r, item, known, jobs), trimmed = {}, failed = {}, failed' = {},
         \A k \in DOMAIN log : log[k].line = k, ~Repeated'
  PROVE  /\ item.line = Len(log) + 1 /\ item.line \in DOMAIN Script
         /\ \A k \in DOMAIN log' : log'[k].line = k
         /\ ~AllSeen
<1> DEFINE q == recorders[r].pending
<1>1. /\ Types /\ recorders[r] \in Recorders /\ q \in Seq(Notes) /\ q # <<>> /\ item = q[1]
           /\ item \in Notes
      /\ 1 \in DOMAIN q /\ log' = Append(log, item)
  <2>1. Types /\ log' = Append(log, item) /\ q # <<>> /\ item = Head(q) /\ item \in Notes
    <3>1. log' = Append(log, item) \/ item.line \in failed'
      BY CalmHandles
    <3> QED
      BY <3>1, Zenon DEF FlowInv, Handles
  <2>2. recorders[r] \in Recorders
    BY <2>1, RecorderFacts
  <2>3. q \in Seq(Notes)
    BY <2>2 DEF Recorders
  <2> HIDE DEF q
  <2> QED
    BY <2>1, <2>2, <2>3 DEF q
<1>2. Orderly(q, out, Seen) /\ ~Noted(q)
  BY DEF FlowInv, OrderOK, NotesOK
<1> HIDE DEF q
<1>3. item.gone = 0
  <2>1. item.gone \in Nat
    BY <1>1, NoteType
  <2> QED
    BY <1>1, <1>2, <2>1 DEF Noted
<1>4. /\ item.line \in 1..Len(Script) /\ item = Line(item.line) /\ Len(Script) \in Nat
      /\ DOMAIN Script = 1..Len(Script)
  <2>1. Len(Script) \in Nat /\ DOMAIN Script = 1..Len(Script)
    BY ScriptAssumption
  <2> QED
    BY <1>1, <1>3, <2>1 DEF Notes, Line, Marker
<1>5. /\ Len(log) \in Nat /\ DOMAIN log = 1..Len(log) /\ DOMAIN log' = 1..(Len(log) + 1)
      /\ \A k \in DOMAIN log : log'[k] = log[k] /\ log[k] \in Notes
      /\ log'[Len(log) + 1] = item
  <2>1. log \in Seq(Notes)
    BY <1>1 DEF Types, ServerTypes
  <2> QED
    BY <1>1, <2>1, Appended
<1>6. Seen \subseteq DOMAIN log
  BY <1>5 DEF Seen, Gone, LinesOf
<1>7. item.line <= Len(log) + 1
  <2>1. \A n \in 1..(item.line - 1) : n \in Seen
    BY <1>1, <1>2 DEF Orderly
  <2>2. item.line # 1 => item.line - 1 \in 1..Len(log)
    BY <1>4, <1>5, <1>6, <2>1
  <2> QED
    BY <1>4, <1>5, <2>2
<1>8. item.line \notin DOMAIN log
  <2> SUFFICES ASSUME item.line \in DOMAIN log
               PROVE  FALSE
    OBVIOUS
  <2>1. log'[item.line] = log[item.line] /\ log[item.line].line = item.line /\ log[item.line] \in Notes
    BY <1>5
  <2>2. log[item.line].gone = 0
    <3>1. ~Noted(log)
      BY DEF NotesOK
    <3>2. log[item.line].gone \in Nat
      BY <2>1, NoteType
    <3> QED
      BY <3>1, <3>2 DEF Noted
  <2>3. log[item.line] = Line(item.line)
    BY <1>4, <2>1, <2>2 DEF Notes, Line, Marker
  <2>4. item.line \in DOMAIN log' /\ Len(log) + 1 \in DOMAIN log' /\ item.line < Len(log) + 1
    BY <1>5
  <2> QED
    BY <1>4, <1>5, <2>1, <2>3, <2>4 DEF Repeated
<1>9. item.line = Len(log) + 1
  BY <1>4, <1>5, <1>7, <1>8
<1>10. \A k \in DOMAIN log' : log'[k].line = k
  <2>1. \A k \in DOMAIN log' : k \in DOMAIN log \/ k = Len(log) + 1
    BY <1>5
  <2> QED
    BY <1>5, <1>9, <2>1
<1>11. ~AllSeen
  <2>1. item.line <= out /\ out \in Nat
    BY <1>1, <1>2 DEF Orderly, Below, Types, RunnerTypes
  <2>2. item.line \in 1..out
    BY <1>4, <2>1
  <2> QED
    BY <1>6, <1>8, <2>2 DEF AllSeen
<1> QED
  BY <1>4, <1>9, <1>10, <1>11

LEMMA PlainBefore ==
  ASSUME FlowInv, CalmOK, [Next]_vars, log' = log \/ \E item \in Notes : log' = Append(log, item), Plain'
  PROVE  Plain
<1>1. Types /\ RequestsOK /\ RecordersOK
  BY DEF FlowInv
<1>2. ~abandoned
  BY CalmStep DEF Plain
<1>3. Gone = {}
  <2>1. Gone' = {}
    BY DEF Plain
  <2>2. Gone \subseteq Gone'
    BY <1>1, Grows
  <2> QED
    BY <2>1, <2>2
<1>4. ~Repeated
  <2>0. ~Repeated'
    BY DEF Plain
  <2>1. CASE log' = log
    BY <2>0, <2>1 DEF Repeated
  <2>2. ASSUME NEW item \in Notes, log' = Append(log, item)
        PROVE  ~Repeated
    <3>1. /\ Len(log) \in Nat /\ DOMAIN log = 1..Len(log) /\ DOMAIN log' = 1..(Len(log) + 1)
          /\ \A k \in DOMAIN log : log'[k] = log[k]
      BY <1>1, <2>2, Appended DEF Types, ServerTypes
    <3>2. DOMAIN log \subseteq DOMAIN log'
      BY <3>1
    <3> QED
      BY <2>0, <3>1, <3>2 DEF Repeated
  <2> QED
    BY <2>1, <2>2
<1>5. ActFinishes
  BY DEF Plain, ActFinishes, EventOf
<1> QED
  BY <1>2, <1>3, <1>4, <1>5 DEF Plain

(* All that was printed stays seen.                                        *)
LEMMA StaysSeen ==
  ASSUME FlowInv, [Next]_vars, AllSeen
  PROVE  AllSeen'
  BY Grows DEF FlowInv, AllSeen

LEMMA StepsStep ==
  ASSUME FlowInv, NotesOK, CalmOK, TableOK, StepsOK, [Next]_vars
  PROVE  StepsOK'
<1> SUFFICES ASSUME Plain'
             PROVE  /\ \A k \in DOMAIN log' : log'[k].line = k
                    /\ \A n \in DOMAIN rows' : Told(rows[n].job, rows[n])'
  BY DEF StepsOK
<1>1. Types /\ RequestsOK /\ RecordersOK /\ ~Repeated' /\ failed' = {} /\ Calm
  <2>1. Types /\ RequestsOK /\ RecordersOK
    BY DEF FlowInv
  <2>2. ~Repeated' /\ failed' = {} /\ ~abandoned'
    BY DEF Plain, Gone
  <2> QED
    BY <2>1, <2>2, CalmStep DEF CalmOK
<1>2. ASSUME Plain
      PROVE  /\ Calm /\ Table /\ \A k \in DOMAIN log : log[k].line = k
             /\ \A n \in DOMAIN rows : Told(rows[n].job, rows[n])
             /\ ActFinishes /\ trimmed = {} /\ failed = {}
  BY <1>2 DEF Plain, CalmOK, TableOK, StepsOK, Gone
<1>3. ASSUME UNCHANGED <<rows, log>>
      PROVE  /\ \A k \in DOMAIN log' : log'[k].line = k
             /\ \A n \in DOMAIN rows' : Told(rows[n].job, rows[n])'
  <2>1. Plain
    BY <1>3, PlainBefore
  <2>2. \A n \in DOMAIN rows : Told(rows[n].job, rows[n])'
    BY <1>2, <1>3, <2>1, StaysSeen DEF Told, Begun, Unfinished, Ended, EventOf
  <2> QED
    BY <1>2, <1>3, <2>1, <2>2
<1>4. ASSUME NEW i \in Slots, FinishRows(i) \/ FinishRowsFails(i), log' = log
      PROVE  /\ \A k \in DOMAIN log' : log'[k].line = k
             /\ \A n \in DOMAIN rows' : Told(rows[n].job, rows[n])'
  <2>1. Plain
    BY <1>4, PlainBefore
  <2>2. /\ DOMAIN rows \subseteq DOMAIN rows'
        /\ \A n \in DOMAIN rows :
             /\ rows'[n].job = rows[n].job
             /\ \/ rows'[n] = rows[n]
                \/ /\ DOMAIN rows'[n].steps = DOMAIN rows[n].steps
                   /\ \A k \in DOMAIN rows[n].steps : /\ rows'[n].steps[k].key = rows[n].steps[k].key
                                                      /\ rows'[n].steps[k].status # "in_progress"
        /\ \A n \in DOMAIN rows' \ DOMAIN rows : rows'[n].steps = <<>>
    BY <1>2, <1>4, <2>1, FinishEffect
  <2>3. AllSeen'
    <3>1. requests[i].kind = "complete" /\ Drained(i)
      BY <1>4, Zenon DEF FinishRows, FinishRowsFails
    <3>2. Ending
      BY <3>1 DEF Ending
    <3> QED
      BY <3>2, StaysSeen DEF FlowInv, EndingOK
  <2>4. ASSUME NEW n \in DOMAIN rows, rows'[n] = rows[n]
        PROVE  Told(rows[n].job, rows[n])'
    <3>1. Told(rows[n].job, rows[n])
      BY <1>2, <2>1
    <3> QED
      BY <1>4, <2>3, <2>4, <3>1 DEF Told, Begun, Unfinished, Ended, EventOf
  <2>5. ASSUME NEW n \in DOMAIN rows,
               /\ DOMAIN rows'[n].steps = DOMAIN rows[n].steps
               /\ \A k \in DOMAIN rows[n].steps : /\ rows'[n].steps[k].key = rows[n].steps[k].key
                                                  /\ rows'[n].steps[k].status # "in_progress"
        PROVE  Told(rows[n].job, rows[n])'
    <3>1. Told(rows[n].job, rows[n]) /\ rows'[n].job = rows[n].job
      BY <1>2, <2>1, <2>2
    <3>2. \A k \in DOMAIN rows[n].steps : Begun(rows[n].steps[k].key, rows[n].job)'
      <4>1. ASSUME NEW k \in DOMAIN rows[n].steps
            PROVE  Begun(rows'[n].steps[k].key, rows'[n].job)
        BY <2>5, <3>1, <4>1 DEF Told
      <4> QED
        BY <1>4, <2>5, <4>1 DEF Begun, EventOf
    <3> QED
      BY <2>3, <2>5, <3>1, <3>2 DEF Told
  <2>6. ASSUME NEW n \in DOMAIN rows' \ DOMAIN rows
        PROVE  Told(rows[n].job, rows[n])'
    <3>1. rows'[n].steps = <<>>
      BY <2>2
    <3> QED
      BY <2>3, <3>1 DEF Told
  <2> QED
    BY <1>2, <1>4, <2>1, <2>2, <2>4, <2>5, <2>6
<1>5. ASSUME NEW r \in DOMAIN recorders, HandleLine(r) \/ HandleFails(r)
      PROVE  /\ \A k \in DOMAIN log' : log'[k].line = k
             /\ \A n \in DOMAIN rows' : Told(rows[n].job, rows[n])'
  <2>1. PICK item, known, jobs : Handles(r, item, known, jobs)
    BY <1>1, <1>5, HandleLineEffect
  <2>2. item \in Notes /\ (log' = log \/ log' = Append(log, item))
    <3>1. item \in Notes /\ Logged(r, item)
      BY <2>1, Zenon DEF Handles
    <3> QED
      BY <3>1 DEF Logged
  <2>3. Plain
    BY <2>2, PlainBefore
  <2>4. /\ Calm /\ Table /\ \A k \in DOMAIN log : log[k].line = k
        /\ \A n \in DOMAIN rows : Told(rows[n].job, rows[n])
        /\ ActFinishes /\ trimmed = {} /\ failed = {}
    BY <1>2, <2>3
  <2>5. log' = Append(log, item)
    <3>1. log' = Append(log, item) \/ item.line \in failed'
      BY <1>1, <2>1, CalmHandles
    <3> QED
      BY <1>1, <3>1
  <2>6. /\ item.line = Len(log) + 1 /\ item.line \in DOMAIN Script
        /\ \A k \in DOMAIN log' : log'[k].line = k
        /\ ~AllSeen
    BY <1>1, <2>1, <2>4, NextLine
  <2>7. PICK m, e : m = item.line /\ m = Len(log) + 1 /\ m \in DOMAIN Script /\ m # 0 /\ e = Script[m]
    BY <1>1, <2>6 DEF Types, ServerTypes
  <2>8. PICK j, old, new, n :
          /\ j = e.job /\ Written(j, new, n)
          /\ new = Handled(old, e) /\ old \in JobStates
          /\ IF RowOf(j) = {} THEN old.steps = <<>> /\ old.status = "in_progress"
             ELSE old.steps = rows[n].steps /\ old.status = rows[n].status
    <3>1. item.line # 0 /\ e = Script[item.line]
      BY <2>7
    <3>2. Updated(e)
      <4>1. FlowInv /\ Calm /\ Table /\ failed' = {} /\ Handles(r, item, known, jobs)
        BY <1>1, <2>1, <2>4
      <4> QED
        BY <3>1, <4>1, LineWritten
    <3>3. PICK w \in JobStates : \E x, y :
            /\ Written(e.job, x, y) /\ x = Handled(w, e)
            /\ IF RowOf(e.job) = {} THEN w.steps = <<>> /\ w.status = "in_progress"
               ELSE w.steps = rows[y].steps /\ w.status = rows[y].status
      BY <3>2 DEF Updated
    <3>4. PICK x, y :
            /\ Written(e.job, x, y) /\ x = Handled(w, e)
            /\ IF RowOf(e.job) = {} THEN w.steps = <<>> /\ w.status = "in_progress"
               ELSE w.steps = rows[y].steps /\ w.status = rows[y].status
      BY <3>3
    <3> WITNESS e.job, w, x, y
    <3> QED
      BY <3>3, <3>4
  <2>9. Told(j, old)
    <3>1. CASE RowOf(j) = {}
      BY <2>8, <3>1 DEF Told
    <3>2. CASE RowOf(j) # {}
      <4>1. n \in DOMAIN rows /\ rows[n].job = j
        BY <2>8, <3>2 DEF Written, RowOf
      <4>2. old.steps = rows[n].steps /\ old.status = rows[n].status
        BY <2>8, <3>2
      <4>3. Told(j, rows[n])
        BY <2>4, <4>1
      <4> QED
        BY <4>2, <4>3 DEF Told
    <3> QED
      BY <3>1, <3>2
  <2>10. Told(j, new)'
    BY <1>1, <2>2, <2>4, <2>5, <2>6, <2>7, <2>8, <2>9, HandledTold
  <2>11. Told(rows[n].job, rows[n])'
    <3>1. rows'[n].job = j /\ rows'[n].status = new.status /\ rows'[n].steps = new.steps
      BY <2>8 DEF Written
    <3> QED
      BY <2>10, <3>1 DEF Told
  <2>12. ASSUME NEW k \in DOMAIN rows, k # n
         PROVE  Told(rows[k].job, rows[k])'
    <3>1. Told(rows[k].job, rows[k]) /\ rows[k] \in Rows
      BY <1>1, <2>4, RowFacts
    <3>2. rows'[k] = rows[k]
      BY <2>8, <2>12 DEF Written
    <3>3. rows[k].job # j
      <4>1. \A a, b \in DOMAIN rows : rows[a].job = rows[b].job => a = b
        BY <2>4 DEF Table
      <4>2. RowOf(j) # {} => n \in DOMAIN rows /\ rows[n].job = j
        BY <2>8 DEF Written, RowOf
      <4> QED
        BY <2>12, <4>1, <4>2 DEF RowOf
    <3>4. Script[Len(log) + 1].job # rows[k].job
      BY <2>7, <2>8, <3>3
    <3>5. PICK h, row : h = rows[k].job /\ row = rows[k]
      OBVIOUS
    <3>6. Told(h, row)'
      BY <1>1, <2>2, <2>5, <2>6, <3>1, <3>4, <3>5, OtherTold
    <3> QED
      BY <3>2, <3>5, <3>6
  <2>13. \A k \in DOMAIN rows' : k \in DOMAIN rows \/ k = n
    BY <2>8 DEF Written
  <2> QED
    BY <2>6, <2>11, <2>12, <2>13
<1> QED
  BY <1>1, <1>3, <1>4, <1>5, RowsKept

-----------------------------------------------------------------------------
(* The invariant, and what follows from it.                                *)
IInv == FlowInv /\ CalmOK /\ DropsRemembered /\ NotesOK /\ TableOK /\ StepsOK

LEMMA InitIInv == Init => IInv
<1> SUFFICES ASSUME Init PROVE IInv
  OBVIOUS
<1>1. FlowInv
  BY FlowInvInit
<1>2. /\ \A i \in Slots : requests[i] = Free
      /\ DOMAIN <<>> = {} /\ batch = <<>> /\ queue = <<>> /\ log = <<>> /\ rows = <<>> /\ trimmed = {}
      /\ failed = {} /\ dropped = 0 /\ drops = 0 /\ ~over /\ current = 1
  BY Sizes DEF Init
<1>3. /\ Len(recorders) = 1 /\ DOMAIN recorders = {1} /\ recorders[1] = NewRecorder("ready")
  BY DEF Init
<1>4. /\ recorders[1].pending = <<>> /\ ~recorders[1].closed
      /\ recorders[1].jobs = [j \in Jobs |-> Unknown] /\ recorders[1].known = {}
  BY <1>3 DEF NewRecorder
<1>5. Free.lines = <<>> /\ Free.stage = "free" /\ ~Settles
  BY <1>2 DEF Free, Settles
<1>6. CalmOK
  <2>1. \A i \in Slots : /\ requests[i] = Free /\ requests[i].stage = "free" /\ requests[i].rec = 0
                         /\ ~Ends(i)
    BY <1>2, Sizes DEF Ends
  <2>2. \A r \in DOMAIN recorders : r = current /\ recorders[r].pending = <<>> /\ ~recorders[r].closed
    BY <1>2, <1>3, <1>4
  <2> QED
    BY <1>2, <2>1, <2>2 DEF CalmOK, Calm
<1>7. NotesOK
  <2>1. Kept = <<>>
    BY <1>2, ConcatEmptySeq, EmptySeq DEF Kept
  <2> QED
    BY <1>2, <1>3, <1>4, <1>5, <2>1 DEF NotesOK, Noted
<1>8. TableOK
  <2>1. \A j \in Jobs : Knows(recorders[1], j)
    BY <1>2, <1>4 DEF Knows, RowOf, Unknown
  <2> QED
    BY <1>2, <1>3, <1>5, <2>1 DEF TableOK, Table
<1>9. StepsOK
  BY <1>2 DEF StepsOK
<1>10. DropsRemembered
  <2>1. 1..(drops - dropped) = {} /\ ~(drops > 0)
    BY <1>2
  <2> QED
    BY <2>1, Zenon DEF DropsRemembered
<1> QED
  BY <1>1, <1>6, <1>7, <1>8, <1>9, <1>10 DEF IInv

LEMMA NextIInv == IInv /\ [Next]_vars => IInv'
<1> SUFFICES ASSUME IInv, [Next]_vars PROVE IInv'
  OBVIOUS
<1>1. FlowInv /\ CalmOK /\ DropsRemembered /\ NotesOK /\ TableOK /\ StepsOK
  BY DEF IInv
<1>2. FlowInv'
  BY <1>1, FlowInvStep
<1>3. CalmOK'
  BY <1>1, CalmStep
<1>4. DropsRemembered'
  BY <1>1, DropsStep
<1>5. NotesOK'
  BY <1>1, NotesStep
<1>6. TableOK'
  BY <1>1, TableStep
<1>7. StepsOK'
  BY <1>1, StepsStep
<1> QED
  BY <1>2, <1>3, <1>4, <1>5, <1>6, <1>7 DEF IInv

LEMMA Invariance == Spec => []IInv
BY InitIInv, NextIInv, PTL DEF Spec

(* Every variable has its type, and a request is waited for exactly while  *)
(* the runner sends lines or the result.                                   *)
THEOREM TypeCorrect == Spec => []TypeOK
<1>1. IInv => TypeOK
  <2> SUFFICES ASSUME IInv PROVE TypeOK
    OBVIOUS
  <2>1. Types /\ SlotsOK /\ LiveOK
    BY DEF IInv, FlowInv, RequestsOK
  <2>2. Seq(Notes) \subseteq Seq(Items)
    <3>1. Notes \subseteq Items
      BY ScriptAssumption DEF Notes, Items, Line, Marker
    <3> QED
      BY <3>1
  <2>3. /\ out \in 0..Len(Script) /\ queue \in Seq(Items) /\ batch \in Seq(Items)
        /\ dropped \in Nat /\ late \in BOOLEAN /\ sending \in BOOLEAN
        /\ phase \in {"running", "flush", "await", "complete", "sleep", "over"}
        /\ trimmed \subseteq 1..Len(Script) /\ drops \in Nat /\ unheard \subseteq Int
    BY <2>1, <2>2 DEF Types, RunnerTypes
  <2>9. failed \subseteq 1..Len(Script)
    BY <2>1 DEF Types, ServerTypes
  <2>4. over \in BOOLEAN /\ current \in 0..Len(recorders) /\ log \in Seq(Items) /\ Len(recorders) \in Nat
    BY <2>1, <2>2 DEF Types, ServerTypes
  <2>5. ASSUME NEW i \in Slots
        PROVE  /\ requests[i].kind \in {"none", "events", "complete"}
               /\ requests[i].lines \in Seq(Items) /\ requests[i].stage \in Stages
               /\ requests[i].rec \in 0..Len(recorders) /\ requests[i].until \in Nat
    <3>1. requests[i] \in Requests
      BY <2>1 DEF Types
    <3>2. /\ requests[i].kind \in {"none", "events", "complete"}
          /\ requests[i].lines \in Seq(Items) /\ requests[i].stage \in Stages
          /\ requests[i].rec \in Nat /\ requests[i].until \in Nat
      BY <2>2, <3>1 DEF Requests
    <3>3. requests[i].rec <= Len(recorders)
      BY <2>1 DEF SlotsOK
    <3> QED
      BY <2>4, <3>2, <3>3
  <2>6. \A n \in DOMAIN rows : rows[n].job \in Jobs /\ rows[n].status \in States
    BY <2>1, RowFacts
  <2>7. faults \in 0..MaxFaults /\ abandoned \in BOOLEAN
    BY <2>1 DEF Types
  <2>8. (sending \/ phase = "complete") = (\E i \in Slots : Live(i))
    <3>1. ASSUME NEW i \in Slots, Live(i)
          PROVE  sending \/ phase = "complete"
      BY <2>1, <2>5, <3>1 DEF LiveOK, Live
    <3>2. (sending \/ phase = "complete") <=> (\E i \in Slots : Live(i))
      BY <2>1, <3>1 DEF LiveOK
    <3> QED
      BY <3>2
  <2> QED
    BY <2>3, <2>4, <2>5, <2>6, <2>7, <2>8, <2>9 DEF TypeOK
<1> QED
  BY <1>1, Invariance, PTL

(* Of two lines the earlier is seen first: batches that fail go back to    *)
(* the front, and a batch is sent when the last one has been answered.     *)
THEOREM SeenInOrder == Spec => []FirstSightInOrder
<1>1. IInv => FirstSightInOrder
  <2> SUFFICES ASSUME IInv, NEW i \in DOMAIN log, NEW j \in DOMAIN log,
                      i < j, log[j].line > 0, log[j].line < log[i].line
               PROVE  log[j].line \in trimmed \cup failed \cup LinesOf(SubSeq(log, 1, i - 1))
    BY DEF FirstSightInOrder
  <2> DEFINE n == log[j].line
  <2>1. log \in Seq(Notes) /\ Orderly(log, out, Gone)
    BY DEF IInv, FlowInv, Types, ServerTypes, LogOK
  <2>2. /\ Len(log) \in Nat /\ DOMAIN log = 1..Len(log) /\ log[i].line \in Nat /\ n \in Nat
    BY <2>1, Elements
  <2>3. n \in 1..(log[i].line - 1)
    BY <2>2
  <2>4. CASE n \in Gone
    BY <2>4 DEF Gone
  <2>5. ASSUME NEW h \in 1..(i - 1), log[h].line = n
        PROVE  n \in LinesOf(SubSeq(log, 1, i - 1))
    <3> DEFINE m == i - 1
               s == SubSeq(log, 1, m)
    <3>1. m \in 0..Len(log) /\ h \in 1..m
      BY <2>2
    <3> HIDE DEF m
    <3>2. DOMAIN s = 1..m /\ \A k \in 1..m : s[k] = log[k]
      BY <2>1, <3>1, PrefixOf
    <3> HIDE DEF s
    <3>3. n \in LinesOf(s)
      BY <2>2, <2>3, <2>5, <3>1, <3>2 DEF LinesOf
    <3> QED
      BY <3>3 DEF s, m
  <2> QED
    BY <2>1, <2>3, <2>4, <2>5 DEF Orderly
<1> QED
  BY <1>1, Invariance, PTL

(* A run that has its outcome has every line in its log, but for those     *)
(* that were dropped for want of room, and those whose recording failed.   *)
THEOREM AllRecorded == Spec => []NothingLeftBehind
<1>1. IInv => NothingLeftBehind
  BY DEF IInv, FlowInv, EndingOK, Ending, AllSeen, Seen, Gone, NothingLeftBehind
<1> QED
  BY <1>1, Invariance, PTL

(* Every drop is still counted, or a note that is there tells it with its  *)
(* number, or that note was dropped; and the last drop is never forgotten, *)
(* unless a request was given up while the server handled it.              *)
THEOREM DropsAnnounced == Spec => []DropsRemembered
<1>1. IInv => DropsRemembered
  BY DEF IInv
<1> QED
  BY <1>1, Invariance, PTL

(* However often the server restarts and a batch is sent again, a job has  *)
(* one row.                                                                *)
THEOREM JobsAreRows == Spec => []OneRowPerJob
<1>1. IInv => OneRowPerJob
  BY DEF IInv, TableOK, Table, OneRowPerJob
<1> QED
  BY <1>1, Invariance, PTL

(* When the run is over no job is in progress, unless recording its end    *)
(* has failed, and no step of a job whose steps act has finished.          *)
THEOREM AllSettled == Spec => []NoneInProgress
<1>1. IInv => NoneInProgress
  <2> SUFFICES ASSUME IInv, over, ~abandoned, NEW n \in DOMAIN rows
               PROVE  /\ \/ rows[n].status # "in_progress"
                         \/ \E e \in failed : EventOf(e, "end", rows[n].job)
                      /\ ActFinishes /\ trimmed \cup failed = {} /\ ~Repeated =>
                           \A k \in DOMAIN rows[n].steps : rows[n].steps[k].status # "in_progress"
    BY DEF NoneInProgress
  <2>1. rows[n].status # "in_progress" \/ \E e \in failed : EventOf(e, "end", rows[n].job)
    BY DEF IInv, TableOK, Table, EndFailed
  <2>2. ASSUME ActFinishes, trimmed \cup failed = {}, ~Repeated,
               NEW k \in DOMAIN rows[n].steps, rows[n].steps[k].status = "in_progress"
        PROVE  FALSE
    <3> DEFINE j == rows[n].job
               key == rows[n].steps[k].key
    <3>1. Told(j, rows[n])
      BY <2>2 DEF IInv, StepsOK, Plain, Gone
    <3>2. Ended(j) /\ Unfinished(key, j)
      <4>1. rows[n].status # "in_progress"
        BY <2>1, <2>2
      <4> QED
        BY <2>2, <3>1, <4>1 DEF Told
    <3>3. PICK p \in 1..Len(log) :
            /\ EventOf(p, "start", j) /\ Script[p].step = key
            /\ \A q \in (p + 1)..Len(log) : ~(EventOf(q, "finish", j) /\ Script[q].step = key)
      BY <3>2 DEF Unfinished
    <3>4. PICK e \in 1..Len(log) : EventOf(e, "end", j)
      BY <3>2 DEF Ended
    <3> HIDE DEF j, key
    <3>5. PICK q \in (p + 1)..(e - 1) : EventOf(q, "finish", j) /\ Script[q].step = key
      BY <2>2, <3>3, <3>4 DEF ActFinishes, EventOf
    <3>6. q \in (p + 1)..Len(log)
      <4>1. Len(log) \in Nat
        BY DEF IInv, FlowInv, Types, ServerTypes
      <4> QED
        BY <3>4, <3>5, <4>1
    <3> QED
      BY <3>3, <3>5, <3>6
  <2> QED
    BY <2>1, <2>2
<1> QED
  BY <1>1, Invariance, PTL
=============================================================================
