--------------------------- MODULE Messaging_proofs ---------------------------
(***************************************************************************)
(* Proofs about Messaging and RestockAlerts, for any history of an order,  *)
(* any number of attempts, concurrent jobs and faults, any fabrics: what a *)
(* completed job has told the customer, how often, and what its rows say;  *)
(* and that a fabric has one open alert.                                   *)
(*                                                                         *)
(* The invariant of Messaging speaks of one job at a time (JobFits), of    *)
(* the queue (QueueSound: a waiting job waits once) and of the publisher   *)
(* (NotQueuedYet: it never hands in a job twice).                          *)
(***************************************************************************)
EXTENDS Messaging, RestockAlerts, FiniteSetTheorems, SequenceTheorems, TLAPS

\* The rows of s that reached the customer; Accepted(j) is Reached(records[j]).
Reached(s) == {k \in DOMAIN s : s[k].sent # "no"}
Count(s) == Cardinality(Reached(s))

JobState ==
    [place : Place, step : Step, tries : 0 .. Attempts, stalls : 0 .. MaxStalls]

-----------------------------------------------------------------------------
(* Sequences of rows.                                                      *)

LEMMA CountIsNat ==
    ASSUME NEW s \in Seq(Record)
    PROVE  /\ IsFiniteSet(Reached(s))
           /\ Count(s) \in Nat
           /\ Count(s) = 0 <=> Reached(s) = {}
<1>1. Len(s) \in Int /\ DOMAIN s = 1 .. Len(s)
    BY LenProperties
<1>2. IsFiniteSet(Reached(s))
  <2>1. IsFiniteSet(1 .. Len(s))
      BY <1>1, FS_Interval
  <2>2. Reached(s) \subseteq 1 .. Len(s)
      BY <1>1 DEF Reached
  <2> QED BY <2>1, <2>2, FS_Subset
<1> QED BY <1>2, FS_CardinalityType, FS_EmptySet DEF Count

LEMMA EmptyCount == Count(<<>>) = 0
BY FS_EmptySet DEF Count, Reached

\* A new row has not reached anybody.
LEMMA CountAppend ==
    ASSUME NEW s \in Seq(Record)
    PROVE  LET t == Append(s, NewRecord)
           IN /\ t \in Seq(Record)
              /\ Len(t) = Len(s) + 1
              /\ t[Len(t)] = NewRecord
              /\ \A k \in 1 .. Len(s) : t[k] = s[k]
              /\ Count(t) = Count(s)
<1> DEFINE t == Append(s, NewRecord)
<1>1. NewRecord \in Record /\ NewRecord.sent = "no"
    BY DEF NewRecord, Record, ReceiptStatus
<1>2. /\ t \in Seq(Record) /\ Len(t) = Len(s) + 1 /\ t[Len(t)] = NewRecord
      /\ \A k \in 1 .. Len(s) : t[k] = s[k]
    BY <1>1
<1>3. DOMAIN s = 1 .. Len(s) /\ DOMAIN t = 1 .. Len(s) + 1 /\ Len(s) \in Nat
    BY <1>2, LenProperties
<1>4. Reached(t) = Reached(s)
    BY <1>1, <1>2, <1>3 DEF Reached
<1> QED BY <1>2, <1>4 DEF Count

\* Rows count by what became of their messages.
LEMMA CountSame ==
    ASSUME NEW s \in Seq(Record), NEW t \in Seq(Record), Len(t) = Len(s),
           \A k \in 1 .. Len(s) : t[k].sent = s[k].sent
    PROVE  Count(t) = Count(s)
<1>1. DOMAIN s = 1 .. Len(s) /\ DOMAIN t = 1 .. Len(s)
    BY LenProperties
<1>2. Reached(t) = Reached(s)
    BY <1>1 DEF Reached
<1> QED BY <1>2 DEF Count

\* What writing row n does.
LEMMA CountRewrite ==
    ASSUME NEW s \in Seq(Record), NEW n \in 1 .. Len(s), NEW r \in Record,
           NEW t, t = [s EXCEPT ![n] = r]
    PROVE  /\ t \in Seq(Record)
           /\ t # <<>>
           /\ Len(t) = Len(s)
           /\ t[n] = r
           /\ \A k \in 1 .. Len(s) : k # n => t[k] = s[k]
           /\ Count(t) \in Nat
           /\ Count(t) <= Count(s) + 1
           /\ (r.sent # "no" => s[n].sent # "no") => Count(t) <= Count(s)
           /\ r.sent # "no" => Count(t) > 0
           /\ (s[n].sent # "no" => r.sent # "no") => Count(t) >= Count(s)
<1>1. Len(s) \in Nat /\ DOMAIN s = 1 .. Len(s)
    BY LenProperties
<1>2. t \in Seq(Record) /\ Len(t) = Len(s) /\ t[n] = r
    BY <1>1, ExceptSeq
<1>3. \A k \in 1 .. Len(s) : k # n => t[k] = s[k]
    BY <1>1
<1>4. DOMAIN t = 1 .. Len(s)
    BY <1>1
<1>5. t # <<>>
    BY <1>1, <1>2
<1>6. /\ IsFiniteSet(Reached(s)) /\ IsFiniteSet(Reached(t))
      /\ Count(s) \in Nat /\ Count(t) \in Nat
      /\ Count(t) = 0 <=> Reached(t) = {}
    BY <1>2, CountIsNat
<1>7. Reached(t) \subseteq Reached(s) \cup {n}
    BY <1>1, <1>2, <1>3, <1>4 DEF Reached
<1>8. Count(t) <= Count(s) + 1
  <2>1. /\ IsFiniteSet(Reached(s) \cup {n})
        /\ Cardinality(Reached(s) \cup {n}) \in {Count(s), Count(s) + 1}
      BY <1>6, FS_AddElement DEF Count
  <2>2. Cardinality(Reached(t)) <= Cardinality(Reached(s) \cup {n})
      BY <1>7, <2>1, FS_Subset
  <2>3. Cardinality(Reached(s) \cup {n}) \in Nat
      BY <2>1, FS_CardinalityType
  <2> QED BY <1>6, <2>1, <2>2, <2>3 DEF Count
<1>9. (r.sent # "no" => s[n].sent # "no") => Count(t) <= Count(s)
  <2> HAVE r.sent # "no" => s[n].sent # "no"
  <2>1. Reached(t) \subseteq Reached(s)
      BY <1>1, <1>2, <1>3, <1>4 DEF Reached
  <2> QED BY <1>6, <2>1, FS_Subset DEF Count
<1>10. r.sent # "no" => Count(t) > 0
    BY <1>1, <1>2, <1>4, <1>6 DEF Reached
<1>11. (s[n].sent # "no" => r.sent # "no") => Count(t) >= Count(s)
  <2> HAVE s[n].sent # "no" => r.sent # "no"
  <2>1. Reached(s) \subseteq Reached(t)
      BY <1>1, <1>2, <1>3, <1>4 DEF Reached
  <2> QED BY <1>6, <2>1, FS_Subset DEF Count
<1> QED BY <1>2, <1>3, <1>5, <1>6, <1>8, <1>9, <1>10, <1>11

-----------------------------------------------------------------------------
(* The invariant.                                                          *)

\* An attempt that has a row of its own and has not settled it.
Midway(q) == q.place = "active" /\ q.step \in {"send", "sent", "failed"}

\* The customer may have heard once more than faults explain: the message of this
\* attempt, or of the one that ended the job.
Slack(q) ==
    IF q.place \in {"completed", "failed"} \/ (q.place = "active" /\ q.step \in {"sent", "stamp"})
    THEN 1 ELSE 0

\* The row of an unsettled attempt, as long as nothing came between.
Fresh(r, sent) == r.status = "queued" /\ r.sent = sent /\ ~r.linked /\ r.heard = "none"

\* What RecordsHonest asks of a row.
TellsTruth(r) ==
    r.status = IF r.heard # "none" THEN r.heard ELSE IF r.sent # "no" THEN "sent" ELSE "failed"

RowFits(q, s, k) ==
    \/ s[k].hit
    \/ IF Midway(q) /\ k = Len(s)
       THEN Fresh(s[k], IF q.step = "sent" THEN "taken" ELSE "no")
       ELSE TellsTruth(s[k])

\* What lets a job j end well without having told anybody.
Excuses(j) == IF j[1] = "status" THEN {"customer", "devices"} ELSE {"consent"}

\* A job j whose place is q, with rows s, p rounds of push, n slips and excuse x.
JobFits(j, q, s, p, n, x) ==
    /\ q.place # "failed" => q.tries < Attempts
    /\ Count(s) + p <= n + Slack(q)
    /\ Midway(q) => s # <<>>
    /\ q.place = "active" /\ q.step = "sent" => s[Len(s)].sent # "no"
    /\ q.place = "active" /\ q.step = "stamp" => j[1] # "status" /\ Count(s) > 0
    /\ q.place = "active" /\ q.step = "push" => j[1] = "status"
    /\ q.place = "completed" /\ HasTemplate(j) => Count(s) + p > 0 \/ x \in Excuses(j)
    /\ \A k \in 1 .. Len(s) : RowFits(q, s, k)

JobsFit == \A j \in Jobs : JobFits(j, job[j], records[j], pushes[j], slips[j], excuse[j])

\* A job that waits, waits once.
QueueSound ==
    /\ \A a \in 1 .. Len(waiting) : job[waiting[a]].place = "waiting"
    /\ \A a, b \in 1 .. Len(waiting) : waiting[a] = waiting[b] => a = b

\* What the publisher has still to hand in was never in the queue.
NotQueuedYet ==
    \A n \in Changes :
        /\ publisher[n] \in {"ahead", "status"} => job[<<"status", n>>].place = "none"
        /\ publisher[n] = "invoice" => History[n] = "delivered"
        /\ publisher[n] \in {"ahead", "status", "invoice"} /\ History[n] = "delivered"
              => job[<<"invoice", n>>].place = "none"

MessagingInv == TypeOK /\ JobsFit /\ QueueSound /\ NotQueuedYet

LEMMA ChangesFinite == Len(History) \in Nat
BY MessagingAssumption

LEMMA InitMessaging == Init => MessagingInv
<1> SUFFICES ASSUME Init PROVE MessagingInv
    OBVIOUS
<1>1. TypeOK
    BY MessagingAssumption DEF Init, TypeOK, Place, Step, Excuse
<1>2. JobsFit
    BY MessagingAssumption, EmptyCount DEF Init, JobsFit, JobFits, Slack, Midway
<1>3. QueueSound
    BY DEF Init, QueueSound
<1>4. NotQueuedYet
    BY DEF Init, NotQueuedYet, Jobs
<1> QED BY <1>1, <1>2, <1>3, <1>4 DEF MessagingInv

-----------------------------------------------------------------------------
(* An attempt of a job.                                                    *)

\* Only job j moves, and neither the queue nor the publisher does.
OnlyJob(j) ==
    /\ UNCHANGED <<publisher, waiting>>
    /\ job[j].place = "active"
    /\ \A i \in Jobs \ {j} :
          /\ job'[i] = job[i]
          /\ records'[i] = records[i]
          /\ pushes'[i] = pushes[i]
          /\ slips'[i] = slips[i]
          /\ excuse'[i] = excuse[i]

LEMMA JobMoves ==
    ASSUME MessagingInv, TypeOK', NEW j \in Jobs, OnlyJob(j),
           JobFits(j, job'[j], records'[j], pushes'[j], slips'[j], excuse'[j])
    PROVE  MessagingInv'
<1> USE DEF MessagingInv, OnlyJob
<1>1. JobsFit'
    BY DEF JobsFit
<1>2. QueueSound'
  <2>1. \A a \in 1 .. Len(waiting) : waiting[a] \in Jobs
      BY DEF TypeOK
  <2> QED BY <2>1 DEF QueueSound
<1>3. NotQueuedYet'
    BY ZenonT(60) DEF NotQueuedYet, Jobs
<1> QED BY <1>1, <1>2, <1>3

\* The shape of what a job has.
LEMMA JobTypes ==
    ASSUME MessagingInv, NEW j \in Jobs
    PROVE  /\ job[j] \in JobState
           /\ records[j] \in Seq(Record)
           /\ pushes[j] \in Nat
           /\ slips[j] \in Nat
           /\ excuse[j] \in Excuse
           /\ Count(records[j]) \in Nat
           /\ JobFits(j, job[j], records[j], pushes[j], slips[j], excuse[j])
BY CountIsNat DEF MessagingInv, TypeOK, JobState, JobsFit

\* What becomes of the job itself.
JobGoes(j, q) == job' = [job EXCEPT ![j] = q]

LEMMA Moves ==
    ASSUME MessagingInv, NEW j \in Jobs, At(j, job[j].step), NEW q, q = job'[j]
    PROVE  /\ \A step \in Step : Goto(j, step) =>
                  /\ JobGoes(j, q) /\ q \in JobState
                  /\ q.place = "active" /\ q.step = step /\ q.tries < Attempts
           /\ Complete(j) =>
                  /\ JobGoes(j, q) /\ q \in JobState
                  /\ q.place = "completed" /\ q.tries < Attempts
           /\ Throw(j) =>
                  /\ JobGoes(j, q) /\ q \in JobState
                  /\ q.place \in {"backoff", "failed"}
                  /\ q.place # "failed" => q.tries < Attempts
<1>1. /\ job[j] \in JobState /\ job \in [Jobs -> JobState]
      /\ job[j].place = "active" /\ job[j].tries < Attempts
    BY JobTypes DEF JobFits, At, Active, MessagingInv, TypeOK, JobState
<1>2. ASSUME NEW step \in Step, Goto(j, step)
      PROVE  /\ JobGoes(j, q) /\ q \in JobState
             /\ q.place = "active" /\ q.step = step /\ q.tries < Attempts
  <2>1. job' = [job EXCEPT ![j] = [job[j] EXCEPT !.step = step]]
      BY <1>2 DEF Goto
  <2>2. q = [job[j] EXCEPT !.step = step]
      BY <1>1, <2>1
  <2> QED BY <1>1, <2>1, <2>2 DEF JobGoes, JobState
<1>3. ASSUME Complete(j)
      PROVE  /\ JobGoes(j, q) /\ q \in JobState
             /\ q.place = "completed" /\ q.tries < Attempts
  <2>1. job' = [job EXCEPT ![j] = [job[j] EXCEPT !.place = "completed"]]
      BY <1>3 DEF Complete
  <2>2. q = [job[j] EXCEPT !.place = "completed"]
      BY <1>1, <2>1
  <2> QED BY <1>1, <2>1, <2>2 DEF JobGoes, JobState, Place
<1>4. ASSUME Throw(j)
      PROVE  /\ JobGoes(j, q) /\ q \in JobState
             /\ q.place \in {"backoff", "failed"}
             /\ q.place # "failed" => q.tries < Attempts
  <2> DEFINE then == [job[j] EXCEPT
                 !.place = IF job[j].tries + 1 < Attempts THEN "backoff" ELSE "failed",
                 !.tries = job[j].tries + 1]
  <2>1. job' = [job EXCEPT ![j] = then]
      BY <1>1, <1>4 DEF Throw
  <2>2. q = then
      BY <1>1, <2>1
  <2>3. then \in JobState
    <3>1. job[j].tries + 1 \in 0 .. Attempts
        BY <1>1, MessagingAssumption DEF JobState
    <3>2. \A place \in Place : \A tries \in 0 .. Attempts :
              [job[j] EXCEPT !.place = place, !.tries = tries] \in JobState
        BY <1>1 DEF JobState
    <3> QED BY <3>1, <3>2 DEF Place
  <2> QED BY <1>1, <2>1, <2>2, <2>3, MessagingAssumption DEF JobGoes, JobState
<1> QED BY <1>2, <1>3, <1>4

\* A step that writes no row of j, or writes rows s there, and pushes and slips.
LEMMA StepFits ==
    ASSUME MessagingInv, NEW j \in Jobs, job[j].place = "active",
           NEW q \in JobState, JobGoes(j, q),
           NEW s \in Seq(Record), records' = [records EXCEPT ![j] = s],
           NEW p \in Nat, pushes' = [pushes EXCEPT ![j] = p],
           NEW n \in Nat, slips' = [slips EXCEPT ![j] = n],
           NEW x \in Excuse, excuse' = [excuse EXCEPT ![j] = x],
           incidents' \in 0 .. MaxIncidents, UNCHANGED <<publisher, waiting>>,
           JobFits(j, q, s, p, n, x)
    PROVE  MessagingInv'
<1>1. TypeOK
    BY DEF MessagingInv
<1>2. /\ job'[j] = q /\ records'[j] = s /\ pushes'[j] = p /\ slips'[j] = n
      /\ excuse'[j] = x
      /\ OnlyJob(j)
    BY <1>1 DEF TypeOK, JobGoes, OnlyJob
<1>3. TypeOK'
    BY <1>1 DEF TypeOK, JobGoes, JobState
<1> QED BY <1>2, <1>3, JobMoves

\* Steps of an attempt that write no row.
LEMMA StepsWithoutRow ==
    ASSUME MessagingInv, NEW j \in Jobs,
           \/ NothingToTell(j) \/ MayWhatsapp(j) \/ NoWhatsapp(j) \/ NoCustomer(j)
           \/ ReadFails(j)
           \/ CreateRowFails(j) \/ SendRefused(j) \/ Stamp(j) \/ StampFails(j)
           \/ Push(j) \/ PushReachesNobody(j) \/ PushFails(j)
    PROVE  MessagingInv'
<1> DEFINE q == job'[j]
           s == records[j]
           p == pushes[j]
           n == slips[j]
           x == excuse[j]
<1> HIDE DEF q
<1>1. /\ job[j] \in JobState /\ s \in Seq(Record) /\ p \in Nat /\ n \in Nat /\ x \in Excuse
      /\ Count(s) \in Nat
      /\ JobFits(j, job[j], s, p, n, x)
    BY JobTypes
<1>2. /\ records \in [Jobs -> Seq(Record)] /\ pushes \in [Jobs -> Nat]
      /\ slips \in [Jobs -> Nat] /\ excuse \in [Jobs -> Excuse]
      /\ incidents \in 0 .. MaxIncidents
    BY DEF MessagingInv, TypeOK
<1>3. /\ job[j].place = "active" /\ At(j, job[j].step)
      /\ incidents' \in 0 .. MaxIncidents /\ UNCHANGED <<publisher, waiting>>
      /\ records' = [records EXCEPT ![j] = s]
    BY <1>2, MessagingAssumption
       DEF NothingToTell, MayWhatsapp, NoWhatsapp, NoCustomer, ReadFails, CreateRowFails,
           SendRefused, Stamp, StampFails, Push, PushReachesNobody, PushFails, At, Active,
           Incident
<1> DEFINE Going(place, step) ==
               /\ JobGoes(j, q) /\ q \in JobState /\ q.place = place
               /\ place = "active" => q.step = step
               /\ q.place # "failed" => q.tries < Attempts
<1>4. /\ \A step \in Step : Goto(j, step) => Going("active", step)
      /\ Complete(j) => Going("completed", "read")
      /\ Throw(j) => Going("backoff", "read") \/ Going("failed", "read")
    BY <1>3, Moves DEF q
<1> HIDE DEF Going
<1>5. CASE NothingToTell(j) \/ MayWhatsapp(j) \/ NoWhatsapp(j) \/ NoCustomer(j) \/ ReadFails(j)
  <2>1. PICK y \in Excuse :
          /\ job[j].step = "read" /\ excuse' = [excuse EXCEPT ![j] = y]
          /\ pushes' = [pushes EXCEPT ![j] = p] /\ slips' = [slips EXCEPT ![j] = n]
          /\ \/ Going("active", "record") \/ (Going("active", "push") /\ j[1] = "status")
             \/ Going("backoff", "read") \/ Going("failed", "read")
             \/ Going("completed", "read") /\ (HasTemplate(j) => y \in Excuses(j))
    <3>1. CASE NothingToTell(j) \/ MayWhatsapp(j) \/ ReadFails(j)
      <4>1. excuse' = [excuse EXCEPT ![j] = x]
          BY <1>2, <3>1 DEF NothingToTell, MayWhatsapp, ReadFails
      <4> QED BY <1>1, <1>2, <1>4, <3>1, <4>1
              DEF NothingToTell, MayWhatsapp, ReadFails, At, Step
    <3>2. CASE NoWhatsapp(j) /\ j[1] = "status"
      <4>1. excuse' = [excuse EXCEPT ![j] = x]
          BY <1>2, <3>2 DEF NoWhatsapp
      <4> QED BY <1>1, <1>2, <1>4, <3>2, <4>1 DEF NoWhatsapp, At, Step
    <3>3. CASE NoWhatsapp(j) /\ j[1] # "status"
      <4>1. "consent" \in Excuse /\ "consent" \in Excuses(j)
          BY <3>3 DEF Excuse, Excuses
      <4> QED BY <1>1, <1>2, <1>4, <3>3, <4>1 DEF NoWhatsapp, CompleteUntold, At
    <3>4. CASE NoCustomer(j)
      <4>1. "customer" \in Excuse /\ "customer" \in Excuses(j)
          BY <3>4 DEF Excuse, Excuses, NoCustomer
      <4> QED BY <1>1, <1>2, <1>4, <3>4, <4>1 DEF NoCustomer, CompleteUntold, At
    <3> QED BY <1>5, <3>1, <3>2, <3>3, <3>4
  <2>2. JobFits(j, q, s, p, n, y) /\ JobGoes(j, q) /\ q \in JobState
      BY <1>1, <1>3, <2>1 DEF JobFits, Slack, RowFits, Midway, Going
  <2> QED BY <1>1, <1>3, <2>1, <2>2, StepFits
<1>6. CASE CreateRowFails(j)
  <2>1. /\ job[j].step = "record"
        /\ pushes' = [pushes EXCEPT ![j] = p] /\ slips' = [slips EXCEPT ![j] = n]
        /\ excuse' = [excuse EXCEPT ![j] = x]
        /\ \/ Going("active", "push") /\ j[1] = "status"
           \/ Going("backoff", "read") \/ Going("failed", "read")
      BY <1>2, <1>4, <1>6 DEF CreateRowFails, SendThrows, At, Step
  <2>2. JobFits(j, q, s, p, n, x) /\ JobGoes(j, q) /\ q \in JobState
      BY <1>1, <1>3, <2>1 DEF JobFits, Slack, RowFits, Midway, Going
  <2> QED BY <1>1, <1>3, <2>1, <2>2, StepFits
<1>7. CASE SendRefused(j)
  <2>1. /\ job[j].step = "send"
        /\ pushes' = [pushes EXCEPT ![j] = p] /\ slips' = [slips EXCEPT ![j] = n]
        /\ excuse' = [excuse EXCEPT ![j] = x]
        /\ Going("active", "failed")
      BY <1>2, <1>4, <1>7 DEF SendRefused, At, Step
  <2>2. JobFits(j, q, s, p, n, x) /\ JobGoes(j, q) /\ q \in JobState
      BY <1>1, <1>3, <2>1 DEF JobFits, Slack, RowFits, Midway, Going
  <2> QED BY <1>1, <1>3, <2>1, <2>2, StepFits
<1>8. CASE Stamp(j)
  <2>1. /\ job[j].step = "stamp"
        /\ pushes' = [pushes EXCEPT ![j] = p] /\ slips' = [slips EXCEPT ![j] = n]
        /\ excuse' = [excuse EXCEPT ![j] = x]
        /\ Going("completed", "read")
      BY <1>2, <1>4, <1>8 DEF Stamp, At
  <2>2. JobFits(j, q, s, p, n, x) /\ JobGoes(j, q) /\ q \in JobState
      BY <1>1, <1>3, <2>1 DEF JobFits, Slack, RowFits, Midway, Going
  <2> QED BY <1>1, <1>3, <2>1, <2>2, StepFits
<1>9. CASE StampFails(j)
  <2>1. /\ job[j].step = "stamp"
        /\ pushes' = [pushes EXCEPT ![j] = p] /\ slips' = [slips EXCEPT ![j] = n + 1]
        /\ excuse' = [excuse EXCEPT ![j] = x]
        /\ Going("backoff", "read") \/ Going("failed", "read")
      BY <1>2, <1>4, <1>9 DEF StampFails, Slip, At
  <2>2. JobFits(j, q, s, p, n + 1, x) /\ JobGoes(j, q) /\ q \in JobState
      BY <1>1, <1>3, <2>1 DEF JobFits, Slack, RowFits, Midway, Going
  <2>3. n + 1 \in Nat
      BY <1>1
  <2> QED BY <1>1, <1>3, <2>1, <2>2, <2>3, StepFits
<1>10. CASE Push(j)
  <2>1. /\ job[j].step = "push"
        /\ pushes' = [pushes EXCEPT ![j] = p + 1] /\ slips' = [slips EXCEPT ![j] = n]
        /\ excuse' = [excuse EXCEPT ![j] = x]
        /\ Going("completed", "read")
      BY <1>2, <1>4, <1>10 DEF Push, At
  <2>2. JobFits(j, q, s, p + 1, n, x) /\ JobGoes(j, q) /\ q \in JobState
      BY <1>1, <1>3, <2>1 DEF JobFits, Slack, RowFits, Midway, Going
  <2>3. p + 1 \in Nat
      BY <1>1
  <2> QED BY <1>1, <1>3, <2>1, <2>2, <2>3, StepFits
<1>11. CASE PushReachesNobody(j)
  <2>1. /\ job[j].step = "push"
        /\ pushes' = [pushes EXCEPT ![j] = p] /\ slips' = [slips EXCEPT ![j] = n]
        /\ excuse' = [excuse EXCEPT ![j] = "devices"]
        /\ Going("completed", "read")
      BY <1>2, <1>4, <1>11 DEF PushReachesNobody, CompleteUntold, At
  <2>0. j[1] = "status"
      BY <1>1, <1>3, <2>1 DEF JobFits
  <2>3. "devices" \in Excuse /\ "devices" \in Excuses(j)
      BY <2>0 DEF Excuse, Excuses
  <2>2. JobFits(j, q, s, p, n, "devices") /\ JobGoes(j, q) /\ q \in JobState
      BY <1>1, <1>3, <2>1, <2>3 DEF JobFits, Slack, RowFits, Midway, Going
  <2> QED BY <1>1, <1>3, <2>1, <2>2, <2>3, StepFits
<1>12. CASE PushFails(j)
  <2>1. PICK d \in {0, 1} :
          /\ job[j].step = "push"
          /\ pushes' = [pushes EXCEPT ![j] = p + d] /\ slips' = [slips EXCEPT ![j] = n + d]
          /\ excuse' = [excuse EXCEPT ![j] = x]
          /\ Going("backoff", "read") \/ Going("failed", "read")
    <3>1. PICK reached \in BOOLEAN :
              IF reached THEN /\ pushes' = [pushes EXCEPT ![j] = @ + 1] /\ Slip(j)
                         ELSE UNCHANGED <<pushes, slips>>
        BY <1>12 DEF PushFails
    <3>2. CASE reached
        BY <1>2, <1>4, <1>12, <3>1, <3>2 DEF PushFails, Slip, At
    <3>3. CASE ~reached
        BY <1>1, <1>2, <1>4, <1>12, <3>1, <3>3 DEF PushFails, At
    <3> QED BY <3>2, <3>3
  <2>2. JobFits(j, q, s, p + d, n + d, x) /\ JobGoes(j, q) /\ q \in JobState
      BY <1>1, <1>3, <2>1 DEF JobFits, Slack, RowFits, Midway, Going
  <2>3. p + d \in Nat /\ n + d \in Nat
      BY <1>1
  <2> QED BY <1>1, <1>3, <2>1, <2>2, <2>3, StepFits
<1> QED BY <1>5, <1>6, <1>7, <1>8, <1>9, <1>10, <1>11, <1>12

\* A step that writes r over the attempt's row.
LEMMA RewriteFits ==
    ASSUME MessagingInv, NEW j \in Jobs, Midway(job[j]),
           NEW q \in JobState, JobGoes(j, q),
           NEW r \in Record, WriteRow(j, r),
           NEW d \in Nat, slips' = [slips EXCEPT ![j] = slips[j] + d],
           incidents' \in 0 .. MaxIncidents, UNCHANGED <<publisher, waiting, pushes, excuse>>,
           q.place # "failed" => q.tries < Attempts,
           q.place = "active" /\ q.step = "sent" => r.sent # "no",
           q.place = "active" /\ q.step = "stamp" => j[1] # "status" /\ r.sent # "no",
           q.place = "active" /\ q.step = "push" => j[1] = "status",
           q.place = "completed" => r.sent # "no",
           \/ r.hit
           \/ IF Midway(q) THEN Fresh(r, IF q.step = "sent" THEN "taken" ELSE "no")
                           ELSE TellsTruth(r),
           Slack(job[j]) <= d + Slack(q),
           \/ r.sent # "no" => Row(j).sent # "no"
           \/ Slack(job[j]) + 1 <= d + Slack(q)
    PROVE  MessagingInv'
<1> DEFINE s == records[j]
           k == Len(s)
           t == [s EXCEPT ![k] = r]
           p == pushes[j]
           n == slips[j]
           x == excuse[j]
<1>1. /\ job[j] \in JobState /\ s \in Seq(Record) /\ p \in Nat /\ n \in Nat /\ x \in Excuse
      /\ Count(s) \in Nat
      /\ JobFits(j, job[j], s, p, n, x)
    BY JobTypes
<1>2. /\ records \in [Jobs -> Seq(Record)] /\ pushes \in [Jobs -> Nat]
      /\ excuse \in [Jobs -> Excuse]
    BY DEF MessagingInv, TypeOK
<1>3. s # <<>> /\ job[j].place = "active"
    BY <1>1 DEF JobFits, Midway
<1>0. k \in 1 .. Len(s)
    BY <1>1, <1>3, EmptySeq, LenProperties
<1> HIDE DEF k
<1>k. k = Len(s)
    BY DEF k
<1> HIDE DEF s, t
<1>4. /\ k \in 1 .. k
      /\ t \in Seq(Record)
      /\ t # <<>>
      /\ Len(t) = k /\ Len(s) = k
      /\ t[k] = r
      /\ \A i \in 1 .. k : i # k => t[i] = s[i]
      /\ Count(t) \in Nat
      /\ Count(t) <= Count(s) + 1
      /\ (r.sent # "no" => s[k].sent # "no") => Count(t) <= Count(s)
      /\ r.sent # "no" => Count(t) > 0
  <2>1. /\ t \in Seq(Record)
        /\ t # <<>>
        /\ Len(t) = Len(s)
        /\ t[k] = r
        /\ \A i \in 1 .. Len(s) : i # k => t[i] = s[i]
        /\ Count(t) \in Nat
        /\ Count(t) <= Count(s) + 1
        /\ (r.sent # "no" => s[k].sent # "no") => Count(t) <= Count(s)
        /\ r.sent # "no" => Count(t) > 0
      BY <1>0, <1>1, CountRewrite DEF t
  <2> QED BY <1>0, <1>k, <2>1
<1>5. records' = [records EXCEPT ![j] = t] /\ pushes' = [pushes EXCEPT ![j] = p]
      /\ excuse' = [excuse EXCEPT ![j] = x]
    BY <1>2 DEF WriteRow, s, t, k
<1>6. n + d \in Nat
    BY <1>1
<1>7. Slack(q) \in {0, 1} /\ Slack(job[j]) \in {0, 1}
    BY DEF Slack
<1>8. Count(t) + p <= n + d + Slack(q)
  <2>1. Count(s) + p <= n + Slack(job[j])
      BY <1>1 DEF JobFits
  <2> DEFINE a == Count(s)
             b == Count(t)
             u == Slack(job[j])
             v == Slack(q)
  <2>0. /\ a \in Nat /\ b \in Nat /\ u \in Nat /\ v \in Nat /\ p \in Nat /\ n \in Nat
        /\ b <= a + 1
      BY <1>1, <1>4, <1>7
  <2>2. CASE r.sent # "no" => s[k].sent # "no"
    <3>1. b <= a
        BY <1>4, <2>2
    <3> HIDE DEF a, b, u, v, p, n
    <3> QED BY <2>0, <2>1, <3>1 DEF a, b, u, v, p, n
  <2>3. CASE Slack(job[j]) + 1 <= d + Slack(q)
    <3> HIDE DEF a, b, u, v, p, n
    <3> QED BY <2>0, <2>1, <2>3 DEF a, b, u, v, p, n
  <2> QED BY <2>2, <2>3 DEF Row, s, k
<1>9. \A i \in 1 .. k : RowFits(q, t, i)
  <2>1. RowFits(q, t, k)
      BY <1>4 DEF RowFits
  <2>2. ASSUME NEW i \in 1 .. k, i # k
        PROVE  RowFits(q, t, i)
      BY <1>1, <1>4, <2>2 DEF JobFits, RowFits
  <2> QED BY <2>1, <2>2
<1>10. JobFits(j, q, t, p, n + d, x)
    BY <1>1, <1>4, <1>8, <1>9 DEF JobFits
<1> QED BY <1>1, <1>3, <1>4, <1>5, <1>6, <1>10, StepFits

\* The row of an unsettled attempt; untouched, it is as its step left it.
LEMMA TheRow ==
    ASSUME MessagingInv, NEW j \in Jobs, Midway(job[j])
    PROVE  /\ Row(j) \in Record
           /\ job[j].step = "sent" => Row(j).sent # "no"
           /\ Slack(job[j]) = IF job[j].step = "sent" THEN 1 ELSE 0
           /\ \/ Row(j).hit
              \/ Fresh(Row(j), IF job[j].step = "sent" THEN "taken" ELSE "no")
<1> DEFINE s == records[j]
<1>1. s \in Seq(Record) /\ JobFits(j, job[j], s, pushes[j], slips[j], excuse[j])
    BY JobTypes
<1>2. s # <<>>
    BY <1>1 DEF JobFits
<1>3. Len(s) \in 1 .. Len(s)
    BY <1>1, <1>2, EmptySeq, LenProperties
<1> QED BY <1>1, <1>2, <1>3 DEF JobFits, RowFits, Row, Midway, Slack

\* Steps of an attempt that write its row.
LEMMA StepsWithRow ==
    ASSUME MessagingInv, NEW j \in Jobs,
           \/ Simulate(j) \/ LookupFails(j) \/ Send(j) \/ SendAnswerLost(j)
           \/ RecordSent(j) \/ RecordSentFails(j)
           \/ RecordFailed(j) \/ RecordFailedFails(j)
    PROVE  MessagingInv'
<1> DEFINE q == job'[j]
           o == Row(j)
<1> HIDE DEF q
<1>1. /\ slips \in [Jobs -> Nat] /\ slips[j] \in Nat /\ incidents \in 0 .. MaxIncidents
    BY DEF MessagingInv, TypeOK
<1>2. /\ Midway(job[j]) /\ At(j, job[j].step)
      /\ incidents' \in 0 .. MaxIncidents /\ UNCHANGED <<publisher, waiting, pushes, excuse>>
  <2>1. \E step \in {"send", "sent", "failed"} : At(j, step)
      BY DEF Simulate, LookupFails, Send, SendAnswerLost, RecordSent, RecordSentFails,
             RecordFailed, RecordFailedFails
  <2>2. /\ UNCHANGED incidents \/ Incident
        /\ UNCHANGED <<publisher, waiting, pushes, excuse>>
      BY DEF Simulate, LookupFails, Send, SendAnswerLost, RecordSent, RecordSentFails,
             RecordFailed, RecordFailedFails
  <2>3. incidents' \in 0 .. MaxIncidents
      BY <1>1, <2>2, MessagingAssumption DEF Incident
  <2> QED BY <2>1, <2>2, <2>3 DEF Midway, At, Active
<1>3. /\ o \in Record
      /\ job[j].step = "sent" => o.sent # "no"
      /\ Slack(job[j]) = IF job[j].step = "sent" THEN 1 ELSE 0
      /\ \/ o.hit
         \/ Fresh(o, IF job[j].step = "sent" THEN "taken" ELSE "no")
    BY <1>2, TheRow
<1> HIDE DEF o
<1> DEFINE Going(place, step) ==
               /\ JobGoes(j, q) /\ q \in JobState /\ q.place = place
               /\ place = "active" => q.step = step
               /\ q.place # "failed" => q.tries < Attempts
<1>4. /\ \A step \in Step : Goto(j, step) => Going("active", step)
      /\ Complete(j) => Going("completed", "read")
      /\ Throw(j) => Going("backoff", "read") \/ Going("failed", "read")
    BY <1>2, Moves DEF q
<1>5. /\ UNCHANGED slips => slips' = [slips EXCEPT ![j] = slips[j] + 0]
      /\ Slip(j) => slips' = [slips EXCEPT ![j] = slips[j] + 1]
    BY <1>1 DEF Slip
<1> DEFINE Throws == (Going("active", "push") /\ j[1] = "status") \/ Going("backoff", "read") \/ Going("failed", "read")
           Done == Going("completed", "read") \/ (Going("active", "stamp") /\ j[1] # "status")
<1> HIDE DEF Going
<1>6. (SendThrows(j) => Throws) /\ (AfterSend(j) => Done)
    BY <1>4 DEF SendThrows, AfterSend, Step
<1>7. CASE Simulate(j)
  <2> DEFINE r == [o EXCEPT !.status = "sent", !.sent = "simulated", !.linked = TRUE]
  <2>1. Done /\ WriteRow(j, r) /\ job[j].step = "send" /\ UNCHANGED slips
      BY <1>6, <1>7 DEF Simulate, At, o
  <2>2. /\ r \in Record /\ r.sent # "no"
        /\ r.hit \/ TellsTruth(r)
      BY <1>3, <2>1 DEF Record, ReceiptStatus, Fresh, TellsTruth
  <2>3. Slack(q) = 1 /\ ~Midway(q)
      BY <2>1 DEF Going, Slack, Midway
  <2>4. /\ q \in JobState /\ JobGoes(j, q)
        /\ q.place # "failed" => q.tries < Attempts
        /\ ~(q.place = "active" /\ q.step \in {"sent", "push"})
        /\ q.place = "active" /\ q.step = "stamp" => j[1] # "status"
      BY <2>1 DEF Going
  <2> HIDE DEF r
  <2> QED BY <1>2, <1>3, <1>5, <2>1, <2>2, <2>3, <2>4, RewriteFits DEF o
<1>8. CASE LookupFails(j)
  <2> DEFINE r == [o EXCEPT !.hit = TRUE]
  <2>1. Throws /\ WriteRow(j, r) /\ job[j].step = "send" /\ UNCHANGED slips
      BY <1>6, <1>8 DEF LookupFails, At, o
  <2>2. r \in Record /\ r.sent = o.sent /\ r.hit
      BY <1>3 DEF Record
  <2>3. Slack(q) \in {0, 1} /\ ~Midway(q)
      BY <2>1 DEF Going, Slack, Midway
  <2>4. /\ q \in JobState /\ JobGoes(j, q)
        /\ q.place # "failed" => q.tries < Attempts
        /\ ~(q.place = "active" /\ q.step \in {"sent", "stamp"}) /\ q.place # "completed"
        /\ q.place = "active" /\ q.step = "push" => j[1] = "status"
      BY <2>1 DEF Going
  <2> HIDE DEF r
  <2> QED BY <1>2, <1>3, <1>5, <2>1, <2>2, <2>3, <2>4, RewriteFits DEF o
<1>9. CASE Send(j)
  <2> DEFINE r == [o EXCEPT !.sent = "taken"]
  <2>1. Going("active", "sent") /\ WriteRow(j, r) /\ job[j].step = "send" /\ UNCHANGED slips
      BY <1>4, <1>9 DEF Send, At, o, Step
  <2>2. r \in Record /\ r.sent # "no" /\ (r.hit \/ Fresh(r, "taken"))
      BY <1>3, <2>1 DEF Record, Fresh
  <2>3. Slack(q) = 1
      BY <2>1 DEF Going, Slack
  <2>4. /\ q \in JobState /\ JobGoes(j, q) /\ q.place = "active" /\ q.step = "sent"
        /\ q.tries < Attempts
      BY <2>1 DEF Going
  <2> HIDE DEF r
  <2> QED BY <1>2, <1>3, <1>5, <2>1, <2>2, <2>3, <2>4, RewriteFits DEF o, Midway
<1>10. CASE SendAnswerLost(j)
  <2> DEFINE r == [o EXCEPT !.sent = "taken", !.hit = TRUE]
  <2>1. Going("active", "failed") /\ WriteRow(j, r) /\ job[j].step = "send" /\ Slip(j)
      BY <1>4, <1>10 DEF SendAnswerLost, At, o, Step
  <2>2. r \in Record /\ r.sent # "no" /\ r.hit
      BY <1>3 DEF Record
  <2>3. Slack(q) = 0
      BY <2>1 DEF Going, Slack
  <2>4. /\ q \in JobState /\ JobGoes(j, q) /\ q.place = "active" /\ q.step = "failed"
        /\ q.tries < Attempts
      BY <2>1 DEF Going
  <2> HIDE DEF r
  <2> QED BY <1>2, <1>3, <1>5, <2>1, <2>2, <2>3, <2>4, RewriteFits DEF o
<1>11. CASE RecordSent(j)
  <2>0. PICK linked \in BOOLEAN :
            WriteRow(j, [o EXCEPT !.status = "sent", !.linked = linked])
      BY <1>11 DEF RecordSent, o
  <2> DEFINE r == [o EXCEPT !.status = "sent", !.linked = linked]
  <2>1. Done /\ WriteRow(j, r) /\ job[j].step = "sent" /\ UNCHANGED slips
      BY <1>6, <1>11, <2>0 DEF RecordSent, At
  <2>2. /\ r \in Record /\ r.sent = o.sent /\ o.sent # "no"
        /\ r.hit \/ TellsTruth(r)
      BY <1>3, <2>1 DEF Record, ReceiptStatus, Fresh, TellsTruth
  <2>3. Slack(q) = 1 /\ ~Midway(q)
      BY <2>1 DEF Going, Slack, Midway
  <2>4. /\ q \in JobState /\ JobGoes(j, q)
        /\ q.place # "failed" => q.tries < Attempts
        /\ ~(q.place = "active" /\ q.step \in {"sent", "push"})
        /\ q.place = "active" /\ q.step = "stamp" => j[1] # "status"
      BY <2>1 DEF Going
  <2> HIDE DEF r
  <2> QED BY <1>2, <1>3, <1>5, <2>1, <2>2, <2>3, <2>4, RewriteFits DEF o
<1>12. CASE RecordSentFails(j)
  <2> DEFINE R(applied, linked) ==
                 IF applied THEN [o EXCEPT !.status = "sent", !.linked = linked, !.hit = TRUE]
                            ELSE [o EXCEPT !.hit = TRUE]
  <2>1. /\ Going("active", "failed") /\ job[j].step = "sent" /\ Slip(j)
        /\ \E applied, linked \in BOOLEAN : WriteRow(j, R(applied, linked))
      BY <1>4, <1>12 DEF RecordSentFails, At, o, Step
  <2>a. PICK applied \in BOOLEAN, linked \in BOOLEAN : WriteRow(j, R(applied, linked))
      BY <2>1
  <2> DEFINE r == R(applied, linked)
  <2>2. WriteRow(j, r)
      BY <2>a
  <2>3. r \in Record /\ r.sent = o.sent /\ r.hit
      BY <1>3 DEF Record, ReceiptStatus
  <2> HIDE DEF r
  <2>4. Slack(q) = 0
      BY <2>1 DEF Going, Slack
  <2>5. /\ q \in JobState /\ JobGoes(j, q) /\ q.place = "active" /\ q.step = "failed"
        /\ q.tries < Attempts
      BY <2>1 DEF Going
  <2> HIDE DEF R
  <2> QED BY <1>2, <1>3, <1>5, <2>1, <2>2, <2>3, <2>4, <2>5, RewriteFits DEF o
<1>13. CASE RecordFailed(j)
  <2> DEFINE r == [o EXCEPT !.status = "failed"]
  <2>1. Throws /\ WriteRow(j, r) /\ job[j].step = "failed" /\ UNCHANGED slips
      BY <1>6, <1>13 DEF RecordFailed, At, o
  <2>2. /\ r \in Record /\ r.sent = o.sent
        /\ r.hit \/ TellsTruth(r)
      BY <1>3, <2>1 DEF Record, ReceiptStatus, Fresh, TellsTruth
  <2>3. Slack(q) \in {0, 1} /\ ~Midway(q)
      BY <2>1 DEF Going, Slack, Midway
  <2>4. /\ q \in JobState /\ JobGoes(j, q)
        /\ q.place # "failed" => q.tries < Attempts
        /\ ~(q.place = "active" /\ q.step \in {"sent", "stamp"}) /\ q.place # "completed"
        /\ q.place = "active" /\ q.step = "push" => j[1] = "status"
      BY <2>1 DEF Going
  <2> HIDE DEF r
  <2> QED BY <1>2, <1>3, <1>5, <2>1, <2>2, <2>3, <2>4, RewriteFits DEF o
<1>14. CASE RecordFailedFails(j)
  <2> DEFINE r == [o EXCEPT !.hit = TRUE]
  <2>1. Throws /\ WriteRow(j, r) /\ job[j].step = "failed" /\ UNCHANGED slips
      BY <1>6, <1>14 DEF RecordFailedFails, At, o
  <2>2. r \in Record /\ r.sent = o.sent /\ r.hit
      BY <1>3 DEF Record
  <2>3. Slack(q) \in {0, 1} /\ ~Midway(q)
      BY <2>1 DEF Going, Slack, Midway
  <2>4. /\ q \in JobState /\ JobGoes(j, q)
        /\ q.place # "failed" => q.tries < Attempts
        /\ ~(q.place = "active" /\ q.step \in {"sent", "stamp"}) /\ q.place # "completed"
        /\ q.place = "active" /\ q.step = "push" => j[1] = "status"
      BY <2>1 DEF Going
  <2> HIDE DEF r
  <2> QED BY <1>2, <1>3, <1>5, <2>1, <2>2, <2>3, <2>4, RewriteFits DEF o
<1> QED BY <1>7, <1>8, <1>9, <1>10, <1>11, <1>12, <1>13, <1>14

\* A new row.
LEMMA CreateRowFits ==
    ASSUME MessagingInv, NEW j \in Jobs, CreateRow(j)
    PROVE  MessagingInv'
<1> DEFINE q == job'[j]
           s == records[j]
           t == Append(s, NewRecord)
           p == pushes[j]
           n == slips[j]
           x == excuse[j]
<1>1. /\ job[j] \in JobState /\ s \in Seq(Record) /\ p \in Nat /\ n \in Nat /\ x \in Excuse
      /\ Count(s) \in Nat
      /\ JobFits(j, job[j], s, p, n, x)
    BY JobTypes
<1>2. /\ records \in [Jobs -> Seq(Record)] /\ pushes \in [Jobs -> Nat]
      /\ slips \in [Jobs -> Nat] /\ excuse \in [Jobs -> Excuse] /\ incidents \in 0 .. MaxIncidents
    BY DEF MessagingInv, TypeOK
<1>3. /\ At(j, job[j].step) /\ job[j].place = "active" /\ job[j].step = "record"
      /\ Goto(j, "send") /\ UNCHANGED <<publisher, waiting, incidents>>
      /\ records' = [records EXCEPT ![j] = t]
      /\ pushes' = [pushes EXCEPT ![j] = p] /\ slips' = [slips EXCEPT ![j] = n]
      /\ excuse' = [excuse EXCEPT ![j] = x]
    BY <1>2 DEF CreateRow, At, Active
<1>4. /\ JobGoes(j, q) /\ q \in JobState /\ q.place = "active" /\ q.step = "send"
      /\ q.tries < Attempts
    BY <1>3, Moves DEF Step
<1>5. /\ t \in Seq(Record)
      /\ Len(t) = Len(s) + 1
      /\ t[Len(t)] = NewRecord
      /\ \A k \in 1 .. Len(s) : t[k] = s[k]
      /\ Count(t) = Count(s)
    BY <1>1, CountAppend
<1>6. Len(s) \in Nat
    BY <1>1, LenProperties
<1> HIDE DEF q, t, s
<1>7. \A k \in 1 .. Len(t) : RowFits(q, t, k)
  <2>1. RowFits(q, t, Len(t))
      BY <1>4, <1>5 DEF RowFits, Midway, Fresh, NewRecord
  <2>2. ASSUME NEW k \in 1 .. Len(s)
        PROVE  RowFits(q, t, k)
      BY <1>1, <1>3, <1>4, <1>5, <1>6 DEF JobFits, RowFits, Midway
  <2> QED BY <1>5, <1>6, <2>1, <2>2
<1>8. t # <<>>
    BY <1>5, <1>6
<1>9. JobFits(j, q, t, p, n, x)
    BY <1>1, <1>3, <1>4, <1>5, <1>7, <1>8 DEF JobFits, Slack, Midway
<1> QED BY <1>1, <1>2, <1>3, <1>4, <1>5, <1>9, StepFits

LEMMA AttemptKeeps ==
    ASSUME MessagingInv, NEW j \in Jobs, Attempt(j)
    PROVE  MessagingInv'
BY StepsWithoutRow, StepsWithRow, CreateRowFits DEF Attempt

-----------------------------------------------------------------------------
(* The publisher, the queue and the webhook.                               *)

\* A job that no attempt has in hand: what it has told is what it says.
Calm(q) ==
    /\ ~Midway(q) /\ Slack(q) = 0 /\ (q.place = "active" => q.step = "read")
    /\ q.place \notin {"completed", "failed"}

LEMMA CalmFits ==
    ASSUME NEW j, NEW q, NEW r, NEW s, NEW p, NEW n, NEW x,
           JobFits(j, q, s, p, n, x), Calm(q), Calm(r), r.tries = q.tries
    PROVE  JobFits(j, r, s, p, n, x)
BY DEF JobFits, RowFits, Calm, Slack

LEMMA CommitKeeps ==
    ASSUME MessagingInv, NEW n \in Changes, Commit(n) \/ PublishFails(n)
    PROVE  MessagingInv'
<1>1. \A c \in Changes \ {n} : publisher'[c] = publisher[c]
    BY DEF Commit, PublishFails, MessagingInv, TypeOK
<1>2. /\ publisher'[n] \in {"status", "lost"}
      /\ publisher'[n] = "status" => publisher[n] = "ahead"
    BY DEF Commit, PublishFails, MessagingInv, TypeOK
<1>3. TypeOK'
  <2>1. publisher' \in [Changes -> {"ahead", "status", "invoice", "done", "lost"}]
      BY DEF Commit, PublishFails, MessagingInv, TypeOK
  <2>2. incidents' \in 0 .. MaxIncidents
      BY MessagingAssumption DEF Commit, PublishFails, Incident, MessagingInv, TypeOK
  <2> QED BY <2>1, <2>2 DEF Commit, PublishFails, MessagingInv, TypeOK
<1>4. JobsFit' /\ QueueSound'
    BY DEF Commit, PublishFails, MessagingInv, JobsFit, QueueSound
<1>5. UNCHANGED job
    BY DEF Commit, PublishFails
<1>6. NotQueuedYet'
    BY <1>1, <1>2, <1>5 DEF MessagingInv, NotQueuedYet
<1> QED BY <1>3, <1>4, <1>6 DEF MessagingInv

\* What handing a job to the queue does.
LEMMA EnqueueKeeps ==
    ASSUME MessagingInv, NEW j \in Jobs, job[j].place \in {"none", "backoff"},
           Enqueue(j), UNCHANGED <<records, pushes, excuse, slips, incidents>>,
           publisher' \in [Changes -> {"ahead", "status", "invoice", "done", "lost"}]
    PROVE  /\ TypeOK' /\ JobsFit' /\ QueueSound'
           /\ \A i \in Jobs \ {j} : job'[i] = job[i]
<1> DEFINE q == [job[j] EXCEPT !.place = "waiting"]
<1>1. job \in [Jobs -> JobState] /\ waiting \in Seq(Jobs)
    BY DEF MessagingInv, TypeOK, JobState
<1>2. job' = [job EXCEPT ![j] = q] /\ q \in JobState /\ q.place = "waiting" /\ q.tries = job[j].tries
    BY <1>1 DEF Enqueue, JobState, Place
<1>3. waiting' = Append(waiting, j)
    BY DEF Enqueue
<1> HIDE DEF q
<1>4. job'[j] = q /\ \A i \in Jobs \ {j} : job'[i] = job[i]
    BY <1>1, <1>2
<1>5. /\ waiting' \in Seq(Jobs) /\ Len(waiting) \in Nat
      /\ Len(waiting') = Len(waiting) + 1 /\ waiting'[Len(waiting) + 1] = j
      /\ \A a \in 1 .. Len(waiting) : waiting'[a] = waiting[a] /\ waiting[a] \in Jobs
    BY <1>1, <1>3
<1>6. TypeOK'
    BY <1>1, <1>2, <1>5 DEF MessagingInv, TypeOK, JobState
<1>7. JobsFit'
  <2>1. Calm(job[j]) /\ Calm(q)
      BY <1>2 DEF Calm, Midway, Slack
  <2>2. JobFits(j, q, records[j], pushes[j], slips[j], excuse[j])
      BY <1>2, <2>1, CalmFits, JobTypes
  <2> QED BY <1>4, <2>2 DEF JobsFit, MessagingInv
<1>8. QueueSound'
  <2>1. \A a \in 1 .. Len(waiting) : waiting[a] # j
      BY DEF MessagingInv, QueueSound
  <2>2. \A a \in 1 .. Len(waiting') : job'[waiting'[a]].place = "waiting"
      BY <1>2, <1>4, <1>5, <2>1 DEF MessagingInv, QueueSound
  <2>3. \A a, b \in 1 .. Len(waiting') : waiting'[a] = waiting'[b] => a = b
      BY <1>5, <2>1 DEF MessagingInv, QueueSound
  <2> QED BY <2>2, <2>3 DEF QueueSound
<1> QED BY <1>4, <1>6, <1>7, <1>8

LEMMA PublishKeeps ==
    ASSUME MessagingInv, NEW n \in Changes, PublishStatus(n) \/ PublishInvoice(n)
    PROVE  MessagingInv'
<1>1. CASE PublishStatus(n)
  <2> DEFINE j == <<"status", n>>
  <2>1. j \in Jobs /\ job[j].place = "none"
      BY <1>1 DEF PublishStatus, MessagingInv, NotQueuedYet, Jobs
  <2>2. /\ publisher' \in [Changes -> {"ahead", "status", "invoice", "done", "lost"}]
        /\ publisher'[n] = IF History[n] = "delivered" THEN "invoice" ELSE "done"
        /\ \A c \in Changes \ {n} : publisher'[c] = publisher[c]
      BY <1>1 DEF PublishStatus, MessagingInv, TypeOK
  <2>3. /\ TypeOK' /\ JobsFit' /\ QueueSound'
        /\ \A i \in Jobs \ {j} : job'[i] = job[i]
      BY <1>1, <2>1, <2>2, EnqueueKeeps DEF PublishStatus
  <2>4. NotQueuedYet'
    <3>1. ASSUME NEW c \in Changes
          PROVE  /\ c # n => <<"status", c>> \in Jobs \ {j}
                 /\ History[c] = "delivered" => <<"invoice", c>> \in Jobs \ {j}
        BY DEF Jobs
    <3>2. ASSUME NEW c \in Changes \ {n}
          PROVE  /\ publisher'[c] = publisher[c]
                 /\ job'[<<"status", c>>] = job[<<"status", c>>]
                 /\ History[c] = "delivered" => job'[<<"invoice", c>>] = job[<<"invoice", c>>]
        BY <2>2, <2>3, <3>1
    <3>3. History[n] = "delivered" => job'[<<"invoice", n>>] = job[<<"invoice", n>>]
        BY <2>3, <3>1
    <3>4. publisher[n] = "status"
        BY <1>1 DEF PublishStatus
    <3> DEFINE Holds(c) ==
               /\ publisher'[c] \in {"ahead", "status"} => job'[<<"status", c>>].place = "none"
               /\ publisher'[c] = "invoice" => History[c] = "delivered"
               /\ publisher'[c] \in {"ahead", "status", "invoice"} /\ History[c] = "delivered"
                     => job'[<<"invoice", c>>].place = "none"
    <3>5. Holds(n)
        BY <2>2, <3>3, <3>4 DEF MessagingInv, NotQueuedYet
    <3>6. ASSUME NEW c \in Changes \ {n} PROVE Holds(c)
        BY <3>2 DEF MessagingInv, NotQueuedYet
    <3> QED BY <3>5, <3>6 DEF NotQueuedYet
  <2> QED BY <2>3, <2>4 DEF MessagingInv
<1>2. CASE PublishInvoice(n)
  <2> DEFINE j == <<"invoice", n>>
  <2>1. j \in Jobs /\ job[j].place = "none"
      BY <1>2 DEF PublishInvoice, MessagingInv, NotQueuedYet, Jobs
  <2>2. /\ publisher' \in [Changes -> {"ahead", "status", "invoice", "done", "lost"}]
        /\ publisher'[n] = "done"
        /\ \A c \in Changes \ {n} : publisher'[c] = publisher[c]
      BY <1>2 DEF PublishInvoice, MessagingInv, TypeOK
  <2>3. /\ TypeOK' /\ JobsFit' /\ QueueSound'
        /\ \A i \in Jobs \ {j} : job'[i] = job[i]
      BY <1>2, <2>1, <2>2, EnqueueKeeps DEF PublishInvoice
  <2>4. NotQueuedYet'
    <3>1. ASSUME NEW c \in Changes
          PROVE  /\ <<"status", c>> \in Jobs \ {j}
                 /\ History[c] = "delivered" /\ c # n => <<"invoice", c>> \in Jobs \ {j}
        BY DEF Jobs
    <3> QED BY <2>2, <2>3, <3>1 DEF MessagingInv, NotQueuedYet
  <2> QED BY <2>3, <2>4 DEF MessagingInv
<1> QED BY <1>1, <1>2

LEMMA EndBackoffKeeps ==
    ASSUME MessagingInv, NEW j \in Jobs, EndBackoff(j)
    PROVE  MessagingInv'
<1>1. /\ TypeOK' /\ JobsFit' /\ QueueSound'
      /\ \A i \in Jobs \ {j} : job'[i] = job[i]
    BY EnqueueKeeps DEF EndBackoff, MessagingInv, TypeOK
<1>2. NotQueuedYet'
    BY <1>1 DEF EndBackoff, MessagingInv, NotQueuedYet, Jobs
<1> QED BY <1>1, <1>2 DEF MessagingInv

LEMMA TakeKeeps ==
    ASSUME MessagingInv, Take
    PROVE  MessagingInv'
<1> DEFINE j == Head(waiting)
           q == [job[j] EXCEPT !.place = "active", !.step = "read"]
<1>1. job \in [Jobs -> JobState] /\ waiting \in Seq(Jobs) /\ waiting # <<>>
    BY DEF MessagingInv, TypeOK, JobState, Take
<1>2. /\ j \in Jobs /\ j = waiting[1] /\ Len(waiting) \in Nat \ {0}
      /\ Tail(waiting) \in Seq(Jobs) /\ Len(Tail(waiting)) = Len(waiting) - 1
      /\ \A a \in 1 .. Len(Tail(waiting)) :
            Tail(waiting)[a] = waiting[a + 1] /\ waiting[a + 1] \in Jobs
    BY <1>1, HeadTailProperties, EmptySeq, LenProperties
<1>3. /\ job' = [job EXCEPT ![j] = q] /\ q \in JobState /\ q.place = "active"
      /\ q.step = "read" /\ q.tries = job[j].tries
    BY <1>1, <1>2, ZenonT(60) DEF Take, JobState, Place, Step
<1>4. waiting' = Tail(waiting) /\ UNCHANGED <<publisher, records, pushes, excuse, slips, incidents>>
    BY DEF Take
<1>5. job[j].place = "waiting"
    BY <1>2 DEF MessagingInv, QueueSound
<1> HIDE DEF j, q
<1>6. job'[j] = q /\ \A i \in Jobs \ {j} : job'[i] = job[i]
    BY <1>1, <1>2, <1>3
<1>7. TypeOK'
    BY <1>1, <1>2, <1>3, <1>4 DEF MessagingInv, TypeOK, JobState
<1>8. JobsFit'
  <2>1. Calm(job[j]) /\ Calm(q)
      BY <1>3, <1>5 DEF Calm, Midway, Slack
  <2>2. JobFits(j, q, records[j], pushes[j], slips[j], excuse[j])
      BY <1>2, <1>3, <2>1, CalmFits, JobTypes
  <2> QED BY <1>4, <1>6, <2>2 DEF JobsFit, MessagingInv
<1>9. QueueSound'
  <2>1. \A a \in 1 .. Len(waiting') : waiting'[a] = waiting[a + 1] /\ a + 1 \in 1 .. Len(waiting)
      BY <1>2, <1>4
  <2>2. \A a \in 1 .. Len(waiting') : waiting'[a] # j
      BY <1>2, <2>1 DEF MessagingInv, QueueSound
  <2>3. \A a \in 1 .. Len(waiting') : job'[waiting'[a]].place = "waiting"
      BY <1>2, <1>4, <1>6, <2>1, <2>2 DEF MessagingInv, QueueSound
  <2>4. \A a, b \in 1 .. Len(waiting') : waiting'[a] = waiting'[b] => a = b
      BY <2>1 DEF MessagingInv, QueueSound
  <2> QED BY <2>3, <2>4 DEF QueueSound
<1>10. NotQueuedYet'
    BY <1>4, <1>5, <1>6 DEF MessagingInv, NotQueuedYet, Jobs
<1> QED BY <1>7, <1>8, <1>9, <1>10 DEF MessagingInv

\* A receipt changes what a row of a message WhatsApp took says, and no count.
LEMMA ReceiptKeeps ==
    ASSUME MessagingInv, NEW j \in Jobs, NEW k \in DOMAIN records[j],
           NEW receipt \in ReceiptStatus, Receipt(j, k, receipt)
    PROVE  MessagingInv'
<1> DEFINE s == records[j]
           o == s[k]
           r == IF o.linked THEN [o EXCEPT !.status = receipt, !.heard = receipt] ELSE o
           t == [s EXCEPT ![k] = r]
           q == job[j]
           p == pushes[j]
           n == slips[j]
           x == excuse[j]
<1>1. /\ q \in JobState /\ s \in Seq(Record) /\ p \in Nat /\ n \in Nat
      /\ Count(s) \in Nat
      /\ JobFits(j, q, s, p, n, x)
    BY JobTypes
<1>2. records \in [Jobs -> Seq(Record)]
    BY DEF MessagingInv, TypeOK
<1>3. k \in 1 .. Len(s) /\ Len(s) \in Nat /\ o \in Record
    BY <1>1, LenProperties
<1>4. /\ o.sent = "taken" /\ Incident /\ UNCHANGED <<publisher, job, waiting, pushes, excuse, slips>>
      /\ records' = [records EXCEPT ![j] = t]
  <2>1. CASE o.linked
    <3>1. r = [o EXCEPT !.status = receipt, !.heard = receipt]
        BY <2>1
    <3> QED BY <1>2, <2>1, <3>1 DEF Receipt
  <2>2. CASE ~o.linked
    <3>1. t = s
        BY <1>1, <1>3, <2>2
    <3> QED BY <1>2, <2>2, <3>1 DEF Receipt
  <2> QED BY <2>1, <2>2
<1>5. r \in Record /\ r.sent = o.sent
    BY <1>3 DEF Record, ReceiptStatus
<1>6. /\ r.hit = o.hit
      /\ o.linked => r.status = receipt /\ r.heard = receipt
      /\ ~o.linked => r = o
    BY <1>3 DEF Record
<1> HIDE DEF s, o, r, t
<1>7. /\ t \in Seq(Record)
      /\ t # <<>>
      /\ Len(t) = Len(s)
      /\ t[k] = r
      /\ \A i \in 1 .. Len(s) : i # k => t[i] = s[i]
      /\ Count(t) \in Nat
      /\ Count(t) <= Count(s)
      /\ r.sent # "no" => Count(t) > 0
      /\ Count(t) >= Count(s)
    BY <1>1, <1>3, <1>5, CountRewrite DEF t, o
<1>8. \A i \in 1 .. Len(t) : RowFits(q, t, i)
  <2>1. RowFits(q, s, k)
      BY <1>1, <1>3 DEF JobFits
  <2>2. RowFits(q, t, k)
      BY <1>4, <1>6, <1>7, <2>1 DEF RowFits, Fresh, TellsTruth, ReceiptStatus, o
  <2>3. ASSUME NEW i \in 1 .. Len(s), i # k
        PROVE  RowFits(q, t, i)
      BY <1>1, <1>7, <2>3 DEF JobFits, RowFits
  <2> QED BY <1>7, <2>2, <2>3
<1>9. JobFits(j, q, t, p, n, x)
  <2>1. \A i \in 1 .. Len(s) : t[i].sent = s[i].sent
      BY <1>3, <1>5, <1>7 DEF o
  <2>2. s # <<>> => Len(s) \in 1 .. Len(s)
      BY <1>1, EmptySeq, LenProperties
  <2> QED BY <1>1, <1>7, <1>8, <2>1, <2>2 DEF JobFits, Midway
<1>10. TypeOK'
    BY <1>4, <1>7, MessagingAssumption DEF Incident, MessagingInv, TypeOK
<1>11. JobsFit'
    BY <1>2, <1>4, <1>7, <1>9 DEF JobsFit, MessagingInv
<1>12. QueueSound' /\ NotQueuedYet'
    BY <1>4 DEF MessagingInv, QueueSound, NotQueuedYet
<1> QED BY <1>10, <1>11, <1>12 DEF MessagingInv

LEMMA JobsFinite == IsFiniteSet(Jobs)
<1> DEFINE f == [n \in Changes |-> <<"status", n>>]
           g == [n \in Changes |-> <<"invoice", n>>]
           F == {f[n] : n \in Changes}
           G == {g[n] : n \in Changes}
<1>1. IsFiniteSet(Changes)
    BY ChangesFinite, FS_Interval DEF Changes
<1>2. f \in Surjection(Changes, F) /\ g \in Surjection(Changes, G)
    BY DEF Surjection
<1>3. IsFiniteSet(F) /\ IsFiniteSet(G)
    BY <1>1, <1>2, FS_Surjection
<1>4. IsFiniteSet(F \cup G)
    BY <1>3, FS_Union
<1>5. Jobs \subseteq F \cup G
    BY DEF Jobs
<1> QED BY <1>4, <1>5, FS_Subset

\* A crash leaves a job's row hit, and slips once more.
LEMMA CrashFits ==
    ASSUME MessagingInv, NEW j \in Jobs, job[j].place = "active",
           job'[j].place \in {"waiting", "failed"}, job'[j].tries = job[j].tries,
           records'[j] = IF records[j] = <<>> THEN <<>>
                         ELSE [records[j] EXCEPT ![Len(records[j])] =
                                  [records[j][Len(records[j])] EXCEPT !.hit = TRUE]]
    PROVE  records'[j] \in Seq(Record) /\ JobFits(j, job'[j], records'[j], pushes[j], slips[j] + 1, excuse[j])
<1> DEFINE s == records[j]
           t == records'[j]
           q == job'[j]
           p == pushes[j]
           n == slips[j]
           x == excuse[j]
           k == Len(s)
<1>1. /\ s \in Seq(Record) /\ p \in Nat /\ n \in Nat
      /\ Count(s) \in Nat
      /\ JobFits(j, job[j], s, p, n, x)
    BY JobTypes
<1>2. Slack(job[j]) \in {0, 1} /\ Slack(q) \in {0, 1} /\ ~Midway(q)
    BY DEF Slack, Midway
<1>3. Count(s) + p <= n + 1
    BY <1>1, <1>2 DEF JobFits
<1>4. CASE s = <<>>
  <2>1. t = <<>>
      BY <1>4
  <2> HIDE DEF s, t, q, p, n
  <2> QED BY <1>1, <1>2, <1>3, <1>4, <2>1 DEF JobFits, q, t, p, n
<1>5. CASE s # <<>>
  <2> DEFINE r == [s[k] EXCEPT !.hit = TRUE]
  <2>1. t = [s EXCEPT ![k] = r] /\ k \in 1 .. Len(s)
      BY <1>1, <1>5, EmptySeq, LenProperties
  <2>0. s[k] \in Record
      BY <1>1, <2>1
  <2>a. r \in Record
      BY <2>0 DEF Record
  <2>d. r.hit /\ r.sent = s[k].sent
      BY <2>0 DEF Record
  <2>b. k = Len(s)
      OBVIOUS
  <2>2. q.place \in {"waiting", "failed"} /\ q.tries = job[j].tries
      OBVIOUS
  <2> HIDE DEF s, t, q, p, n, k, r
  <2>c. /\ t \in Seq(Record) /\ Len(t) = Len(s) /\ t[k] = r
        /\ \A i \in 1 .. Len(s) : i # k => t[i] = s[i]
      BY <1>1, <2>1, <2>a, ExceptSeq
  <2>e. Count(t) = Count(s)
    <3>1. \A i \in 1 .. Len(s) : t[i].sent = s[i].sent
        BY <2>c, <2>d
    <3> QED BY <1>1, <2>c, <3>1, CountSame
  <2>3. /\ t \in Seq(Record) /\ Len(t) = k /\ t[k].hit
        /\ \A i \in 1 .. k : i # k => t[i] = s[i]
        /\ Count(t) \in Nat /\ Count(t) <= Count(s)
      BY <1>1, <2>b, <2>c, <2>d, <2>e
  <2>4. \A i \in 1 .. Len(t) : RowFits(q, t, i)
    <3>1. RowFits(q, t, k)
        BY <2>3 DEF RowFits
    <3>2. ASSUME NEW i \in 1 .. k, i # k PROVE RowFits(q, t, i)
        BY <1>1, <1>2, <2>b, <2>3, <3>2 DEF JobFits, RowFits
    <3> QED BY <2>3, <3>1, <3>2
  <2>5. Count(t) + p <= (n + 1) + Slack(q)
      BY <1>1, <1>2, <1>3, <2>3
  <2> QED BY <1>1, <1>2, <2>2, <2>3, <2>4, <2>5 DEF JobFits, q, t, p, n
<1> QED BY <1>4, <1>5

LEMMA CrashKeeps ==
    ASSUME MessagingInv, Crash
    PROVE  MessagingInv'
<1> DEFINE again == {j \in Active : job[j].stalls < MaxStalls}
           m == Cardinality(again)
<1>1. /\ job \in [Jobs -> JobState] /\ waiting \in Seq(Jobs) /\ Len(waiting) \in Nat
      /\ records \in [Jobs -> Seq(Record)] /\ slips \in [Jobs -> Nat]
    BY DEF MessagingInv, TypeOK, JobState
<1>2. PICK order \in [1 .. m -> again] :
        /\ \A j \in again : \E k \in DOMAIN order : order[k] = j
        /\ waiting' = waiting \o order
    BY DEF Crash
<1>3. /\ IsFiniteSet(again) /\ m \in Nat /\ m = Cardinality(again)
      /\ again \subseteq Jobs /\ again \subseteq Active
  <2>1. again \subseteq Jobs
      BY DEF Active
  <2> QED BY <2>1, JobsFinite, FS_Subset, FS_CardinalityType
<1> HIDE DEF m
<1>a. \A j \in Jobs : j \in again <=> j \in Active /\ job[j].stalls < MaxStalls
    BY DEF Active
<1> HIDE DEF again
<1>4. \A a, b \in 1 .. m : order[a] = order[b] => a = b
  <2>1. IsFiniteSet(1 .. m) /\ Cardinality(1 .. m) = m
      BY <1>3, FS_Interval
  <2>2. order \in Surjection(1 .. m, again)
      BY <1>2 DEF Surjection
  <2>3. order \in Injection(1 .. m, again)
      BY <1>3, <2>1, <2>2, FS_SurjSameCardinalityImpliesInj
  <2> QED BY <2>3 DEF Injection, IsInjective
<1>5. order \in Seq(Jobs) /\ Len(order) = m
  <2>1. order \in [1 .. m -> Jobs]
      BY <1>2, <1>3
  <2> QED BY <1>3, <2>1
<1>6. /\ waiting' \in Seq(Jobs) /\ Len(waiting') = Len(waiting) + m
      /\ \A a \in 1 .. Len(waiting') :
            waiting'[a] = IF a <= Len(waiting) THEN waiting[a] ELSE order[a - Len(waiting)]
  <2>1. /\ waiting \o order \in Seq(Jobs)
        /\ Len(waiting \o order) = Len(waiting) + Len(order)
        /\ \A a \in 1 .. Len(waiting) + Len(order) :
              (waiting \o order)[a] =
                  IF a <= Len(waiting) THEN waiting[a] ELSE order[a - Len(waiting)]
      BY <1>1, <1>5, ConcatProperties
  <2> QED BY <1>2, <1>5, <2>1
<1>7. ASSUME NEW j \in Jobs
      PROVE  /\ job'[j].tries = job[j].tries /\ job'[j] \in JobState
             /\ job[j].place # "active" => job'[j] = job[j]
             /\ j \in again => job'[j].place = "waiting"
             /\ job[j].place = "active" => job'[j].place \in {"waiting", "failed"}
  <2>1. CASE j \notin Active
      BY <1>1, <1>a, <2>1 DEF Crash, Active
  <2>2. CASE j \in Active /\ job[j].stalls < MaxStalls
    <3>1. job'[j] = [job[j] EXCEPT !.place = "waiting", !.stalls = job[j].stalls + 1]
        BY <2>2 DEF Crash
    <3>2. job[j] \in JobState /\ job[j].stalls + 1 \in 0 .. MaxStalls
        BY <1>1, <2>2, MessagingAssumption DEF JobState
    <3> QED BY <2>2, <3>1, <3>2 DEF JobState, Place, Active
  <2>3. CASE j \in Active /\ ~(job[j].stalls < MaxStalls)
    <3>1. job'[j] = [job[j] EXCEPT !.place = "failed"] /\ j \notin again
        BY <1>a, <2>3 DEF Crash
    <3>2. job[j] \in JobState
        BY <1>1
    <3> QED BY <2>3, <3>1, <3>2 DEF JobState, Place, Active
  <2> QED BY <2>1, <2>2, <2>3
<1>8. ASSUME NEW j \in Jobs
      PROVE  /\ records'[j] \in Seq(Record) /\ slips'[j] \in Nat
             /\ JobFits(j, job'[j], records'[j], pushes'[j], slips'[j], excuse'[j])
  <2>1. CASE job[j].place # "active"
    <3>1. /\ records'[j] = records[j] /\ pushes'[j] = pushes[j] /\ slips'[j] = slips[j]
          /\ excuse'[j] = excuse[j]
          /\ job'[j] = job[j]
        BY <1>7, <2>1 DEF Crash, Active
    <3> QED BY <3>1, JobTypes, SMTT(40)
  <2>2. CASE job[j].place = "active"
    <3>1. /\ records'[j] = IF records[j] = <<>> THEN <<>>
                           ELSE [records[j] EXCEPT ![Len(records[j])] =
                                [records[j][Len(records[j])] EXCEPT !.hit = TRUE]]
          /\ pushes'[j] = pushes[j] /\ slips'[j] = slips[j] + 1
          /\ excuse'[j] = excuse[j]
        BY <2>2 DEF Crash, Active
    <3>2. job'[j].place \in {"waiting", "failed"} /\ job'[j].tries = job[j].tries
        BY <1>7, <2>2
    <3>3. slips[j] \in Nat
        BY <1>1
    <3>4. /\ records'[j] \in Seq(Record)
          /\ JobFits(j, job'[j], records'[j], pushes[j], slips[j] + 1, excuse[j])
        BY <2>2, <3>1, <3>2, CrashFits
    <3> QED BY <3>1, <3>3, <3>4
  <2> QED BY <2>1, <2>2
<1>9. TypeOK'
  <2>1. DOMAIN job' = Jobs /\ job' = [j \in Jobs |-> job'[j]]
      BY DEF Crash
  <2>2. job' \in [Jobs -> JobState]
      BY <1>7, <2>1
  <2>3. /\ records' = [j \in Jobs |-> records'[j]]
        /\ slips' = [j \in Jobs |-> slips'[j]]
      BY DEF Crash
  <2>4. records' \in [Jobs -> Seq(Record)] /\ slips' \in [Jobs -> Nat]
      BY <1>8, <2>3
  <2>5. incidents' \in 0 .. MaxIncidents
    <3>1. Incident /\ incidents \in 0 .. MaxIncidents
        BY DEF Crash, MessagingInv, TypeOK
    <3> QED BY <3>1, MessagingAssumption DEF Incident
  <2>6. publisher' \in [Changes -> {"ahead", "status", "invoice", "done", "lost"}]
      BY DEF Crash, MessagingInv, TypeOK
  <2>7. pushes' \in [Jobs -> Nat] /\ excuse' \in [Jobs -> Excuse]
      BY DEF Crash, MessagingInv, TypeOK
  <2> QED BY <1>6, <2>2, <2>4, <2>5, <2>6, <2>7 DEF TypeOK, JobState
<1>10. JobsFit'
    BY <1>8 DEF JobsFit
<1>11. QueueSound'
  <2>1. \A a \in 1 .. Len(waiting) : waiting[a] \in Jobs /\ job[waiting[a]].place = "waiting"
      BY <1>1 DEF MessagingInv, QueueSound
  <2>2. \A b \in 1 .. m : order[b] \in again /\ job[order[b]].place = "active"
      BY <1>2, <1>3 DEF Active
  <2>3. ASSUME NEW a \in 1 .. Len(waiting')
        PROVE  IF a <= Len(waiting) THEN a \in 1 .. Len(waiting)
                                    ELSE a - Len(waiting) \in 1 .. m
      BY <1>1, <1>3, <1>6
  <2>4. \A a \in 1 .. Len(waiting') : job'[waiting'[a]].place = "waiting"
    <3> TAKE a \in 1 .. Len(waiting')
    <3>1. CASE a <= Len(waiting)
        BY <1>6, <1>7, <2>1, <2>3, <3>1
    <3>2. CASE ~(a <= Len(waiting))
        BY <1>3, <1>6, <1>7, <2>2, <2>3, <3>2
    <3> QED BY <3>1, <3>2
  <2>5. ASSUME NEW a \in 1 .. Len(waiting'), NEW b \in 1 .. Len(waiting'),
               waiting'[a] = waiting'[b]
        PROVE  a = b
    <3>1. CASE a <= Len(waiting) /\ b <= Len(waiting)
        BY <1>6, <2>3, <2>5, <3>1 DEF MessagingInv, QueueSound
    <3>2. CASE ~(a <= Len(waiting)) /\ ~(b <= Len(waiting))
      <4>1. a - Len(waiting) = b - Len(waiting)
          BY <1>4, <1>6, <2>3, <2>5, <3>2
      <4> QED BY <1>1, <1>6, <4>1
    <3>3. CASE (a <= Len(waiting)) # (b <= Len(waiting))
        BY <1>6, <2>1, <2>2, <2>3, <2>5, <3>3
    <3> QED BY <3>1, <3>2, <3>3
  <2> QED BY <2>4, <2>5 DEF QueueSound
<1>12. NotQueuedYet'
  <2>1. ASSUME NEW c \in Changes
        PROVE  publisher'[c] \in {"ahead", "status", "invoice"} => publisher'[c] = publisher[c]
      BY DEF Crash
  <2>2. \A j \in Jobs : job[j].place = "none" => job'[j].place = "none"
      BY <1>7
  <2> QED BY <2>1, <2>2 DEF MessagingInv, NotQueuedYet, Jobs
<1> QED BY <1>9, <1>10, <1>11, <1>12 DEF MessagingInv

-----------------------------------------------------------------------------
(* The theorems about what a customer is told.                             *)

LEMMA NextKeeps == MessagingInv /\ [Next]_vars => MessagingInv'
<1> SUFFICES ASSUME MessagingInv, [Next]_vars PROVE MessagingInv'
    OBVIOUS
<1>1. CASE UNCHANGED vars
    BY <1>1 DEF vars, MessagingInv, TypeOK, JobsFit, QueueSound, NotQueuedYet
<1>2. CASE \E n \in Changes :
              Commit(n) \/ PublishStatus(n) \/ PublishInvoice(n) \/ PublishFails(n)
    BY <1>2, CommitKeeps, PublishKeeps
<1>3. CASE Take \/ Crash
    BY <1>3, TakeKeeps, CrashKeeps
<1>4. CASE \E j \in Jobs : EndBackoff(j) \/ Attempt(j)
    BY <1>4, EndBackoffKeeps, AttemptKeeps
<1>5. CASE \E j \in Jobs : \E k \in DOMAIN records[j] :
              \E receipt \in ReceiptStatus : Receipt(j, k, receipt)
    BY <1>5, ReceiptKeeps
<1> QED BY <1>1, <1>2, <1>3, <1>4, <1>5 DEF Next

\* The queue, the jobs and their rows keep their types, a job that waits waits
\* once, and no change is handed to the queue twice.
THEOREM MessagingInvariant == Spec => []MessagingInv
<1> QED BY InitMessaging, NextKeeps, PTL DEF Spec

LEMMA AcceptedIsCount == ASSUME NEW j PROVE Accepted(j) = Count(records[j])
BY DEF Accepted, Count, Reached

\* However sends, their answers, retries and deaths of the process fall, a
\* customer hears of a change at most once more than faults explain.
THEOREM NobodyIsToldTwice == Spec => []NoticeOnce
<1>1. MessagingInv => NoticeOnce
  <2> SUFFICES ASSUME MessagingInv, NEW j \in Jobs
               PROVE  Accepted(j) + pushes[j] <= 1 + slips[j]
      BY DEF NoticeOnce
  <2>1. Slack(job[j]) \in {0, 1}
      BY DEF Slack
  <2>2. /\ pushes[j] \in Nat /\ slips[j] \in Nat /\ Count(records[j]) \in Nat
        /\ JobFits(j, job[j], records[j], pushes[j], slips[j], excuse[j])
      BY JobTypes
  <2>3. Count(records[j]) + pushes[j] <= slips[j] + Slack(job[j])
      BY <2>2 DEF JobFits
  <2> QED BY <2>1, <2>2, <2>3, AcceptedIsCount
<1> QED BY <1>1, MessagingInvariant, PTL

\* A job with something to tell that ended well has reached the customer, or knows
\* why it could not: in an invoice's case want of consent, in a status change's no
\* customer, or a round of push, tried after whatever else failed, that no device
\* took.
THEOREM CompletedJobsHaveTold == Spec => []CompletedMeansTold
<1>1. MessagingInv => CompletedMeansTold
    BY AcceptedIsCount DEF MessagingInv, JobsFit, JobFits, CompletedMeansTold, Excuses
<1> QED BY <1>1, MessagingInvariant, PTL

\* A row no fault hit says the last receipt that found it, else what became of its
\* message; no late write of the worker hides a receipt.
THEOREM RowsTellTheTruth == Spec => []RecordsHonest
<1>1. MessagingInv => RecordsHonest
  <2> SUFFICES ASSUME MessagingInv, NEW j \in Jobs, NEW k \in DOMAIN records[j],
                      k < Len(records[j]) \/ j \notin Active, ~records[j][k].hit
               PROVE  TellsTruth(records[j][k])
      BY DEF RecordsHonest, TellsTruth
  <2>1. records[j] \in Seq(Record) /\ JobFits(j, job[j], records[j], pushes[j], slips[j], excuse[j])
      BY JobTypes
  <2>2. k \in 1 .. Len(records[j])
      BY <2>1, LenProperties
  <2>3. ~(Midway(job[j]) /\ k = Len(records[j]))
      BY <2>2 DEF Midway, Active
  <2> QED BY <2>1, <2>2, <2>3 DEF JobFits, RowFits
<1> QED BY <1>1, MessagingInvariant, PTL

-----------------------------------------------------------------------------
(* Restock alerts.                                                         *)

\* Between the look for an open alert and the new row only the staff move, and
\* what they set open again is in reopened.
StillNone == check.step = "create" => Current \in reopened \/ Unsettled(Current) = {}

OneEach == \A f \in Fabric \ reopened : \A a, b \in Unsettled(f) : a = b

\* A pending alert that no digest listed is one of the check under way.
DueIsListed ==
    \A f \in Fabric : \A k \in DOMAIN alerts[f] :
        alerts[f][k].status = "pending" /\ alerts[f][k].mail = "due"
            => <<f, k>> \in check.created

AlertsInv ==
    /\ AlertsTypeOK
    /\ check.at \in 1 .. Len(Fabrics)
    /\ check.step = "idle" => check.created = {}
    /\ StillNone /\ OneEach /\ DueIsListed

\* Where a check goes after a setting.
LEMMA NextSettingIsCheck ==
    ASSUME AlertsInv, NEW created \in SUBSET (Fabric \X Nat)
    PROVE  LET c == NextSetting(created)
           IN /\ c \in Check /\ c.at \in 1 .. Len(Fabrics)
              /\ c.step \in {"idle", "stock", "digest"}
              /\ c.step = "idle" => created = {}
              /\ c.created = created
<1>1. Len(Fabrics) \in Nat \ {0}
    BY AlertsAssumption, EmptySeq, LenProperties
<1>2. check \in Check /\ check.at \in 1 .. Len(Fabrics)
    BY DEF AlertsInv, AlertsTypeOK
<1>3. CASE check.at < Len(Fabrics)
  <2>1. NextSetting(created) = [step |-> "stock", at |-> check.at + 1, created |-> created]
      BY <1>3 DEF NextSetting
  <2>2. check.at + 1 \in 1 .. Len(Fabrics)
      BY <1>1, <1>2, <1>3
  <2> QED BY <2>1, <2>2 DEF Check
<1>4. CASE ~(check.at < Len(Fabrics)) /\ created # {}
  <2>1. NextSetting(created) = [check EXCEPT !.step = "digest", !.created = created]
      BY <1>4 DEF NextSetting
  <2> QED BY <1>2, <1>4, <2>1 DEF Check
<1>5. CASE ~(check.at < Len(Fabrics)) /\ created = {}
  <2>1. NextSetting(created) = Idle
      BY <1>5 DEF NextSetting
  <2> QED BY <1>1, <1>5, <2>1 DEF Check, Idle
<1> QED BY <1>3, <1>4, <1>5

LEMMA AlertsInitHolds == AlertsInit => AlertsInv
<1>1. Len(Fabrics) \in Nat \ {0}
    BY AlertsAssumption, EmptySeq, LenProperties
<1>2. Idle \in Check /\ Idle.step = "idle" /\ Idle.created = {} /\ Idle.at = 1
    BY DEF Idle, Check
<1> QED BY <1>1, <1>2 DEF AlertsInit, AlertsInv, AlertsTypeOK, StillNone, OneEach, DueIsListed,
                          Unsettled

LEMMA CurrentIsFabric == AlertsInv => Current \in Fabric
BY AlertsAssumption, LenProperties DEF AlertsInv, Current, Fabric

\* A step of the check that writes no alert.
LEMMA CheckMovesOn ==
    ASSUME AlertsInv, check' \in Check, check'.at \in 1 .. Len(Fabrics),
           check'.step = "idle" => check'.created = {},
           check'.created = check.created,
           check'.step = "create" => Current' = Current /\ Unsettled(Current) = {},
           UNCHANGED <<alerts, reopened>>
    PROVE  AlertsInv'
BY DEF AlertsInv, AlertsTypeOK, StillNone, OneEach, DueIsListed, Unsettled, Fabric

\* Writing mail marks leaves the open alerts as they are.
LEMMA MailKeeps ==
    ASSUME AlertsInv, check' = Idle, UNCHANGED reopened,
           alerts' \in [Fabric -> Seq(AlertRow)],
           \A f \in Fabric :
              /\ DOMAIN alerts'[f] = DOMAIN alerts[f]
              /\ \A k \in DOMAIN alerts[f] :
                    /\ alerts'[f][k].status = alerts[f][k].status
                    /\ alerts[f][k].status = "pending" => alerts'[f][k].mail # "due"
    PROVE  AlertsInv'
<1>1. Len(Fabrics) \in Nat \ {0}
    BY AlertsAssumption, EmptySeq, LenProperties
<1>2. Idle \in Check /\ Idle.step = "idle" /\ Idle.created = {} /\ Idle.at = 1
    BY DEF Idle, Check
<1>3. \A f \in Fabric : Unsettled(f)' = Unsettled(f)
    BY DEF Unsettled
<1>4. OneEach'
    BY <1>3 DEF AlertsInv, OneEach
<1>5. DueIsListed'
    BY DEF DueIsListed
<1> QED BY <1>1, <1>2, <1>4, <1>5 DEF AlertsInv, AlertsTypeOK, StillNone

LEMMA AlertsNextKeeps == AlertsInv /\ [AlertsNext]_alertsVars => AlertsInv'
<1> SUFFICES ASSUME AlertsInv, [AlertsNext]_alertsVars PROVE AlertsInv'
    OBVIOUS
<1>0. /\ Len(Fabrics) \in Nat \ {0}
      /\ alerts \in [Fabric -> Seq(AlertRow)] /\ check \in Check
      /\ check.created \in SUBSET (Fabric \X Nat)
      /\ Current \in Fabric
    BY AlertsAssumption, EmptySeq, LenProperties, CurrentIsFabric
       DEF AlertsInv, AlertsTypeOK, Check
<1>1. CASE UNCHANGED alertsVars
  <2>1. alerts' = alerts /\ check' = check /\ reopened' = reopened
      BY <1>1 DEF alertsVars
  <2>2. StillNone' /\ OneEach' /\ DueIsListed'
      BY <2>1 DEF AlertsInv, StillNone, OneEach, DueIsListed, Unsettled, Current
  <2>3. AlertsTypeOK'
      BY <2>1 DEF AlertsInv, AlertsTypeOK
  <2>4. check'.at \in 1 .. Len(Fabrics) /\ (check'.step = "idle" => check'.created = {})
      BY <2>1 DEF AlertsInv
  <2> QED BY <2>2, <2>3, <2>4 DEF AlertsInv
<1>2. CASE StartCheck
  <2>1. check' \in Check /\ check'.at = 1 /\ check'.step = "stock" /\ check'.created = {}
      BY <1>2 DEF StartCheck, Idle, Check
  <2>2. check.created = {} /\ UNCHANGED <<alerts, reopened>>
      BY <1>2 DEF StartCheck, AlertsInv
  <2>3. 1 \in 1 .. Len(Fabrics)
      BY <1>0
  <2> QED BY <2>1, <2>2, <2>3, CheckMovesOn
<1>3. CASE ReadStock
  <2>1. CASE check' = [check EXCEPT !.step = "open"]
    <3>1. /\ check' \in Check /\ check'.at = check.at /\ check'.step = "open"
          /\ check'.created = check.created
        BY <1>0, <2>1 DEF Check
    <3> QED BY <1>3, <3>1, CheckMovesOn DEF ReadStock, AlertsInv
  <2>2. CASE check' = NextSetting(check.created)
      BY <1>0, <1>3, <2>2, NextSettingIsCheck, CheckMovesOn DEF ReadStock
  <2> QED BY <1>3, <2>1, <2>2 DEF ReadStock
<1>4. CASE FindOpen
  <2>1. CASE Open(Current) = {}
    <3>1. /\ check' \in Check /\ check'.at = check.at /\ check'.step = "create"
          /\ check'.created = check.created
        BY <1>0, <1>4, <2>1 DEF FindOpen, Check
    <3>2. Unsettled(Current) = {}
      <4>1. \A k \in DOMAIN alerts[Current] : alerts[Current][k] \in AlertRow
          BY <1>0, LenProperties
      <4> QED BY <2>1, <4>1 DEF Open, Unsettled, AlertRow, OpenStatus
    <3>3. Current' = Current
        BY <3>1 DEF Current
    <3> QED BY <1>4, <3>1, <3>2, <3>3, CheckMovesOn DEF FindOpen, AlertsInv
  <2>2. CASE Open(Current) # {}
      BY <1>0, <1>4, <2>2, NextSettingIsCheck, CheckMovesOn DEF FindOpen
  <2> QED BY <2>1, <2>2
<1>5. CASE CreateAlert
  <2>0. PICK c \in Fabric : c = Current
      BY <1>0
  <2> DEFINE s == alerts[c]
             n == Len(s) + 1
             new == [status |-> "pending", mail |-> "due"]
             t == Append(s, new)
             created == check.created \cup {<<c, n>>}
  <2>1. s \in Seq(AlertRow) /\ Len(s) \in Nat /\ DOMAIN s = 1 .. Len(s) /\ new \in AlertRow
      BY <1>0, LenProperties DEF AlertRow, OpenStatus
  <2>2. /\ t \in Seq(AlertRow) /\ DOMAIN t = 1 .. n
        /\ t[n] = new /\ \A k \in 1 .. Len(s) : t[k] = s[k]
      BY <2>1
  <2>3. /\ alerts' = [alerts EXCEPT ![c] = t] /\ check' = NextSetting(created)
        /\ check.step = "create" /\ UNCHANGED reopened
      BY <1>0, <1>5, <2>0 DEF CreateAlert
  <2>4. created \in SUBSET (Fabric \X Nat)
      BY <1>0, <2>1
  <2> HIDE DEF s, n, new, t, created
  <2>5. /\ check' \in Check /\ check'.at \in 1 .. Len(Fabrics)
        /\ check'.step # "create" /\ check'.created = created
        /\ check'.step = "idle" => created = {}
      BY <2>3, <2>4, NextSettingIsCheck
  <2>6. alerts' \in [Fabric -> Seq(AlertRow)] /\ alerts'[c] = t
        /\ \A f \in Fabric \ {c} : alerts'[f] = alerts[f]
      BY <1>0, <2>2, <2>3
  <2>7. OneEach'
    <3>1. \A f \in Fabric \ {c} : Unsettled(f)' = Unsettled(f)
        BY <2>6 DEF Unsettled
    <3>2. c \notin reopened => Unsettled(c)' = {n}
      <4>1. c \notin reopened => Unsettled(c) = {}
          BY <2>0, <2>3 DEF AlertsInv, StillNone
      <4>2. HAVE c \notin reopened
      <4>3. \A k \in 1 .. Len(s) : alerts'[c][k].status = "resolved"
          BY <2>1, <2>2, <2>6, <4>1, <4>2 DEF Unsettled, s
      <4>4. /\ alerts'[c][n].status # "resolved"
            /\ DOMAIN alerts'[c] = 1 .. Len(s) + 1 /\ n = Len(s) + 1
          BY <2>2, <2>6 DEF n, new
      <4> QED BY <2>1, <4>3, <4>4 DEF Unsettled
    <3> QED BY <2>3, <3>1, <3>2 DEF AlertsInv, OneEach
  <2>8. DueIsListed'
    <3>1. ASSUME NEW f \in Fabric, NEW k \in DOMAIN alerts'[f],
                 alerts'[f][k].status = "pending" /\ alerts'[f][k].mail = "due"
          PROVE  <<f, k>> \in created
      <4>1. CASE f = c /\ k = n
          BY <4>1 DEF created
      <4>2. CASE f = c /\ k # n
        <5>1. k \in 1 .. Len(s) /\ alerts'[c][k] = s[k]
            BY <2>1, <2>2, <2>6, <4>2 DEF n
        <5>2. <<c, k>> \in check.created
            BY <2>1, <3>1, <4>2, <5>1 DEF AlertsInv, DueIsListed, s
        <5> QED BY <4>2, <5>2 DEF created
      <4>3. CASE f # c
          BY <2>6, <3>1, <4>3 DEF AlertsInv, DueIsListed, created
      <4> QED BY <4>1, <4>2, <4>3
    <3> QED BY <2>5, <3>1 DEF DueIsListed
  <2> QED BY <2>3, <2>5, <2>6, <2>7, <2>8 DEF AlertsInv, AlertsTypeOK, StillNone
<1>6. CASE SendDigest \/ DigestLost
  <2>1. ASSUME NEW f \in Fabric
        PROVE  /\ alerts'[f] \in Seq(AlertRow)
               /\ DOMAIN alerts'[f] = DOMAIN alerts[f]
               /\ \A k \in DOMAIN alerts[f] :
                     /\ alerts'[f][k].status = alerts[f][k].status
                     /\ alerts[f][k].status = "pending" => alerts'[f][k].mail # "due"
    <3>1. /\ alerts[f] \in Seq(AlertRow) /\ Len(alerts[f]) \in Nat
          /\ DOMAIN alerts[f] = 1 .. Len(alerts[f])
          /\ \A k \in DOMAIN alerts[f] : alerts[f][k] \in AlertRow
        BY <1>0, LenProperties
    <3>2. /\ DOMAIN alerts'[f] = DOMAIN alerts[f]
          /\ \A k \in DOMAIN alerts[f] :
                /\ alerts'[f][k] \in AlertRow
                /\ alerts'[f][k].status = alerts[f][k].status
                /\ alerts[f][k].status = "pending" => alerts'[f][k].mail # "due"
      <4>1. CASE SendDigest
          BY <3>1, <4>1 DEF SendDigest, AlertRow
      <4>2. CASE DigestLost
          BY <3>1, <4>2 DEF DigestLost, AlertRow, AlertsInv, DueIsListed
      <4> QED BY <1>6, <4>1, <4>2
    <3>3. alerts'[f] = [k \in 1 .. Len(alerts[f]) |-> alerts'[f][k]]
        BY <1>6, <3>1 DEF SendDigest, DigestLost
    <3>4. alerts'[f] \in [1 .. Len(alerts[f]) -> AlertRow]
        BY <3>1, <3>2, <3>3
    <3> QED BY <3>1, <3>2, <3>4
  <2>2. alerts' = [f \in Fabric |-> alerts'[f]] /\ check' = Idle /\ UNCHANGED reopened
      BY <1>6 DEF SendDigest, DigestLost
  <2>3. alerts' \in [Fabric -> Seq(AlertRow)]
      BY <2>1, <2>2
  <2> QED BY <2>1, <2>2, <2>3, MailKeeps
<1>7. CASE \E f \in Fabric : \E k \in DOMAIN alerts[f] :
              \E status \in {"acknowledged", "ordered", "resolved"} :
                  SetAlertStatus(f, k, status)
  <2>0. PICK f \in Fabric :
            \E k \in DOMAIN alerts[f] : \E status \in {"acknowledged", "ordered", "resolved"} :
                SetAlertStatus(f, k, status)
      BY <1>7
  <2>1. PICK k \in DOMAIN alerts[f], status \in {"acknowledged", "ordered", "resolved"} :
            SetAlertStatus(f, k, status)
      BY <2>0
  <2> DEFINE s == alerts[f]
             r == [s[k] EXCEPT !.status = status]
             t == [s EXCEPT ![k] = r]
  <2>2. s \in Seq(AlertRow) /\ DOMAIN s = 1 .. Len(s) /\ Len(s) \in Nat
      BY <1>0, LenProperties
  <2>a. s[k] \in AlertRow
      BY <2>2
  <2>3. r \in AlertRow /\ r.status = status
      BY <2>a DEF AlertRow, OpenStatus
  <2>4. /\ t \in Seq(AlertRow) /\ DOMAIN t = DOMAIN s /\ t[k] = r
        /\ \A i \in DOMAIN s : i # k => t[i] = s[i]
      BY <2>2, <2>3
  <2>5. alerts' = [alerts EXCEPT ![f] = t] /\ UNCHANGED check
      BY <1>0, <2>1 DEF SetAlertStatus
  <2>6. /\ reopened' \subseteq Fabric /\ reopened \subseteq reopened'
        /\ s[k].status = "resolved" /\ status # "resolved" => f \in reopened'
      BY <2>1 DEF SetAlertStatus, AlertsInv, AlertsTypeOK
  <2> HIDE DEF s, r, t
  <2>7. alerts' \in [Fabric -> Seq(AlertRow)] /\ alerts'[f] = t
        /\ \A g \in Fabric \ {f} : alerts'[g] = alerts[g]
      BY <1>0, <2>4, <2>5
  <2>8. \A g \in Fabric \ reopened' : Unsettled(g)' \subseteq Unsettled(g)
    <3>1. \A g \in Fabric \ {f} : Unsettled(g)' = Unsettled(g)
        BY <2>7 DEF Unsettled
    <3>2. f \notin reopened' => Unsettled(f)' \subseteq Unsettled(f)
        BY <2>3, <2>4, <2>6, <2>7 DEF Unsettled, s
    <3> QED BY <3>1, <3>2
  <2>9. OneEach' /\ StillNone'
      BY <1>0, <2>5, <2>6, <2>8 DEF AlertsInv, OneEach, StillNone, Current
  <2>10. DueIsListed'
      BY <2>3, <2>4, <2>5, <2>7 DEF AlertsInv, DueIsListed, s
  <2> QED BY <2>5, <2>6, <2>7, <2>9, <2>10 DEF AlertsInv, AlertsTypeOK
<1> QED BY <1>1, <1>2, <1>3, <1>4, <1>5, <1>6, <1>7 DEF AlertsNext

THEOREM AlertsInvariant == AlertsSpec => []AlertsInv
<1> QED BY AlertsInitHolds, AlertsNextKeeps, PTL DEF AlertsSpec

\* The check that finds no open alert and then creates one never makes a second,
\* whatever the staff do between the two.
THEOREM FabricHasOneAlert == AlertsSpec => []OneOpenAlert
<1>1. AlertsInv => OneOpenAlert
  <2> SUFFICES ASSUME AlertsInv, NEW f \in Fabric \ reopened
               PROVE  Cardinality(Unsettled(f)) <= 1
      BY DEF OneOpenAlert
  <2>1. CASE Unsettled(f) = {}
      BY <2>1, FS_EmptySet
  <2>2. CASE Unsettled(f) # {}
    <3>1. PICK a : Unsettled(f) = {a}
        BY <2>2 DEF AlertsInv, OneEach
    <3> QED BY <3>1, FS_Singleton
  <2> QED BY <2>1, <2>2
<1> QED BY <1>1, AlertsInvariant, PTL

\* No pending alert is left out of every digest, unless its check died or its
\* mail failed.
THEOREM AlertsAreMailed == AlertsSpec => []PendingWasMailed
<1>1. AlertsInv => PendingWasMailed
    BY DEF AlertsInv, DueIsListed, PendingWasMailed
<1> QED BY <1>1, AlertsInvariant, PTL
===============================================================================
