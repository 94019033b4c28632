-------------------------- MODULE RequestLoopProofs --------------------------
(* Theorems about RequestLoop, for every set of requests, command lines and *)
(* bounds.                                                                 *)
EXTENDS RequestLoop, TLAPS

-----------------------------------------------------------------------------
(* Type correctness.                                                       *)

(* The loop reads a line only when it waits for one.                       *)
LEMMA HeadOfInput ==
  ASSUME TypeOK, Reading
  PROVE  /\ Head(stdin) \in Lines /\ Tail(stdin) \in Seq(Lines)
         /\ Version \in Nat /\ mode \in Modes
BY DEF TypeOK, Reading, Up, Version

LEMMA AnsweringType ==
  ASSUME NEW line \in Lines, NEW outcome \in {"COMMITTED", "REFUSED", "VIEW"}, NEW version \in Nat
  PROVE  LET w == Answering(line, outcome, version) IN
         /\ w.phase = "answering" /\ w.answer \in Answers
         /\ w.answer.line = line /\ w.answer.outcome = outcome /\ w.answer.version = version
BY DEF Answering, Answers

LEMMA RecordType ==
  ASSUME TypeOK, NEW line \in Lines, NEW part \in Parts
  PROVE  Append(journal, Record(line, part)) \in Seq(Records)
BY DEF TypeOK, Records, Record

LEMMA WorkLine ==
  ASSUME TypeOK, work.phase \in {"injected", "calling"}
  PROVE  work.line \in Lines /\ mode # "down"
BY DEF TypeOK, Idle

LEMMA TypeStep == TypeOK /\ [Next]_vars => TypeOK'
<1> SUFFICES ASSUME TypeOK, [Next]_vars PROVE TypeOK'
  OBVIOUS
<1>1. ASSUME NEW line \in Lines, Send(line) PROVE TypeOK'
  BY <1>1 DEF Send, Up, TypeOK
<1>2. CASE Commit \/ RefuseAppended
  <2>1. Reading /\ Head(stdin) \in Lines /\ Tail(stdin) \in Seq(Lines) /\ Version + 1 \in Nat
    BY <1>2, HeadOfInput DEF Commit, RefuseAppended
  <2>2. journal' \in Seq(Records)
    BY <1>2, <2>1, RecordType DEF Commit, RefuseAppended, Parts
  <2>3. work'.phase = "answering" /\ work'.answer \in Answers
    BY <1>2, <2>1, AnsweringType DEF Commit, RefuseAppended
  <2> QED
    BY <1>2, <2>1, <2>2, <2>3 DEF Commit, RefuseAppended, TypeOK, Reading, Up
<1>3. CASE Reserve \/ Inject
  <2>1. Reading /\ Head(stdin) \in Lines /\ Tail(stdin) \in Seq(Lines)
    BY <1>3, HeadOfInput DEF Reserve, Inject
  <2>2. journal' \in Seq(Records)
    BY <1>3, <2>1, RecordType DEF Reserve, Inject, Intent, Parts
  <2>3. work'.phase \in {"injected", "calling"} /\ work'.line \in Lines
    BY <1>3, <2>1 DEF Reserve, Inject, Intent
  <2> QED
    BY <1>3, <2>1, <2>2, <2>3 DEF Reserve, Inject, TypeOK, Reading, Up
<1>4. CASE ReserveInjected \/ Outcome
  <2>1. work.line \in Lines /\ Version \in Nat /\ Version + 1 \in Nat /\ mode # "down"
    BY <1>4, WorkLine DEF ReserveInjected, Outcome, TypeOK, Version
  <2>2. journal' \in Seq(Records)
    BY <1>4, <2>1, RecordType DEF ReserveInjected, Outcome, Intent, Parts, TypeOK
  <2>3. \/ work'.phase = "calling" /\ work'.line \in Lines
        \/ work'.phase = "answering" /\ work'.answer \in Answers
    BY <1>4, <2>1, AnsweringType DEF ReserveInjected, Outcome, Intent
  <2> QED
    BY <1>4, <2>1, <2>2, <2>3 DEF ReserveInjected, Outcome, TypeOK
<1>5. CASE Refuse \/ View
  <2>1. Reading /\ Head(stdin) \in Lines /\ Tail(stdin) \in Seq(Lines) /\ Version \in Nat
    BY <1>5, HeadOfInput DEF Refuse, View
  <2>2. work'.phase = "answering" /\ work'.answer \in Answers
    BY <1>5, <2>1, AnsweringType DEF Refuse, View
  <2> QED
    BY <1>5, <2>1, <2>2 DEF Refuse, View, TypeOK, Reading, Up
<1>6. CASE PrintAnswer
  <2>1. work.answer \in Answers
    BY <1>6 DEF PrintAnswer, TypeOK, Idle
  <2> QED
    BY <1>6, <2>1 DEF PrintAnswer, TypeOK, Up
<1>7. CASE Crash
  BY <1>7 DEF Crash, TypeOK
<1>8. ASSUME NEW m \in Modes, Start(m) PROVE TypeOK'
  BY <1>8 DEF Start, Up, TypeOK
<1>9. CASE UNCHANGED vars
  BY <1>9 DEF vars, TypeOK
<1> QED
  BY <1>1, <1>2, <1>3, <1>4, <1>5, <1>6, <1>7, <1>8, <1>9 DEF Next, Answer

(* Every variable keeps its type; an organ that is down holds no line.     *)
THEOREM TypeCorrect == Spec => []TypeOK
<1>1. Init => TypeOK
  BY DEF Init, TypeOK
<1> QED
  BY <1>1, TypeStep, PTL DEF Spec

-----------------------------------------------------------------------------
(* What a step appends.                                                    *)

InWork == work.phase \in {"injected", "calling"}

(* The first record of a line, after all checks; then the line is done, or *)
(* the loop is at work on it.                                              *)
Enters(line, part) ==
  /\ Admitted(line) /\ line.request.op \notin Views
  /\ journal' = Append(journal, Record(line, part))
  /\ IF part \in {"whole", "poison"} THEN ~InWork'
     ELSE /\ line.request.op \in External /\ work'.line = line
          /\ work'.phase = IF part = "intent" THEN "calling" ELSE "injected"
          /\ part = "injection" => line.request.op = "dispatch"

(* A further record of the line at work.                                   *)
Continues(part) ==
  /\ journal' = Append(journal, Record(work.line, part))
  /\ IF part = "intent"
     THEN work.phase = "injected" /\ work'.phase = "calling" /\ work'.line = work.line
     ELSE work.phase = "calling" /\ ~InWork'

LEMMA StepCases ==
  ASSUME TypeOK, [Next]_vars
  PROVE  \/ journal' = journal /\ (InWork' => work' = work)
         \/ \E line \in Lines, part \in Parts \ {"outcome"} : Enters(line, part)
         \/ \E part \in {"intent", "outcome"} : Continues(part)
<1>1. ASSUME NEW line, NEW outcome, NEW version, work' = Answering(line, outcome, version)
      PROVE  ~InWork'
  BY <1>1 DEF Answering, InWork
<1>2. CASE Commit \/ RefuseAppended
  BY <1>1, <1>2, HeadOfInput DEF Commit, RefuseAppended, Admitted, Enters, Parts
<1>3. CASE Reserve
  BY <1>3, HeadOfInput DEF Reserve, Intent, Admitted, Enters, Parts
<1>4. CASE Inject
  BY <1>4, HeadOfInput DEF Inject, WithPacket, Admitted, Enters, External, Parts
<1>5. CASE ReserveInjected
  BY <1>1, <1>5 DEF ReserveInjected, Intent, Continues
<1>6. CASE Outcome
  BY <1>1, <1>6 DEF Outcome, Continues
<1>7. CASE Refuse \/ View
  BY <1>1, <1>7 DEF Refuse, View
<1>8. CASE PrintAnswer \/ Crash
  BY <1>8 DEF PrintAnswer, Crash, InWork, Idle
<1>9. ASSUME NEW line, NEW m, Send(line) \/ Start(m) PROVE journal' = journal /\ work' = work
  BY <1>9 DEF Send, Start
<1>10. CASE UNCHANGED vars
  BY <1>10 DEF vars
<1> QED
  BY <1>2, <1>3, <1>4, <1>5, <1>6, <1>7, <1>8, <1>9, <1>10 DEF Next, Answer

-----------------------------------------------------------------------------
(* One line, one effect.                                                   *)

(* A record's line named a version before the record: rebasing goes over   *)
(* observations only, and those name none.                                 *)
VersionBefore ==
  \A i \in DOMAIN journal : OpAt(i) \notin Unversioned => journal[i].line.version < i

(* The line at work has left in the journal what it should by now.         *)
LineAtWork ==
  InWork =>
    /\ work.line.request.op \in External /\ work.line.version <= Version
    /\ \A i \in DOMAIN journal :
         journal[i].line = work.line =>
           journal[i].part = "injection" \/ (work.phase = "calling" /\ journal[i].part = "intent")
    /\ work.phase = "injected" => ~Taken(work.line.request)

OnceInv == VersionBefore /\ LineAtWork /\ SameLineOnce /\ NameOnce

LEMMA JournalFacts ==
  ASSUME TypeOK, NEW r, journal' = Append(journal, r)
  PROVE  /\ Version \in Nat /\ DOMAIN journal = 1 .. Version
         /\ DOMAIN journal' = 1 .. Version + 1 /\ Version' = Version + 1
         /\ \A i \in 1 .. Version : journal'[i] = journal[i]
         /\ journal'[Version + 1] = r
BY DEF TypeOK, Version

LEMMA AppendedRecord ==
  ASSUME TypeOK, NEW line, NEW part, NEW n, n = Version + 1,
         NEW r, r = Record(line, part), journal' = Append(journal, r)
  PROVE  /\ Version \in Nat /\ DOMAIN journal = 1 .. Version /\ n \notin DOMAIN journal
         /\ DOMAIN journal' = DOMAIN journal \cup {n} /\ Version' = n
         /\ \A i \in DOMAIN journal : journal'[i] = journal[i] /\ OpAt(i)' = OpAt(i) /\ i < n
         /\ journal'[n] = r /\ OpAt(n)' = line.request.op
         /\ r.line = line /\ r.part = part
<1>1. /\ Version \in Nat /\ DOMAIN journal = 1 .. Version
      /\ DOMAIN journal' = 1 .. n /\ Version' = n
      /\ \A i \in 1 .. Version : journal'[i] = journal[i]
      /\ journal'[n] = r
  BY JournalFacts
<1>2. \A i \in DOMAIN journal : journal'[i] = journal[i] /\ i < n
  BY <1>1
<1>3. \A i \in DOMAIN journal : OpAt(i)' = OpAt(i)
  BY <1>2 DEF OpAt
<1>4. r.line = line /\ r.part = part
  BY DEF Record
<1>5. OpAt(n)' = line.request.op
  BY <1>1, <1>4 DEF OpAt
<1>6. DOMAIN journal' = DOMAIN journal \cup {n} /\ n \notin DOMAIN journal
  BY <1>1
<1> QED
  BY <1>1, <1>2, <1>3, <1>4, <1>5, <1>6

(* A line that may enter is not in the journal, if it names a version.     *)
LEMMA EnteringIsNew ==
  ASSUME TypeOK, VersionBefore, NEW line \in Lines, Admitted(line),
         line.request.op \notin Unversioned
  PROVE  line.version <= Version /\ \A i \in DOMAIN journal : journal[i].line # line
<1>1. line.version \in Nat /\ Version \in Nat /\ DOMAIN journal = 1 .. Version
  BY DEF TypeOK, Version, Lines
<1>2. \/ line.version = Version
      \/ /\ line.version < Version
         /\ \A i \in line.version + 1 .. Version : OpAt(i) \in Unversioned
  BY DEF Admitted, Fresh
<1>3. ASSUME NEW i \in DOMAIN journal, journal[i].line = line PROVE FALSE
  <2>1. OpAt(i) \notin Unversioned
    BY <1>3 DEF OpAt
  <2>2. line.version < i /\ i <= Version
    BY <1>1, <1>3, <2>1 DEF VersionBefore
  <2> QED
    BY <1>1, <1>2, <2>1, <2>2
<1> QED
  BY <1>1, <1>2, <1>3

LEMMA OnceEnters ==
  ASSUME TypeOK, OnceInv, NEW line \in Lines, NEW part \in Parts \ {"outcome"},
         Enters(line, part)
  PROVE  OnceInv'
<1>0. PICK n, r : n = Version + 1 /\ r = Record(line, part)
  OBVIOUS
<1>1. /\ Version \in Nat /\ DOMAIN journal = 1 .. Version /\ n \notin DOMAIN journal
      /\ DOMAIN journal' = DOMAIN journal \cup {n} /\ Version' = n
      /\ \A i \in DOMAIN journal : journal'[i] = journal[i] /\ OpAt(i)' = OpAt(i) /\ i < n
      /\ journal'[n] = r /\ OpAt(n)' = line.request.op
      /\ r.line = line /\ r.part = part
  <2>1. journal' = Append(journal, r)
    BY <1>0 DEF Enters
  <2> QED
    BY <1>0, <2>1, AppendedRecord
<1>2. line.request.op \notin Unversioned =>
        line.version <= Version /\ \A i \in DOMAIN journal : journal[i].line # line
  BY EnteringIsNew DEF Enters, OnceInv
<1>3. line.request.op \in Claiming => ~Taken(line.request)
  BY DEF Enters, Admitted
<1>4. VersionBefore'
  BY <1>0, <1>1, <1>2 DEF OnceInv, VersionBefore, Lines
<1>5. SameLineOnce'
  <2>1. ASSUME NEW i \in DOMAIN journal', NEW j \in DOMAIN journal', i < j
        PROVE  i \in DOMAIN journal /\ i # n /\ (j = n \/ j \in DOMAIN journal)
    BY <1>0, <1>1, <2>1
  <2> QED
    BY <1>1, <1>2, <2>1 DEF OnceInv, SameLineOnce, OpAt
<1>6. NameOnce'
  BY <1>1, <1>3 DEF OnceInv, NameOnce, Taken, Claims, OpAt
<1>7. LineAtWork'
  <2> SUFFICES ASSUME InWork' PROVE LineAtWork'
    BY DEF LineAtWork
  <2>1. /\ part \in {"intent", "injection"} /\ line.request.op \in External /\ work'.line = line
        /\ work'.phase = IF part = "intent" THEN "calling" ELSE "injected"
        /\ part = "injection" => line.request.op = "dispatch"
    BY DEF Enters, Parts
  <2>2. line.request.op \notin Unversioned
    BY <2>1 DEF External, Unversioned
  <2>3. part = "injection" => ~Taken(line.request)'
    BY <1>1, <1>3, <2>1 DEF Taken, Claims, Claiming
  <2> QED
    BY <1>0, <1>1, <1>2, <2>1, <2>2, <2>3 DEF LineAtWork, Lines
<1> QED
  BY <1>4, <1>5, <1>6, <1>7 DEF OnceInv

LEMMA OnceContinues ==
  ASSUME TypeOK, OnceInv, NEW part \in {"intent", "outcome"}, Continues(part)
  PROVE  OnceInv'
<1>0. PICK n, r, line : n = Version + 1 /\ r = Record(line, part) /\ line = work.line
  OBVIOUS
<1>1. /\ Version \in Nat /\ DOMAIN journal = 1 .. Version /\ n \notin DOMAIN journal
      /\ DOMAIN journal' = DOMAIN journal \cup {n} /\ Version' = n
      /\ \A i \in DOMAIN journal : journal'[i] = journal[i] /\ OpAt(i)' = OpAt(i) /\ i < n
      /\ journal'[n] = r /\ OpAt(n)' = line.request.op
      /\ r.line = line /\ r.part = part
  <2>1. journal' = Append(journal, r)
    BY <1>0 DEF Continues
  <2> QED
    BY <1>0, <2>1, AppendedRecord
<1>2. /\ InWork /\ line \in Lines /\ line.version \in Nat
      /\ IF part = "intent"
         THEN work.phase = "injected" /\ work'.phase = "calling" /\ work'.line = line
         ELSE work.phase = "calling" /\ ~InWork'
  BY <1>0, WorkLine DEF Continues, InWork, Lines
<1>3. /\ line.request.op \in External /\ line.version <= Version
      /\ \A i \in DOMAIN journal : journal[i].line = line => <<journal[i].part, part>> \in Precedes
      /\ part = "intent" => ~Taken(line.request)
                            /\ \A i \in DOMAIN journal : journal[i].line = line => journal[i].part = "injection"
  BY <1>0, <1>2 DEF OnceInv, LineAtWork, Precedes
<1>4. VersionBefore'
  BY <1>0, <1>1, <1>2, <1>3 DEF OnceInv, VersionBefore
<1>5. SameLineOnce'
  <2>1. ASSUME NEW i \in DOMAIN journal', NEW j \in DOMAIN journal', i < j
        PROVE  i \in DOMAIN journal /\ i # n /\ (j = n \/ j \in DOMAIN journal)
    BY <1>0, <1>1, <2>1
  <2> QED
    BY <1>1, <1>3, <2>1 DEF OnceInv, SameLineOnce
<1>6. NameOnce'
  BY <1>1, <1>3 DEF OnceInv, NameOnce, Taken, Claims, OpAt
<1>7. LineAtWork'
  BY <1>0, <1>1, <1>2, <1>3 DEF LineAtWork, InWork
<1> QED
  BY <1>4, <1>5, <1>6, <1>7 DEF OnceInv

LEMMA OnceStep == TypeOK /\ OnceInv /\ [Next]_vars => OnceInv'
<1> SUFFICES ASSUME TypeOK, OnceInv, [Next]_vars PROVE OnceInv'
  OBVIOUS
<1>1. ASSUME journal' = journal, InWork' => work' = work PROVE OnceInv'
  BY <1>1 DEF OnceInv, VersionBefore, LineAtWork, SameLineOnce, NameOnce, InWork, Version, OpAt, Taken
<1> QED
  BY <1>1, StepCases, OnceEnters, OnceContinues

LEMMA OnceInvariant == Spec => []OnceInv
<1>1. Init => OnceInv
  BY DEF Init, OnceInv, VersionBefore, LineAtWork, SameLineOnce, NameOnce, InWork, Idle
<1> QED
  BY <1>1, TypeCorrect, OnceStep, PTL DEF Spec

(* A line that names a version leaves its records once, however often it   *)
(* is sent to whichever organs.                                            *)
THEOREM LinesTakeEffectOnce == Spec => []SameLineOnce
<1>1. OnceInv => SameLineOnce
  BY DEF OnceInv
<1> QED
  BY <1>1, OnceInvariant, PTL

(* A name is claimed once in the journal, whatever versions its requests   *)
(* name and whatever command lines the organs were started with.           *)
THEOREM NamesAreClaimedOnce == Spec => []NameOnce
<1>1. OnceInv => NameOnce
  BY DEF OnceInv
<1> QED
  BY <1>1, OnceInvariant, PTL

-----------------------------------------------------------------------------
(* What clients are told.                                                  *)

Told(answer) ==
  answer.outcome = "COMMITTED" =>
    /\ answer.version \in DOMAIN journal
    /\ journal[answer.version].line = answer.line
    /\ journal[answer.version].part \in {"whole", "outcome"}

(* The answer that is about to be printed is true as well.                 *)
ToldInv == ToldIsTrue /\ (work.phase = "answering" => Told(work.answer))

LEMMA ToldStays ==
  ASSUME TypeOK, [Next]_vars, NEW answer, Told(answer)
  PROVE  Told(answer)'
<1>1. CASE journal' = journal
  BY <1>1 DEF Told
<1>2. ASSUME NEW r, journal' = Append(journal, r) PROVE Told(answer)'
  BY <1>2, JournalFacts DEF Told
<1> QED
  BY <1>1, <1>2, StepCases DEF Enters, Continues

LEMMA ToldStep == TypeOK /\ ToldInv /\ [Next]_vars => ToldInv'
<1> SUFFICES ASSUME TypeOK, ToldInv, [Next]_vars PROVE ToldInv'
  OBVIOUS
<1>1. ASSUME NEW k \in DOMAIN stdout, NEW answer, answer = stdout[k]
      PROVE  Told(answer)'
  BY <1>1, ToldStays DEF ToldInv, ToldIsTrue, Told
<1>2. ASSUME stdout' = stdout, work'.phase = "answering" => Told(work.answer)' PROVE ToldInv'
  <2>1. ASSUME NEW k \in DOMAIN stdout', NEW answer, answer = stdout'[k] PROVE Told(answer)'
    BY <1>1, <1>2, <2>1
  <2> QED
    BY <1>2, <2>1 DEF ToldInv, ToldIsTrue, Told
<1>3. ASSUME NEW line, NEW part \in {"whole", "outcome"}, NEW outcome, stdout' = stdout,
             journal' = Append(journal, Record(line, part)),
             work' = Answering(line, outcome, Version + 1)
      PROVE  ToldInv'
  <2>1. Version + 1 \in DOMAIN journal' /\ journal'[Version + 1] = Record(line, part)
    BY <1>3, JournalFacts
  <2>2. Told(work.answer)'
    BY <1>3, <2>1 DEF Told, Answering, Record
  <2> QED
    BY <1>2, <1>3, <2>2
<1>4. ASSUME NEW line, NEW outcome, outcome # "COMMITTED", NEW version, stdout' = stdout,
             work' = Answering(line, outcome, version)
      PROVE  ToldInv'
  BY <1>2, <1>4 DEF Told, Answering
<1>5. CASE Commit \/ Outcome
  BY <1>3, <1>5 DEF Commit, Outcome
<1>6. CASE Reserve \/ Inject
  BY <1>2, <1>6 DEF Reserve, Inject, Intent
<1>7. CASE ReserveInjected
  BY <1>2, <1>4, <1>7 DEF ReserveInjected, Intent
<1>8. CASE Refuse \/ View
  BY <1>4, <1>8 DEF Refuse, View
<1>12. CASE RefuseAppended
  BY <1>2, <1>12 DEF RefuseAppended, Answering, Told
<1>9. CASE PrintAnswer
  <2>0. PICK answer : answer = work.answer
    OBVIOUS
  <2>1. Told(answer)'
    BY <1>9, <2>0, ToldStays DEF PrintAnswer, ToldInv
  <2>2. /\ stdout \in Seq(Answers) /\ stdout' = Append(stdout, answer) /\ work'.phase # "answering"
    BY <1>9, <2>0 DEF PrintAnswer, TypeOK, Idle
  <2>3. ASSUME NEW k \in DOMAIN stdout', NEW a, a = stdout'[k] PROVE Told(a)'
    <3>1. (k \in DOMAIN stdout /\ a = stdout[k]) \/ a = answer
      BY <2>2, <2>3
    <3> QED
      BY <1>1, <2>1, <3>1
  <2> QED
    BY <2>2, <2>3 DEF ToldInv, ToldIsTrue, Told
<1>10. CASE Crash
  BY <1>2, <1>10 DEF Crash, Idle
<1>11. ASSUME NEW line, NEW m, Send(line) \/ Start(m) \/ UNCHANGED vars PROVE ToldInv'
  <2>1. PICK answer : answer = work.answer
    OBVIOUS
  <2>2. work' = work /\ stdout' = stdout
    BY <1>11 DEF Send, Start, vars
  <2>3. work.phase = "answering" => Told(answer)'
    BY <2>1, ToldStays DEF ToldInv
  <2> QED
    BY <1>2, <2>1, <2>2, <2>3 DEF Told
<1> QED
  BY <1>5, <1>6, <1>7, <1>8, <1>9, <1>10, <1>11, <1>12 DEF Next, Answer

(* Whatever organs die later: an answer that said COMMITTED names the      *)
(* whole record, or the outcome, of its own line in the journal.           *)
THEOREM ToldAnswersAreTrue == Spec => []ToldIsTrue
<1>1. Init => ToldInv
  BY DEF Init, ToldInv, ToldIsTrue, Idle
<1>2. ToldInv => ToldIsTrue
  BY DEF ToldInv
<1> QED
  BY <1>1, <1>2, TypeCorrect, ToldStep, PTL DEF Spec
=============================================================================
