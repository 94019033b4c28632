----------------------------- MODULE LedgerProofs -----------------------------
(* Theorems about Ledger, for every number of callers, learnings and       *)
(* attempts, and every threshold and cap.                                  *)
EXTENDS Ledger, FiniteSetTheorems, TLAPS

Kinds == {"idle", "candidate", "review", "feedback", "injection", "reconciliation", "intent"}

(* What the record of an operation names.                                  *)
OpNames(c) ==
  /\ op[c].kind \in Kinds
  /\ op[c].kind # "idle" => op[c].reads \in 0 .. version
  /\ op[c].kind \in {"candidate", "review", "feedback"} => op[c].id \in Learnings
  /\ op[c].kind = "review" => op[c].outcome \in Outcomes
  /\ op[c].kind \in {"injection", "intent"} =>
       op[c].attempt \in Attempts /\ op[c].selected \in SUBSET Learnings

(* The guard under which the record was computed.                          *)
StillHolds(c) ==
  /\ op[c].kind = "candidate" =>
       learning[op[c].id].maturity = "absent" /\ Cardinality(Known) < MaxLearnings
  /\ op[c].kind \in {"review", "feedback"} => learning[op[c].id].maturity # "absent"
  /\ op[c].kind = "review" =>
       ~(/\ c.member = learning[op[c].id].author.member
         /\ c.run = learning[op[c].id].author.run)
  /\ op[c].kind = "feedback" =>
       op[c].maturity =
         IF learning[op[c].id].contradicted + (IF op[c].feedback = "CONTRADICTED" THEN 1 ELSE 0)
              >= Threshold
         THEN "quarantined" ELSE learning[op[c].id].maturity
  /\ op[c].kind = "injection" => attempt[op[c].attempt] = "cast"
  /\ op[c].kind = "intent" /\ mounted => receipt[op[c].attempt] = Selection(op[c].selected)
  /\ op[c].kind \in {"injection", "intent"} =>
       \A l \in op[c].selected : learning[l].maturity = "verified"

(* What makes the conditional append sufficient: an operation whose record *)
(* is still fresh was computed from the ledger as it is now.               *)
Admitted ==
  /\ DOMAIN op = Callers
  /\ \A c \in Callers : OpNames(c) /\ (op[c].kind # "idle" /\ Fresh(c) => StillHolds(c))

(* Contradictions since the last review are among those counted.           *)
Counted ==
  \A l \in Learnings :
    /\ since[l] <= learning[l].contradicted
    /\ learning[l].maturity = "absent" => since[l] = 0

(* Only a running attempt has a prompt.                                    *)
SentIsRunning == \A a \in Attempts : sent[a].organ # "none" => attempt[a] = "running"

LedgerInv ==
  /\ TypeOK /\ IsFiniteSet(Known)
  /\ Admitted /\ Counted /\ SentIsRunning
  /\ ThresholdQuarantines /\ VerifiedByAnother /\ SentIsReceipted

-----------------------------------------------------------------------------
(* Initial states.                                                         *)

LEMMA LedgerInit == Init => LedgerInv
<1> SUFFICES ASSUME Init PROVE LedgerInv
  OBVIOUS
<1>1. Known = {} /\ IsFiniteSet(Known) /\ Cardinality(Known) = 0
  <2>1. Known = {}
    BY DEF Init, Known
  <2> QED
    BY <2>1, FS_EmptySet
<1>2. learning \in [Learnings -> Stored]
  BY DEF Init, Stored
<1>3. TypeOK
  BY <1>1, <1>2, PolicyAssumption DEF Init, TypeOK, Nothing, Unsent, Unreviewed
<1>4. Admitted
  BY DEF Init, Admitted, OpNames, Idle, Kinds
<1>5. Counted /\ SentIsRunning
  BY DEF Init, Counted, SentIsRunning, Unsent
<1>6. ThresholdQuarantines /\ VerifiedByAnother /\ SentIsReceipted
  BY PolicyAssumption DEF Init, ThresholdQuarantines, VerifiedByAnother, SentIsReceipted, Unsent
<1> QED
  BY <1>1, <1>3, <1>4, <1>5, <1>6 DEF LedgerInv

-----------------------------------------------------------------------------
(* Beginning and dropping an operation.                                    *)

LEMMA LearningType ==
  ASSUME TypeOK, NEW l \in Learnings
  PROVE  /\ learning[l].maturity \in Maturities \cup {"absent"}
         /\ learning[l].contradicted \in Nat
         /\ learning[l].author \in Callers \cup {NoCaller}
         /\ learning[l] = [maturity |-> learning[l].maturity,
                           contradicted |-> learning[l].contradicted,
                           author |-> learning[l].author]
BY DEF TypeOK, Stored

LEMMA FieldsSet ==
  ASSUME NEW x \in Stored, NEW m, NEW n \in Nat
  PROVE  /\ [x EXCEPT !.maturity = m] =
              [maturity |-> m, contradicted |-> x.contradicted, author |-> x.author]
         /\ [x EXCEPT !.contradicted = n, !.maturity = m] =
              [maturity |-> m, contradicted |-> n, author |-> x.author]
<1>1. \A y \in Stored :
        [y EXCEPT !.maturity = m] =
          [maturity |-> m, contradicted |-> y.contradicted, author |-> y.author]
  BY DEF Stored
<1>2. [x EXCEPT !.contradicted = n] =
        [maturity |-> x.maturity, contradicted |-> n, author |-> x.author]
  BY DEF Stored
<1>3. [[x EXCEPT !.contradicted = n] EXCEPT !.maturity = m] =
        [maturity |-> m, contradicted |-> n, author |-> x.author]
  <2>1. PICK y \in Stored :
          y = [x EXCEPT !.contradicted = n] /\ y.contradicted = n /\ y.author = x.author
    <3>1. [x EXCEPT !.contradicted = n] \in Stored
      BY DEF Stored
    <3> QED
      BY <1>2, <3>1
  <2> QED
    BY <1>1, <2>1
<1> QED
  BY <1>1, <1>3

(* One learning replaced by another.                                       *)
LEMMA Replaced ==
  ASSUME TypeOK, NEW l \in Learnings, NEW m \in Maturities, NEW n \in Nat,
         NEW who \in Callers \cup {NoCaller},
         learning' = [learning EXCEPT ![l] = [maturity |-> m, contradicted |-> n, author |-> who]]
  PROVE  /\ learning' \in [Learnings -> Stored]
         /\ learning'[l].maturity = m /\ learning'[l].author = who
         /\ learning'[l].contradicted = n
         /\ \A k \in Learnings : k # l => learning'[k] = learning[k]
<1>1. learning \in [Learnings -> Stored]
  BY DEF TypeOK
<1>2. [maturity |-> m, contradicted |-> n, author |-> who] \in Stored
  BY DEF Stored
<1> QED
  BY <1>1, <1>2

(* A caller's new record is admitted at the version at which it was made.  *)
LEMMA BeginRecord ==
  ASSUME LedgerInv, NEW c \in Callers, BeginOperation(c)
  PROVE  /\ \E r : op' = [op EXCEPT ![c] = r]
         /\ OpNames(c)' /\ StillHolds(c)'
<1>1. TypeOK /\ DOMAIN op = Callers /\ UNCHANGED <<mounted, version, learning, attempt, receipt>>
  BY DEF LedgerInv, Admitted, BeginOperation
<1>2. version \in 0 .. version /\ Known' = Known
  BY <1>1 DEF TypeOK, Known
<1>3. ASSUME NEW l \in Learnings \ Known, Cardinality(Known) < MaxLearnings,
             op' = [op EXCEPT ![c] = [kind |-> "candidate", reads |-> version, id |-> l]]
      PROVE  OpNames(c)' /\ StillHolds(c)'
  <2>1. op'[c] = [kind |-> "candidate", reads |-> version, id |-> l]
    BY <1>1, <1>3
  <2>2. learning[l].maturity = "absent"
    BY DEF Known
  <2> QED
    BY <1>1, <1>2, <1>3, <2>1, <2>2 DEF OpNames, StillHolds, Kinds
<1>4. ASSUME NEW l \in Known, NEW outcome \in Outcomes, NEW basis \in Bases, MayReview(c, l, basis),
             op' = [op EXCEPT ![c] =
               [kind |-> "review", reads |-> version, id |-> l, outcome |-> outcome]]
      PROVE  OpNames(c)' /\ StillHolds(c)'
  <2>1. op'[c] = [kind |-> "review", reads |-> version, id |-> l, outcome |-> outcome]
    BY <1>1, <1>4
  <2>2. l \in Learnings /\ learning[l].maturity # "absent"
    BY DEF Known
  <2> QED
    BY <1>1, <1>2, <1>4, <2>1, <2>2 DEF OpNames, StillHolds, Kinds, MayReview
<1>5. ASSUME NEW l \in Known, NEW feedback \in Feedbacks, NEW count,
             count = learning[l].contradicted + (IF feedback = "CONTRADICTED" THEN 1 ELSE 0),
             op' = [op EXCEPT ![c] =
               [kind |-> "feedback", reads |-> version, id |-> l, feedback |-> feedback,
                maturity |-> Resulting(l, feedback, count)]]
      PROVE  OpNames(c)' /\ StillHolds(c)'
  <2>1. op'[c] = [kind |-> "feedback", reads |-> version, id |-> l, feedback |-> feedback,
                  maturity |-> Resulting(l, feedback, count)]
    BY <1>1, <1>5
  <2>2. l \in Learnings /\ learning[l].maturity # "absent"
    BY DEF Known
  <2> QED
    BY <1>1, <1>2, <1>5, <2>1, <2>2 DEF OpNames, StillHolds, Kinds, Resulting
<1>6. ASSUME NEW a \in Attempts, NEW S \in SUBSET Eligible, NEW dispatch \in BOOLEAN, MayInject(a),
             op' = [op EXCEPT ![c] =
               [kind |-> "injection", reads |-> version, attempt |-> a, selected |-> S,
                dispatch |-> dispatch]]
      PROVE  OpNames(c)' /\ StillHolds(c)'
  <2>1. op'[c] = [kind |-> "injection", reads |-> version, attempt |-> a, selected |-> S,
                  dispatch |-> dispatch]
    BY <1>1, <1>6
  <2>2. S \in SUBSET Learnings /\ \A l \in S : learning[l].maturity = "verified"
    BY DEF Eligible, Known
  <2> QED
    BY <1>1, <1>2, <1>6, <2>1, <2>2 DEF OpNames, StillHolds, Kinds, MayInject
<1>7. ASSUME op' = [op EXCEPT ![c] = [kind |-> "reconciliation", reads |-> version]]
      PROVE  OpNames(c)' /\ StillHolds(c)'
  <2>1. op'[c] = [kind |-> "reconciliation", reads |-> version]
    BY <1>1, <1>7
  <2> QED
    BY <1>1, <1>2, <2>1 DEF OpNames, StillHolds, Kinds
<1>8. OpNames(c)' /\ StillHolds(c)'
  BY <1>3, <1>4, <1>5, <1>6, <1>7 DEF BeginOperation
<1>9. \E r : op' = [op EXCEPT ![c] = r]
  BY DEF BeginOperation
<1> QED
  BY <1>8, <1>9

(* Without the ledger: the bare prompt selects nothing.                    *)
LEMMA BeginBareRecord ==
  ASSUME LedgerInv, NEW c \in Callers, BeginBare(c)
  PROVE  /\ \E r : op' = [op EXCEPT ![c] = r]
         /\ OpNames(c)' /\ StillHolds(c)'
<1>1. TypeOK /\ DOMAIN op = Callers /\ ~mounted /\ UNCHANGED <<mounted, version>>
  BY DEF LedgerInv, Admitted, BeginBare
<1>2. PICK a \in Attempts :
        op' = [op EXCEPT ![c] =
          [kind |-> "intent", reads |-> version, attempt |-> a, selected |-> {}]]
  BY DEF BeginBare
<1>3. op'[c] = [kind |-> "intent", reads |-> version, attempt |-> a, selected |-> {}]
  BY <1>1, <1>2
<1>4. OpNames(c)'
  BY <1>1, <1>3 DEF OpNames, Kinds, TypeOK
<1>5. StillHolds(c)'
  BY <1>1, <1>3 DEF StillHolds
<1> QED
  BY <1>2, <1>4, <1>5

(* The state but for the operations stays: so does all that is known of it.*)
LEMMA Aside ==
  ASSUME LedgerInv, UNCHANGED <<firm, learning, attempt, receipt, sent, since, verdict>>,
         mounted' \in BOOLEAN, version' \in version .. MaxVersion, Admitted'
  PROVE  LedgerInv'
<1>1. Known' = Known /\ TypeOK
  BY DEF Known, LedgerInv
<1>2. TypeOK'
  BY <1>1 DEF TypeOK
<1>3. Counted' /\ SentIsRunning' /\ ThresholdQuarantines' /\ VerifiedByAnother' /\ SentIsReceipted'
  BY DEF LedgerInv, Counted, SentIsRunning, ThresholdQuarantines, VerifiedByAnother, SentIsReceipted
<1> QED
  BY <1>1, <1>2, <1>3 DEF LedgerInv

LEMMA OthersKept ==
  ASSUME Admitted, NEW c \in Callers, NEW r, op' = [op EXCEPT ![c] = r],
         NEW d \in Callers, d # c
  PROVE  op'[d] = op[d] /\ DOMAIN op' = Callers /\ op'[c] = r
BY DEF Admitted

LEMMA BeginStep == \A c \in Callers : LedgerInv /\ Begin(c) => LedgerInv'
<1> SUFFICES ASSUME NEW c \in Callers, LedgerInv, Begin(c) PROVE LedgerInv'
  OBVIOUS
<1>1. /\ UNCHANGED <<mounted, version, firm, learning, attempt, receipt, sent, since, verdict>>
      /\ Known' = Known
  BY DEF Begin, BeginOperation, BeginBare, Known
<1>7. (\E r : op' = [op EXCEPT ![c] = r]) /\ OpNames(c)' /\ StillHolds(c)'
  BY BeginRecord, BeginBareRecord DEF Begin
<1>2. PICK r : op' = [op EXCEPT ![c] = r]
  BY <1>7
<1>3. DOMAIN op' = Callers
  BY <1>2 DEF LedgerInv, Admitted
<1>4. ASSUME NEW d \in Callers, d # c
      PROVE  OpNames(d)' /\ (op'[d].kind # "idle" /\ Fresh(d)' => StillHolds(d)')
  <2>1. op'[d] = op[d]
    BY <1>2, <1>4 DEF LedgerInv, Admitted
  <2>2. OpNames(d) /\ (op[d].kind # "idle" /\ Fresh(d) => StillHolds(d))
    BY DEF LedgerInv, Admitted
  <2> QED
    BY <1>1, <2>1, <2>2 DEF OpNames, Fresh, StillHolds
<1>5. Admitted'
  BY <1>3, <1>4, <1>7 DEF Admitted
<1>6. mounted' \in BOOLEAN /\ version' \in version .. MaxVersion
  BY <1>1 DEF LedgerInv, TypeOK
<1> QED
  BY <1>1, <1>5, <1>6, Aside

LEMMA DropStep == \A c \in Callers : LedgerInv /\ Drop(c) => LedgerInv'
<1> SUFFICES ASSUME NEW c \in Callers, LedgerInv, Drop(c) PROVE LedgerInv'
  OBVIOUS
<1>1. /\ UNCHANGED <<mounted, version, firm, learning, attempt, receipt, sent, since, verdict>>
      /\ Known' = Known /\ op' = [op EXCEPT ![c] = Idle]
  BY DEF Drop, Known
<1>2. DOMAIN op' = Callers /\ op'[c] = Idle
  BY <1>1 DEF LedgerInv, Admitted
<1>3. ASSUME NEW d \in Callers
      PROVE  OpNames(d)' /\ (op'[d].kind # "idle" /\ Fresh(d)' => StillHolds(d)')
  <2>1. op'[d] = op[d] \/ op'[d] = Idle
    BY <1>1, <1>2 DEF LedgerInv, Admitted
  <2>2. OpNames(d) /\ (op[d].kind # "idle" /\ Fresh(d) => StillHolds(d))
    BY DEF LedgerInv, Admitted
  <2> QED
    BY <1>1, <2>1, <2>2 DEF OpNames, Fresh, StillHolds, Idle, Kinds
<1>4. Admitted'
  BY <1>2, <1>3 DEF Admitted
<1>5. mounted' \in BOOLEAN /\ version' \in version .. MaxVersion
  BY <1>1 DEF LedgerInv, TypeOK
<1> QED
  BY <1>1, <1>4, <1>5, Aside

(* A process that replays has no operation under way.                      *)
LEMMA RestartStep == LedgerInv /\ Restart => LedgerInv'
<1> SUFFICES ASSUME LedgerInv, Restart PROVE LedgerInv'
  OBVIOUS
<1>1. Admitted'
  BY DEF Restart, Admitted, OpNames, Idle, Kinds
<1>2. version' \in version .. MaxVersion
  BY DEF Restart, LedgerInv, TypeOK
<1> QED
  BY <1>1, <1>2, Aside DEF Restart

LEMMA ObserveStep == LedgerInv /\ Observe => LedgerInv'
<1> SUFFICES ASSUME LedgerInv, Observe PROVE LedgerInv'
  OBVIOUS
<1>1. /\ UNCHANGED <<mounted, firm, learning, attempt, receipt, sent, op, since, verdict>>
      /\ Known' = Known /\ version' = version + 1 /\ version' \in version .. MaxVersion
      /\ version \in Nat /\ mounted \in BOOLEAN
  BY PolicyAssumption DEF Observe, Known, LedgerInv, TypeOK
<1>2. ASSUME NEW d \in Callers
      PROVE  OpNames(d)' /\ (op'[d].kind # "idle" /\ Fresh(d)' => StillHolds(d)')
  <2>1. OpNames(d) /\ (op[d].kind # "idle" /\ Fresh(d) => StillHolds(d))
    BY DEF LedgerInv, Admitted
  <2> QED
    BY <1>1, <2>1 DEF OpNames, Fresh, StillHolds
<1>3. Admitted'
  BY <1>1, <1>2 DEF LedgerInv, Admitted
<1> QED
  BY <1>1, <1>3, Aside

-----------------------------------------------------------------------------
(* Appending: the guard of the appended operation still holds, and every   *)
(* other operation becomes stale.                                          *)

LEMMA AppendedIs ==
  ASSUME LedgerInv, NEW c \in Callers, NEW kind \in Kinds \ {"idle"}, Appended(c, kind)
  PROVE  /\ OpNames(c) /\ StillHolds(c) /\ op[c].kind = kind
         /\ version \in Nat /\ version' = version + 1 /\ firm' = version'
         /\ version' \in 0 .. MaxVersion /\ firm' \in 0 .. version'
         /\ mounted' = mounted /\ mounted' \in BOOLEAN
<1>1. OpNames(c) /\ (op[c].kind # "idle" /\ Fresh(c) => StillHolds(c))
  BY DEF LedgerInv, Admitted
<1>2. version \in 0 .. MaxVersion /\ MaxVersion \in Nat /\ mounted \in BOOLEAN
  BY PolicyAssumption DEF LedgerInv, TypeOK
<1> QED
  BY <1>1, <1>2 DEF Appended

LEMMA AppendedAdmits ==
  ASSUME LedgerInv, NEW c \in Callers, NEW kind \in Kinds \ {"idle"}, Appended(c, kind),
         NEW r, op' = [op EXCEPT ![c] = r],
         OpNames(c)', r.kind = "idle" \/ StillHolds(c)'
  PROVE  Admitted'
<1>1. version \in Nat /\ version' = version + 1 /\ firm' = version'
  BY AppendedIs
<1>2. DOMAIN op' = Callers /\ op'[c] = r
  BY DEF LedgerInv, Admitted
<1>3. ASSUME NEW d \in Callers, d # c
      PROVE  OpNames(d)' /\ (op'[d].kind # "idle" => ~Fresh(d)')
  <2>1. op'[d] = op[d] /\ OpNames(d)
    BY <1>3 DEF LedgerInv, Admitted
  <2> QED
    BY <1>1, <2>1 DEF OpNames, Fresh
<1> QED
  BY <1>2, <1>3 DEF Admitted

LEMMA IdleIs ==
  ASSUME LedgerInv, NEW c \in Callers, op' = [op EXCEPT ![c] = Idle]
  PROVE  OpNames(c)' /\ Idle.kind = "idle"
<1>1. op'[c] = Idle
  BY DEF LedgerInv, Admitted
<1> QED
  BY <1>1 DEF OpNames, Idle, Kinds

(* The learnings stay what they are.                                       *)
LEMMA LearningsKept ==
  ASSUME LedgerInv, UNCHANGED <<learning, since, verdict>>
  PROVE  /\ Known' = Known /\ IsFiniteSet(Known)' /\ Cardinality(Known)' <= MaxLearnings
         /\ Counted' /\ ThresholdQuarantines' /\ VerifiedByAnother'
         /\ learning' \in [Learnings -> Stored] /\ since' \in [Learnings -> Nat]
         /\ verdict' \in [Learnings -> [by : Callers \cup {NoCaller}, outcome : Outcomes \cup {"none"}]]
BY DEF LedgerInv, TypeOK, Known, Counted, ThresholdQuarantines, VerifiedByAnother

(* The attempts stay what they are.                                        *)
LEMMA AttemptsKept ==
  ASSUME LedgerInv, UNCHANGED <<attempt, receipt, sent>>
  PROVE  /\ SentIsRunning' /\ SentIsReceipted'
         /\ attempt' \in [Attempts -> {"cast", "running"}]
         /\ receipt' \in [Attempts -> [selected : SUBSET Learnings, made : BOOLEAN]]
         /\ sent' \in [Attempts -> [selected : SUBSET Learnings, organ : {"none", "ledger", "bare"}]]
BY DEF LedgerInv, TypeOK, SentIsRunning, SentIsReceipted

LEMMA CandidateStep == \A c \in Callers : LedgerInv /\ CreateCandidate(c) => LedgerInv'
<1> SUFFICES ASSUME NEW c \in Callers, LedgerInv, CreateCandidate(c) PROVE LedgerInv'
  OBVIOUS
<1>1. PICK l \in Learnings : l = op[c].id
  BY AppendedIs DEF CreateCandidate, OpNames, Kinds
<1>2. /\ learning[l].maturity = "absent" /\ Cardinality(Known) < MaxLearnings
      /\ version' \in 0 .. MaxVersion /\ firm' \in 0 .. version' /\ mounted' \in BOOLEAN
  BY <1>1, AppendedIs DEF CreateCandidate, StillHolds, Kinds
<1>3. /\ learning' = [learning EXCEPT ![l] =
           [maturity |-> "candidate", contradicted |-> 0, author |-> c]]
      /\ UNCHANGED <<attempt, receipt, sent, since, verdict>>
  BY <1>1 DEF CreateCandidate
<1>4. /\ learning' \in [Learnings -> Stored]
      /\ learning'[l].maturity = "candidate" /\ learning'[l].contradicted = 0
      /\ \A k \in Learnings : k # l => learning'[k] = learning[k]
  BY <1>3 DEF LedgerInv, TypeOK, Stored, Maturities
<1>5. Known' = Known \cup {l} /\ l \notin Known
  BY <1>2, <1>4 DEF Known
<1>6. IsFiniteSet(Known)' /\ Cardinality(Known)' <= MaxLearnings
  <2>1. /\ IsFiniteSet(Known \cup {l})
        /\ Cardinality(Known \cup {l}) = Cardinality(Known) + 1
        /\ Cardinality(Known) \in Nat
    BY <1>5, FS_AddElement, FS_CardinalityType DEF LedgerInv
  <2> QED
    BY <1>2, <1>5, <2>1, PolicyAssumption
<1>7. Admitted'
  BY AppendedAdmits, IdleIs DEF CreateCandidate, Kinds
<1>8. TypeOK'
  BY <1>2, <1>3, <1>4, <1>6 DEF LedgerInv, TypeOK
<1>9. Counted' /\ ThresholdQuarantines'
  <2>1. since[l] = 0
    BY <1>2 DEF LedgerInv, Counted
  <2> QED
    BY <1>3, <1>4, <2>1, PolicyAssumption DEF LedgerInv, Counted, ThresholdQuarantines
<1>10. VerifiedByAnother'
  BY <1>3, <1>4 DEF LedgerInv, VerifiedByAnother
<1> QED
  BY <1>3, <1>6, <1>7, <1>8, <1>9, <1>10, AttemptsKept DEF LedgerInv

LEMMA ReviewStep == \A c \in Callers : LedgerInv /\ Review(c) => LedgerInv'
<1> SUFFICES ASSUME NEW c \in Callers, LedgerInv, Review(c) PROVE LedgerInv'
  OBVIOUS
<1>1. PICK l \in Learnings, outcome \in Outcomes : l = op[c].id /\ outcome = op[c].outcome
  BY AppendedIs DEF Review, OpNames, Kinds
<1>2. /\ learning[l].maturity # "absent"
      /\ ~(c.member = learning[l].author.member /\ c.run = learning[l].author.run)
      /\ version' \in 0 .. MaxVersion /\ firm' \in 0 .. version' /\ mounted' \in BOOLEAN
  BY <1>1, AppendedIs DEF Review, StillHolds, Kinds
<1>3. PICK m \in {"verified", "quarantined"} :
        /\ learning' = [learning EXCEPT ![l].maturity = m]
        /\ m = IF outcome = "contradicted" THEN "quarantined" ELSE "verified"
  BY <1>1 DEF Review
<1>4. /\ since' = [since EXCEPT ![l] = 0]
      /\ verdict' = [verdict EXCEPT ![l] = [by |-> c, outcome |-> outcome]]
      /\ UNCHANGED <<attempt, receipt, sent>>
  BY <1>1 DEF Review
<1>5. /\ learning' \in [Learnings -> Stored]
      /\ learning'[l].maturity = m /\ learning'[l].author = learning[l].author
      /\ learning'[l].contradicted \in Nat
      /\ \A k \in Learnings : k # l => learning'[k] = learning[k]
  <2>1. learning[l] \in Stored
    BY DEF LedgerInv, TypeOK
  <2>2. learning' = [learning EXCEPT ![l] =
          [maturity |-> m, contradicted |-> learning[l].contradicted, author |-> learning[l].author]]
    <3>1. learning' = [learning EXCEPT ![l] = [learning[l] EXCEPT !.maturity = m]]
      BY <1>3
    <3> QED
      BY <2>1, <3>1, FieldsSet
  <2>3. m \in Maturities
    BY DEF Maturities
  <2> QED
    <3>1. TypeOK /\ learning[l].contradicted \in Nat
      BY LearningType DEF LedgerInv
    <3>2. learning[l].author \in Callers \cup {NoCaller}
      BY LearningType DEF LedgerInv
    <3> QED
      BY <2>2, <2>3, <3>1, <3>2, Replaced
<1>6. Known' = Known
  BY <1>2, <1>5 DEF Known
<1>7. Admitted'
  BY AppendedAdmits, IdleIs DEF Review, Kinds
<1>8. /\ since' \in [Learnings -> Nat] /\ since'[l] = 0
      /\ verdict'[l] = [by |-> c, outcome |-> outcome]
      /\ verdict' \in [Learnings -> [by : Callers \cup {NoCaller}, outcome : Outcomes \cup {"none"}]]
      /\ \A k \in Learnings : k # l => since'[k] = since[k] /\ verdict'[k] = verdict[k]
  BY <1>4 DEF LedgerInv, TypeOK
<1>9. TypeOK'
  <2>1. /\ attempt' \in [Attempts -> {"cast", "running"}]
        /\ receipt' \in [Attempts -> [selected : SUBSET Learnings, made : BOOLEAN]]
        /\ sent' \in [Attempts -> [selected : SUBSET Learnings, organ : {"none", "ledger", "bare"}]]
    BY <1>4, AttemptsKept
  <2>2. Cardinality(Known)' <= MaxLearnings
    BY <1>6 DEF LedgerInv, TypeOK
  <2> QED
    <3>1. /\ mounted' \in BOOLEAN /\ version' \in 0 .. MaxVersion /\ firm' \in 0 .. version'
          /\ learning' \in [Learnings -> Stored] /\ since' \in [Learnings -> Nat]
      BY <1>2, <1>5, <1>8
    <3>2. verdict' \in [Learnings -> [by : Callers \cup {NoCaller}, outcome : Outcomes \cup {"none"}]]
      BY <1>8
    <3> QED
      BY <2>1, <2>2, <3>1, <3>2 DEF TypeOK
<1>10. Counted' /\ ThresholdQuarantines'
  <2>1. \A k \in Learnings : k # l => learning'[k] = learning[k] /\ since'[k] = since[k]
    BY <1>5, <1>8
  <2>2. Threshold \in Nat \ {0} /\ since'[l] = 0 /\ learning'[l].contradicted \in Nat
    BY <1>5, <1>8, PolicyAssumption
  <2>3. Counted'
    BY <1>2, <1>5, <2>1, <2>2 DEF LedgerInv, Counted
  <2>4. ThresholdQuarantines'
    BY <2>1, <2>2 DEF LedgerInv, ThresholdQuarantines
  <2> QED
    BY <2>3, <2>4
<1>11. VerifiedByAnother'
  BY <1>2, <1>3, <1>5, <1>8 DEF LedgerInv, VerifiedByAnother, Outcomes
<1> QED
  BY <1>4, <1>6, <1>7, <1>9, <1>10, <1>11, AttemptsKept DEF LedgerInv

LEMMA FeedbackStep == \A c \in Callers : LedgerInv /\ Feedback(c) => LedgerInv'
<1> SUFFICES ASSUME NEW c \in Callers, LedgerInv, Feedback(c) PROVE LedgerInv'
  OBVIOUS
<1>1. PICK l \in Learnings : l = op[c].id
  BY AppendedIs DEF Feedback, OpNames, Kinds
<1>2. PICK one \in {0, 1} : one = IF op[c].feedback = "CONTRADICTED" THEN 1 ELSE 0
  OBVIOUS
<1>3. PICK m : m = IF learning[l].contradicted + one >= Threshold
                   THEN "quarantined" ELSE learning[l].maturity
  OBVIOUS
<1>4. /\ learning[l].maturity # "absent" /\ op[c].maturity = m
      /\ version' \in 0 .. MaxVersion /\ firm' \in 0 .. version' /\ mounted' \in BOOLEAN
  BY <1>1, <1>2, <1>3, AppendedIs DEF Feedback, StillHolds, Kinds
<1>5. /\ learning' = [learning EXCEPT ![l].contradicted = @ + one, ![l].maturity = m]
      /\ since' = [since EXCEPT ![l] = @ + one]
      /\ UNCHANGED <<attempt, receipt, sent, verdict>>
  BY <1>1, <1>2, <1>4 DEF Feedback
<1>6. m \in Maturities /\ (m = "quarantined" \/ m = learning[l].maturity)
  BY <1>3, <1>4 DEF LedgerInv, TypeOK, Stored, Maturities
<1>7. /\ learning' \in [Learnings -> Stored]
      /\ learning'[l].maturity = m /\ learning'[l].author = learning[l].author
      /\ learning'[l].contradicted = learning[l].contradicted + one
      /\ \A k \in Learnings : k # l => learning'[k] = learning[k]
  <2>1. learning[l] \in Stored /\ learning[l].contradicted \in Nat
    BY LearningType DEF LedgerInv, TypeOK
  <2>2. learning' = [learning EXCEPT ![l] =
          [maturity |-> m, contradicted |-> learning[l].contradicted + one,
           author |-> learning[l].author]]
    <3>1. learning' = [learning EXCEPT ![l] =
            [learning[l] EXCEPT !.contradicted = learning[l].contradicted + one, !.maturity = m]]
      BY <1>5
    <3>2. PICK n \in Nat : n = learning[l].contradicted + one
      BY <2>1
    <3> QED
      BY <2>1, <3>1, <3>2, FieldsSet
  <2>3. learning[l].contradicted + one \in Nat /\ TypeOK
    BY <2>1 DEF LedgerInv
  <2> QED
    BY <1>6, <2>2, <2>3, Replaced, LearningType
<1>8. Known' = Known
  BY <1>4, <1>6, <1>7 DEF Known, Maturities
<1>9. Admitted'
  BY AppendedAdmits, IdleIs DEF Feedback, Kinds
<1>10. /\ since' \in [Learnings -> Nat] /\ since'[l] = since[l] + one
       /\ \A k \in Learnings : k # l => since'[k] = since[k]
  BY <1>5 DEF LedgerInv, TypeOK
<1>11. TypeOK'
  BY <1>4, <1>5, <1>7, <1>8, <1>10 DEF LedgerInv, TypeOK
<1>12. since[l] \in Nat /\ learning[l].contradicted \in Nat /\ since[l] <= learning[l].contradicted
  BY LearningType DEF LedgerInv, TypeOK, Counted
<1>13. Counted'
  BY <1>6, <1>7, <1>10, <1>12 DEF LedgerInv, Counted, Maturities
<1>14. ThresholdQuarantines'
  <2>1. since'[l] >= Threshold => m = "quarantined"
    BY <1>3, <1>10, <1>12, PolicyAssumption
  <2> QED
    BY <1>7, <1>10, <2>1 DEF LedgerInv, ThresholdQuarantines
<1>15. VerifiedByAnother'
  BY <1>5, <1>6, <1>7 DEF LedgerInv, VerifiedByAnother
<1> QED
  BY <1>5, <1>8, <1>9, <1>11, <1>13, <1>14, <1>15, AttemptsKept DEF LedgerInv

LEMMA ReconcileStep == \A c \in Callers : LedgerInv /\ Reconcile(c) => LedgerInv'
<1> SUFFICES ASSUME NEW c \in Callers, LedgerInv, Reconcile(c) PROVE LedgerInv'
  OBVIOUS
<1>1. Admitted' /\ version' \in 0 .. MaxVersion /\ firm' \in 0 .. version' /\ mounted' \in BOOLEAN
  BY AppendedIs, AppendedAdmits, IdleIs DEF Reconcile, Kinds
<1>2. UNCHANGED <<learning, attempt, receipt, sent, since, verdict>>
  BY DEF Reconcile
<1>3. TypeOK'
  BY <1>1, <1>2, LearningsKept, AttemptsKept DEF TypeOK
<1> QED
  BY <1>1, <1>2, <1>3, LearningsKept, AttemptsKept DEF LedgerInv

(* The receipt of an attempt that was not dispatched is replaced; the call *)
(* intent that follows it is fresh, and names what the receipt does.       *)
LEMMA InjectStep == \A c \in Callers : LedgerInv /\ Inject(c) => LedgerInv'
<1> SUFFICES ASSUME NEW c \in Callers, LedgerInv, Inject(c) PROVE LedgerInv'
  OBVIOUS
<1>1. PICK a \in Attempts, S \in SUBSET Learnings : a = op[c].attempt /\ S = op[c].selected
  BY AppendedIs DEF Inject, OpNames, Kinds
<1>2. /\ attempt[a] = "cast" /\ \A l \in S : learning[l].maturity = "verified"
      /\ version \in Nat /\ version' = version + 1
      /\ version' \in 0 .. MaxVersion /\ firm' \in 0 .. version' /\ mounted' \in BOOLEAN
  BY <1>1, AppendedIs DEF Inject, StillHolds, Kinds
<1>3. /\ receipt' = [receipt EXCEPT ![a] = Selection(S)]
      /\ UNCHANGED <<learning, attempt, sent, since, verdict>>
  BY <1>1 DEF Inject
<1>4. /\ receipt' \in [Attempts -> [selected : SUBSET Learnings, made : BOOLEAN]]
      /\ receipt'[a] = Selection(S)
      /\ \A b \in Attempts : b # a => receipt'[b] = receipt[b]
  BY <1>3 DEF LedgerInv, TypeOK, Selection
<1>5. TypeOK'
  BY <1>2, <1>3, <1>4, LearningsKept DEF LedgerInv, TypeOK
<1>6. Admitted'
  <2>1. CASE ~op[c].dispatch
    BY <2>1, AppendedAdmits, IdleIs DEF Inject, Kinds
  <2>2. CASE op[c].dispatch
    <3>1. PICK r : r = [kind |-> "intent", reads |-> version + 1, attempt |-> a, selected |-> S]
      OBVIOUS
    <3>2. op' = [op EXCEPT ![c] = r] /\ op'[c] = r
      BY <1>1, <2>2, <3>1 DEF Inject, LedgerInv, Admitted
    <3>3. OpNames(c)'
      BY <1>2, <3>1, <3>2 DEF OpNames, Kinds
    <3>4. StillHolds(c)'
      BY <1>2, <1>3, <1>4, <3>1, <3>2 DEF StillHolds
    <3> QED
      BY <3>2, <3>3, <3>4, AppendedAdmits DEF Inject, Kinds
  <2> QED
    BY <2>1, <2>2
<1>7. sent[a].organ = "none"
  BY <1>2 DEF LedgerInv, SentIsRunning
<1>8. SentIsRunning' /\ SentIsReceipted'
  BY <1>3, <1>4, <1>7 DEF LedgerInv, SentIsRunning, SentIsReceipted
<1> QED
  BY <1>3, <1>5, <1>6, <1>8, LearningsKept DEF LedgerInv

LEMMA DispatchStep == \A c \in Callers : LedgerInv /\ BeginDispatch(c) => LedgerInv'
<1> SUFFICES ASSUME NEW c \in Callers, LedgerInv, BeginDispatch(c) PROVE LedgerInv'
  OBVIOUS
<1>1. PICK a \in Attempts, S \in SUBSET Learnings : a = op[c].attempt /\ S = op[c].selected
  BY AppendedIs DEF BeginDispatch, OpNames, Kinds
<1>2. /\ mounted => receipt[a] = Selection(S)
      /\ version' \in 0 .. MaxVersion /\ firm' \in 0 .. version' /\ mounted' \in BOOLEAN
  BY <1>1, AppendedIs DEF BeginDispatch, StillHolds, Kinds
<1>3. /\ attempt' = [attempt EXCEPT ![a] = "running"]
      /\ sent' = [sent EXCEPT ![a] =
           [selected |-> S, organ |-> IF mounted THEN "ledger" ELSE "bare"]]
      /\ UNCHANGED <<learning, receipt, since, verdict>>
  BY <1>1 DEF BeginDispatch
<1>4. /\ sent' \in [Attempts -> [selected : SUBSET Learnings, organ : {"none", "ledger", "bare"}]]
      /\ attempt' \in [Attempts -> {"cast", "running"}]
      /\ sent'[a] = [selected |-> S, organ |-> IF mounted THEN "ledger" ELSE "bare"]
      /\ attempt'[a] = "running"
      /\ \A b \in Attempts : b # a => sent'[b] = sent[b] /\ attempt'[b] = attempt[b]
  BY <1>3 DEF LedgerInv, TypeOK
<1>5. TypeOK'
  BY <1>2, <1>3, <1>4, LearningsKept DEF LedgerInv, TypeOK
<1>6. Admitted'
  BY AppendedAdmits, IdleIs DEF BeginDispatch, Kinds
<1>7. SentIsRunning' /\ SentIsReceipted'
  BY <1>2, <1>3, <1>4 DEF LedgerInv, SentIsRunning, SentIsReceipted
<1> QED
  BY <1>3, <1>5, <1>6, <1>7, LearningsKept DEF LedgerInv

LEMMA StutterStep == LedgerInv /\ UNCHANGED vars => LedgerInv'
<1> SUFFICES ASSUME LedgerInv, UNCHANGED vars PROVE LedgerInv'
  OBVIOUS
<1>1. Admitted'
  BY DEF vars, LedgerInv, Admitted, OpNames, StillHolds, Fresh, Known
<1>2. mounted' \in BOOLEAN /\ version' \in version .. MaxVersion
  BY DEF vars, LedgerInv, TypeOK
<1> QED
  BY <1>1, <1>2, Aside DEF vars

LEMMA LedgerStep == LedgerInv /\ [Next]_vars => LedgerInv'
BY BeginStep, CandidateStep, ReviewStep, FeedbackStep, ReconcileStep, InjectStep, DispatchStep,
   DropStep, RestartStep, ObserveStep, StutterStep
DEF Next

THEOREM LedgerInvariant == Spec => []LedgerInv
BY LedgerInit, LedgerStep, PTL DEF Spec

-----------------------------------------------------------------------------
(* The properties.                                                         *)

(* Every variable keeps its type, and the cap on learnings is kept however *)
(* many callers create candidates at the same time.                        *)
THEOREM TypeCorrect == Spec => []TypeOK
<1>1. LedgerInv => TypeOK
  BY DEF LedgerInv
<1> QED
  BY <1>1, LedgerInvariant, PTL

(* No contradiction is lost to a report that overlapped it: as many as the *)
(* threshold since the last review quarantine the learning.                *)
THEOREM ContradictionsQuarantine == Spec => []ThresholdQuarantines
<1>1. LedgerInv => ThresholdQuarantines
  BY DEF LedgerInv
<1> QED
  BY <1>1, LedgerInvariant, PTL

(* Only a review by another member, or in another run, verifies a learning.*)
THEOREM AuthorsDoNotVerify == Spec => []VerifiedByAnother
<1>1. LedgerInv => VerifiedByAnother
  BY DEF LedgerInv
<1> QED
  BY <1>1, LedgerInvariant, PTL

(* The last receipt of an attempt that an organ with the ledger dispatched *)
(* says what its prompt contained, through restarts with the ledger and    *)
(* without it before and after.                                            *)
THEOREM ReceiptsAreTrue == Spec => []SentIsReceipted
<1>1. LedgerInv => SentIsReceipted
  BY DEF LedgerInv
<1> QED
  BY <1>1, LedgerInvariant, PTL

(* Only a call intent writes a prompt, and what it selected is verified.   *)
LEMMA IntentStep ==
  LedgerInv /\ [Next]_vars =>
    \A a \in Attempts : sent'[a] # sent[a] =>
      \A l \in sent'[a].selected : learning[l].maturity = "verified"
<1> SUFFICES ASSUME LedgerInv, [Next]_vars, NEW a \in Attempts, sent'[a] # sent[a]
             PROVE  \A l \in sent'[a].selected : learning[l].maturity = "verified"
  OBVIOUS
<1>1. PICK c \in Callers : BeginDispatch(c)
  BY DEF Next, vars, Begin, BeginOperation, BeginBare, CreateCandidate, Review, Feedback,
         Reconcile, Inject, Drop, Restart, Observe
<1>2. sent' = [sent EXCEPT ![op[c].attempt] =
        [selected |-> op[c].selected, organ |-> IF mounted THEN "ledger" ELSE "bare"]]
  BY <1>1 DEF BeginDispatch
<1>3. sent'[a].selected = op[c].selected
  BY <1>2 DEF LedgerInv, TypeOK
<1>4. \A l \in op[c].selected : learning[l].maturity = "verified"
  BY <1>1, AppendedIs DEF BeginDispatch, StillHolds, Kinds
<1> QED
  BY <1>3, <1>4

(* When a call intent is journaled, everything in its prompt is verified:  *)
(* no review or feedback slips in between the selection and the intent.    *)
THEOREM PromptsAreVerified == Spec => DispatchedWasVerified
BY IntentStep, LedgerInvariant, PTL DEF Spec, DispatchedWasVerified
=============================================================================
