--------------------------------- MODULE Ledger ---------------------------------
(***************************************************************************)
(* The experience ledger (src/src/ledger.cpp) and its use in a dispatch    *)
(* (src/src/main.cpp).  A caller evaluates the guard of an operation and   *)
(* computes its record, and then appends it, which is refused if anything  *)
(* but commutative observations was appended in between.  With the ledger  *)
(* a dispatch appends twice: the injection receipt, and then the call      *)
(* intent at the version of that receipt.  An organ that was started       *)
(* without --ledger-policy replays the ledger, refuses its operations and  *)
(* dispatches the bare prompt.  The request loop is the case of one        *)
(* caller; of several, each takes its version between two appends.         *)
(***************************************************************************)
EXTENDS Integers, FiniteSets

CONSTANTS
  Callers,      \* mounts that call: [mount, member, run, role]
  Learnings,    \* learning ids
  Attempts,     \* attempts that were cast
  NoCaller,     \* nobody wrote, nobody reviewed
  ReviewAfter,  \* review_after of each learning, 0 for never
  Threshold,    \* contradiction_quarantine_threshold
  MaxLearnings, \* max_learnings
  MaxVersion    \* bound: the last state version

ASSUME CallerAssumption ==
  /\ \A c \in Callers : {"member", "run", "role"} \subseteq DOMAIN c
  /\ NoCaller \notin Callers
ASSUME PolicyAssumption ==
  /\ Threshold \in Nat \ {0} /\ MaxLearnings \in Nat \ {0} /\ MaxVersion \in Nat
  /\ ReviewAfter \in [Learnings -> Nat]

VARIABLES
  mounted,  \* this organ was started with --ledger-policy
  version,  \* state_version_
  firm,     \* version of the last record that does not commute
  learning, \* learnings_: maturity, contradicted_count and author
  attempt,  \* state of each attempt
  receipt,  \* selection of the last injection receipt of each attempt
  sent,     \* prompt of each attempt's call intent: selection, and which organ built it
  op,       \* the record that each caller is about to append
  since,    \* contradictions since the last review (history)
  verdict   \* reviewer and outcome of the last review (history)

vars == <<mounted, version, firm, learning, attempt, receipt, sent, op, since, verdict>>

Maturities == {"candidate", "verified", "quarantined"}
Stored == [maturity : Maturities \cup {"absent"}, contradicted : Nat, author : Callers \cup {NoCaller}]

Outcomes == {"confirmed", "contradicted"}   \* "qualified" has the effect of "confirmed"
Feedbacks == {"USED", "CONTRADICTED"}       \* the other kinds have the effect of "USED"
Bases == {"independent_verification", "mechanical_outcome"}

Idle == [kind |-> "idle"]
Unreviewed == [by |-> NoCaller, outcome |-> "none"]
Nothing == [selected |-> {}, made |-> FALSE]
Selection(S) == [selected |-> S, made |-> TRUE]
Unsent == [selected |-> {}, organ |-> "none"]

Init ==
  /\ mounted \in BOOLEAN /\ version = 0 /\ firm = 0
  /\ learning = [l \in Learnings |-> [maturity |-> "absent", contradicted |-> 0, author |-> NoCaller]]
  /\ attempt = [a \in Attempts |-> "cast"]
  /\ receipt = [a \in Attempts |-> Nothing] /\ sent = [a \in Attempts |-> Unsent]
  /\ op = [c \in Callers |-> Idle]
  /\ since = [l \in Learnings |-> 0] /\ verdict = [l \in Learnings |-> Unreviewed]

Known == {l \in Learnings : learning[l].maturity # "absent"}

(* Mutant: a learning that was used counts as verified.                    *)
Resulting_UsePromotes(l, feedback, count) ==
  IF count >= Threshold THEN "quarantined"
  ELSE IF feedback = "USED" THEN "verified" ELSE learning[l].maturity

(* The maturity that a feedback record carries.                            *)
Resulting(l, feedback, count) ==
  IF count >= Threshold THEN "quarantined" ELSE learning[l].maturity

(* verified, and not due for review.  Confidence, scope and keys only make *)
(* fewer learnings eligible.                                               *)
Eligible ==
  {l \in Known : /\ learning[l].maturity = "verified"
                 /\ ReviewAfter[l] = 0 \/ version < ReviewAfter[l]}

(* An author does not review in the run in which it wrote, and an          *)
(* independent reviewer is another member.                                 *)
MayReview(c, l, basis) ==
  /\ c.role = "verifier"
  /\ ~(c.member = learning[l].author.member /\ c.run = learning[l].author.run)
  /\ basis = "independent_verification" => c.member # learning[l].author.member

(* Mutant: an injection does not ask for a freshly cast attempt.           *)
MayInject_AnyState(a) == a \in Attempts

MayInject(a) == attempt[a] = "cast"

(* The operations a caller may begin: guard, and record.  Without a policy *)
(* require_ledger refuses all of them.                                     *)
BeginOperation(c) ==
  /\ mounted /\ op[c] = Idle
  /\ \/ \E l \in Learnings \ Known :
          /\ Cardinality(Known) < MaxLearnings
          /\ op' = [op EXCEPT ![c] = [kind |-> "candidate", reads |-> version, id |-> l]]
     \/ \E l \in Known, outcome \in Outcomes, basis \in Bases :
          /\ MayReview(c, l, basis)
          /\ op' = [op EXCEPT ![c] =
               [kind |-> "review", reads |-> version, id |-> l, outcome |-> outcome]]
     \/ \E l \in Known, feedback \in Feedbacks :
          LET count == learning[l].contradicted + (IF feedback = "CONTRADICTED" THEN 1 ELSE 0) IN
          op' = [op EXCEPT ![c] =
            [kind |-> "feedback", reads |-> version, id |-> l, feedback |-> feedback,
             maturity |-> Resulting(l, feedback, count)]]
     \/ \E a \in Attempts, S \in SUBSET Eligible, dispatch \in BOOLEAN :
          /\ MayInject(a)
          /\ op' = [op EXCEPT ![c] =
               [kind |-> "injection", reads |-> version, attempt |-> a, selected |-> S,
                dispatch |-> dispatch]]
     \/ /\ c.role = "verifier" /\ Cardinality(Known) >= 2
        /\ op' = [op EXCEPT ![c] = [kind |-> "reconciliation", reads |-> version]]
  /\ UNCHANGED <<mounted, version, firm, learning, attempt, receipt, sent, since, verdict>>

(* A dispatch without the ledger: prompt_for, and no injection.            *)
BeginBare(c) ==
  /\ ~mounted /\ op[c] = Idle
  /\ \E a \in Attempts :
       /\ attempt[a] = "cast"
       /\ op' = [op EXCEPT ![c] =
            [kind |-> "intent", reads |-> version, attempt |-> a, selected |-> {}]]
  /\ UNCHANGED <<mounted, version, firm, learning, attempt, receipt, sent, since, verdict>>

Begin(c) == BeginOperation(c) \/ BeginBare(c)

(* Mutants: no version is compared; feedback is rebased over whatever came *)
(* between; a call intent does not carry the version of its injection.     *)
Fresh_Unconditional(c) == op[c].reads <= version
Fresh_FeedbackRebased(c) == op[c].kind = "feedback" \/ op[c].reads >= firm
Fresh_IntentAtHead(c) == op[c].kind = "intent" \/ op[c].reads >= firm

(* The conditional append admits the record.                               *)
Fresh(c) == op[c].reads >= firm

Appended(c, kind) ==
  /\ op[c].kind = kind /\ Fresh(c)
  /\ version < MaxVersion
  /\ version' = version + 1 /\ firm' = version + 1
  /\ UNCHANGED mounted

CreateCandidate(c) ==
  /\ Appended(c, "candidate")
  /\ learning' = [learning EXCEPT ![op[c].id] =
       [maturity |-> "candidate", contradicted |-> 0, author |-> c]]
  /\ op' = [op EXCEPT ![c] = Idle]
  /\ UNCHANGED <<attempt, receipt, sent, since, verdict>>

Review(c) ==
  /\ Appended(c, "review")
  /\ learning' = [learning EXCEPT ![op[c].id].maturity =
       IF op[c].outcome = "contradicted" THEN "quarantined" ELSE "verified"]
  /\ since' = [since EXCEPT ![op[c].id] = 0]
  /\ verdict' = [verdict EXCEPT ![op[c].id] = [by |-> c, outcome |-> op[c].outcome]]
  /\ op' = [op EXCEPT ![c] = Idle]
  /\ UNCHANGED <<attempt, receipt, sent>>

(* The count is taken from the map again, the maturity from the record.    *)
Feedback(c) ==
  /\ Appended(c, "feedback")
  /\ LET one == IF op[c].feedback = "CONTRADICTED" THEN 1 ELSE 0 IN
     /\ learning' = [learning EXCEPT ![op[c].id].contradicted = @ + one,
                                     ![op[c].id].maturity = op[c].maturity]
     /\ since' = [since EXCEPT ![op[c].id] = @ + one]
  /\ op' = [op EXCEPT ![c] = Idle]
  /\ UNCHANGED <<attempt, receipt, sent, verdict>>

Reconcile(c) ==
  /\ Appended(c, "reconciliation")
  /\ op' = [op EXCEPT ![c] = Idle]
  /\ UNCHANGED <<learning, attempt, receipt, sent, since, verdict>>

(* The receipt is kept; a dispatch goes on to its call intent.             *)
Inject(c) ==
  /\ Appended(c, "injection")
  /\ receipt' = [receipt EXCEPT ![op[c].attempt] = Selection(op[c].selected)]
  /\ op' = [op EXCEPT ![c] =
       IF op[c].dispatch
       THEN [kind |-> "intent", reads |-> version + 1,
             attempt |-> op[c].attempt, selected |-> op[c].selected]
       ELSE Idle]
  /\ UNCHANGED <<learning, attempt, sent, since, verdict>>

(* begin_dispatch, with the prompt that was built from the selection.      *)
BeginDispatch(c) ==
  /\ Appended(c, "intent")
  /\ attempt[op[c].attempt] = "cast"
  /\ attempt' = [attempt EXCEPT ![op[c].attempt] = "running"]
  /\ sent' = [sent EXCEPT ![op[c].attempt] =
       [selected |-> op[c].selected, organ |-> IF mounted THEN "ledger" ELSE "bare"]]
  /\ op' = [op EXCEPT ![c] = Idle]
  /\ UNCHANGED <<learning, receipt, since, verdict>>

(* STALE_PRECONDITION, or a cap of the core: what was appended so far      *)
(* stays, an injection receipt included.                                   *)
Drop(c) ==
  /\ op[c] # Idle
  /\ op' = [op EXCEPT ![c] = Idle]
  /\ UNCHANGED <<mounted, version, firm, learning, attempt, receipt, sent, since, verdict>>

(* The process ended, between any two appends, and another one replays     *)
(* what they left, with a ledger policy or without one.                    *)
Restart ==
  /\ mounted' \in BOOLEAN
  /\ op' = [c \in Callers |-> Idle]
  /\ UNCHANGED <<version, firm, learning, attempt, receipt, sent, since, verdict>>

(* A commutative workroom observation is appended.                         *)
Observe ==
  /\ version < MaxVersion
  /\ version' = version + 1
  /\ UNCHANGED <<mounted, firm, learning, attempt, receipt, sent, op, since, verdict>>

Next ==
  \/ \E c \in Callers :
       \/ Begin(c) \/ CreateCandidate(c) \/ Review(c) \/ Feedback(c) \/ Reconcile(c)
       \/ Inject(c) \/ BeginDispatch(c) \/ Drop(c)
  \/ Observe \/ Restart

Spec == Init /\ [][Next]_vars

-----------------------------------------------------------------------------
(* Properties.                                                             *)

(* The type of every variable, and the cap on learnings.                   *)
TypeOK ==
  /\ mounted \in BOOLEAN /\ version \in 0 .. MaxVersion /\ firm \in 0 .. version
  /\ learning \in [Learnings -> Stored] /\ Cardinality(Known) <= MaxLearnings
  /\ attempt \in [Attempts -> {"cast", "running"}]
  /\ receipt \in [Attempts -> [selected : SUBSET Learnings, made : BOOLEAN]]
  /\ sent \in [Attempts -> [selected : SUBSET Learnings, organ : {"none", "ledger", "bare"}]]
  /\ since \in [Learnings -> Nat]
  /\ verdict \in [Learnings -> [by : Callers \cup {NoCaller}, outcome : Outcomes \cup {"none"}]]

(* A learning that was contradicted Threshold times since its last review  *)
(* is quarantined, whoever reported the contradictions at the same time.   *)
ThresholdQuarantines ==
  \A l \in Learnings : since[l] >= Threshold => learning[l].maturity = "quarantined"

(* A verified learning was last reviewed with success, and by somebody     *)
(* else than the author in the run that wrote it; feedback never promotes. *)
VerifiedByAnother ==
  \A l \in Learnings : learning[l].maturity = "verified" =>
    /\ verdict[l].outcome = "confirmed"
    /\ \/ verdict[l].by.member # learning[l].author.member
       \/ verdict[l].by.run # learning[l].author.run

(* When a call intent is journaled, everything in its prompt is verified:  *)
(* no review or feedback slips in between the selection and the intent.    *)
DispatchedWasVerified ==
  [][\A a \in Attempts : sent'[a] # sent[a] =>
       \A l \in sent'[a].selected : learning[l].maturity = "verified"]_vars

(* The last injection receipt of an attempt says what its prompt contained *)
(* when an organ with the ledger dispatched it, however many injections    *)
(* were prepared for it, by whatever organs.  (One without the ledger may  *)
(* send the bare prompt after an injection that was never dispatched.)     *)
SentIsReceipted ==
  \A a \in Attempts : sent[a].organ = "ledger" => receipt[a] = Selection(sent[a].selected)
=============================================================================
