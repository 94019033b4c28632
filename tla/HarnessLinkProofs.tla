-------------------------- MODULE HarnessLinkProofs --------------------------
(* Theorems about HarnessLink, for every number of calls, size of the pipe *)
(* and length of the timeouts.                                             *)
EXTENDS HarnessLink, TLAPS

-----------------------------------------------------------------------------
(* Sequences.                                                              *)

LEMMA AppendIs ==
  ASSUME NEW S, NEW s \in Seq(S), NEW e \in S, NEW t, t = Append(s, e)
  PROVE  /\ t \in Seq(S) /\ Len(t) = Len(s) + 1 /\ Len(s) \in Nat
         /\ \A k \in 1 .. Len(s) : t[k] = s[k]
         /\ t[Len(s) + 1] = e
OBVIOUS

LEMMA Elements ==
  ASSUME NEW S, NEW s \in Seq(S)
  PROVE  Len(s) \in Nat /\ \A k \in 1 .. Len(s) : s[k] \in S
OBVIOUS

LEMMA OfLengthOne ==
  ASSUME NEW S, NEW s \in Seq(S), Len(s) = 1
  PROVE  Tail(s) = <<>>
<1>1. Tail(s) \in Seq(S) /\ Len(Tail(s)) = 0
  OBVIOUS
<1>2. \A t \in Seq(S) : Len(t) = 0 => t = <<>>
  OBVIOUS
<1> QED
  BY <1>1, <1>2

LEMMA TailIs ==
  ASSUME NEW S, NEW s \in Seq(S), s # <<>>, NEW t, t = Tail(s)
  PROVE  /\ t \in Seq(S) /\ Len(t) = Len(s) - 1 /\ Len(s) \in Nat \ {0}
         /\ \A k \in 1 .. Len(t) : t[k] = s[k + 1] /\ k + 1 \in 1 .. Len(s)
         /\ Head(s) = s[1] /\ s[1] \in S
OBVIOUS

-----------------------------------------------------------------------------
(* The lines and the answers come in the order of the calls.               *)

(* The last call whose line was written.                                   *)
LastSent == IF phase \in Writing THEN Current - 1 ELSE Current

InFlight == phase \in Writing \cup {"reading"}

(* The pipes and the engine hold the calls in the order of their ids, each *)
(* of them once, none beyond the last one written.                         *)
InOrder ==
  /\ \A k, l \in 1 .. Len(toOrgan) : k < l => toOrgan[k].id < toOrgan[l].id
  /\ \A k, l \in 1 .. Len(toEngine) : k < l => toEngine[k] < toEngine[l]
  /\ \A k \in 1 .. Len(toOrgan), l \in 1 .. Len(toEngine) : toOrgan[k].id < toEngine[l]
  /\ \A k \in 1 .. Len(toOrgan) : serving # 0 => toOrgan[k].id < serving
  /\ \A l \in 1 .. Len(toEngine) : serving < toEngine[l]
  /\ \A k \in 1 .. Len(toOrgan) : toOrgan[k].id <= LastSent
  /\ \A l \in 1 .. Len(toEngine) : toEngine[l] <= LastSent
  /\ serving <= LastSent

(* What is not yet served is not carried out; what was answered without an *)
(* error is.                                                               *)
Carried ==
  /\ \A i \in Calls : i > LastSent => executed[i] = 0
  /\ \A l \in 1 .. Len(toEngine) : executed[toEngine[l]] = 0
  /\ serving # 0 => executed[serving] = 0
  /\ \A k \in 1 .. Len(toOrgan) : toOrgan[k].reply # "error" => executed[toOrgan[k].id] = 1

(* Calls are settled one after the other.                                  *)
Settled ==
  /\ \A i \in Calls : i < Current => outcome[i] # "none"
  /\ \A i \in Calls : i > Current => outcome[i] = "none"
  /\ InFlight => Current \in Calls /\ outcome[Current] = "none"
  /\ ~InFlight /\ phase # "dead" /\ Current \in Calls => outcome[Current] # "none"

(* An engine that is gone serves no call.                                  *)
Gone ==
  /\ ~alive => serving = 0
  /\ phase = "gone" => ~alive

LinkInv == TypeOK /\ InOrder /\ Carried /\ Settled /\ Gone

LEMMA WaitIsNat == TypeOK => Wait \in Nat /\ Wait <= EngineCap /\ timeout \in Nat \ {0}
BY TimeAssumption DEF TypeOK, Wait

Answered == [id : Calls, reply : Replies]

LEMMA PipeTypes ==
  ASSUME TypeOK
  PROVE  toOrgan \in Seq(Answered) /\ toEngine \in Seq(Calls)
BY DEF TypeOK, Answered

(* What is in the pipes names calls.                                       *)
LEMMA InPipes ==
  ASSUME TypeOK
  PROVE  /\ \A k \in 1 .. Len(toOrgan) :
              /\ toOrgan[k].id \in Calls /\ toOrgan[k].id \in Nat \ {0}
              /\ toOrgan[k].reply \in Replies
         /\ \A l \in 1 .. Len(toEngine) : toEngine[l] \in Calls /\ toEngine[l] \in Nat \ {0}
         /\ Len(toOrgan) \in Nat /\ Len(toEngine) \in Nat
         /\ \A i \in Calls : i \in Nat \ {0}
         /\ Current \in Nat /\ MaxId \in Nat /\ LastSent \in Int /\ serving \in Nat
<1>1. MaxId \in Nat /\ nextId \in 1 .. MaxId + 1
  BY BoundAssumption DEF TypeOK
<1>2. \A i \in Calls : i \in Nat \ {0}
  BY <1>1 DEF Calls
<1>3. /\ \A k \in 1 .. Len(toOrgan) : toOrgan[k] \in Answered
      /\ Len(toOrgan) \in Nat
  BY PipeTypes, Elements
<1>4. /\ \A l \in 1 .. Len(toEngine) : toEngine[l] \in Calls
      /\ Len(toEngine) \in Nat
  <2> HIDE DEF Calls
  <2> QED
    BY PipeTypes, Elements
<1>5. \A a \in Answered : a.id \in Calls /\ a.reply \in Replies
  BY DEF Answered
<1>6. Current \in Nat /\ LastSent \in Int
  BY <1>1 DEF Current, LastSent
<1>7. serving \in Nat
  BY <1>2 DEF TypeOK
<1> QED
  BY <1>1, <1>2, <1>3, <1>4, <1>5, <1>6, <1>7

LEMMA LinkInit == Init => LinkInv
<1> SUFFICES ASSUME Init PROVE LinkInv
  OBVIOUS
<1>1. timeout \in Nat \ {0} /\ 0 \in 0 .. timeout /\ 0 \in 0 .. Wait /\ 0 \in 0 .. MaxNeed
  BY TimeAssumption, BoundAssumption DEF Init, Wait
<1>2. nextId \in 1 .. MaxId + 1 /\ Current = 0
  BY BoundAssumption DEF Init, Current
<1>3. Len(toEngine) = 0 /\ Len(toOrgan) = 0
  BY DEF Init
<1>4. TypeOK
  <2>1. toEngine \in Seq(Calls) /\ toOrgan \in Seq([id : Calls, reply : Replies])
    BY DEF Init
  <2>2. /\ outcome \in [Calls -> Outcomes] /\ executed \in [Calls -> 0 .. 1]
        /\ need \in [Calls -> 0 .. MaxNeed]
    BY <1>1 DEF Init, Outcomes
  <2>3. polled \in 0 .. timeout /\ waited \in 0 .. Wait
    BY <1>1 DEF Init
  <2> QED
    BY <1>2, <2>1, <2>2, <2>3 DEF Init, TypeOK, Phases
<1>5. \A i \in Calls : i \in Int /\ i >= 1
  BY BoundAssumption DEF Calls
<1> QED
  BY <1>2, <1>3, <1>4, <1>5 DEF Init, LinkInv, InOrder, Carried, Settled, Gone, LastSent, InFlight, Writing

-----------------------------------------------------------------------------
(* What the steps preserve.                                                *)

LEMMA CallStep == LinkInv /\ Call => LinkInv'
<1> SUFFICES ASSUME LinkInv, Call PROVE LinkInv'
  OBVIOUS
<1>1. TypeOK
  BY DEF LinkInv
<1>2. nextId \in 1 .. MaxId /\ nextId \in Calls /\ Current' = Current + 1 /\ Current' = nextId
  BY <1>1, InPipes DEF Call, TypeOK, Calls, Current
<1>3. TypeOK'
  <2>1. nextId' \in 1 .. MaxId + 1
    BY <1>1, <1>2, InPipes DEF Call
  <2>2. need' \in [Calls -> 0 .. MaxNeed]
    BY <1>1, <1>2 DEF Call, TypeOK
  <2>3. polled' \in 0 .. timeout' /\ waited' \in 0 .. Wait'
    BY <1>1, WaitIsNat DEF Call, TypeOK, Wait
  <2> QED
    BY <1>1, <2>1, <2>2, <2>3 DEF Call, TypeOK, engine, ending, Phases, Writing
<1>4. LastSent' = LastSent
  BY <1>1, <1>2, InPipes DEF LastSent, Call, Writing
<1>7. InOrder'
  BY <1>1, <1>4 DEF Call, LinkInv, InOrder, engine
<1>8. Carried'
  BY <1>1, <1>4 DEF Call, LinkInv, Carried, engine
<1>9. Settled'
  BY <1>1, <1>2, InPipes DEF Call, LinkInv, Settled, InFlight, Writing
<1> QED
  BY <1>3, <1>7, <1>8, <1>9 DEF Call, LinkInv, Gone, engine, Writing

LEMMA WriteStep == LinkInv /\ (WriteLine \/ WriteLong) => LinkInv'
<1> SUFFICES ASSUME LinkInv, WriteLine \/ WriteLong PROVE LinkInv'
  OBVIOUS
<1>1. TypeOK /\ Current \in Calls /\ Current' = Current
      /\ Current \in Nat /\ LastSent' = Current /\ LastSent = Current - 1
  BY InPipes DEF LinkInv, Settled, InFlight, WriteLine, WriteLong, Written, Current, LastSent, Writing
<1>2. /\ toEngine' \in Seq(Calls) /\ Len(toEngine') = Len(toEngine) + 1 /\ Len(toEngine) \in Nat
      /\ \A l \in 1 .. Len(toEngine) : toEngine'[l] = toEngine[l]
      /\ toEngine'[Len(toEngine) + 1] = Current
  <2>1. toEngine' = Append(toEngine, Current) /\ toEngine \in Seq(Calls)
    BY <1>1 DEF WriteLine, WriteLong, Written, TypeOK
  <2> HIDE DEF Calls
  <2> QED
    BY <1>1, <2>1, AppendIs
<1>3. TypeOK'
  BY <1>1, <1>2 DEF WriteLine, WriteLong, Written, TypeOK, Wait, engine, ending, clock, Phases
<1>5. \A l \in 1 .. Len(toEngine') : l \in 1 .. Len(toEngine) \/ l = Len(toEngine) + 1
  BY <1>2
<1>6. InOrder'
  <2>1. serving \in Nat /\ UNCHANGED <<toOrgan, serving>> /\ InOrder
    BY <1>1, InPipes DEF WriteLine, WriteLong, Written, engine, LinkInv
  <2>0. \A i \in Nat : i <= LastSent => i < Current
    BY <1>1
  <2>2. \A k \in 1 .. Len(toOrgan) : toOrgan[k].id \in Nat /\ toOrgan[k].id < Current
    BY <1>1, <2>0, <2>1, InPipes DEF InOrder
  <2>3. \A l \in 1 .. Len(toEngine) : toEngine[l] \in Nat /\ toEngine[l] < Current
    BY <1>1, <2>0, <2>1, InPipes DEF InOrder
  <2>8. serving < Current
    BY <2>0, <2>1 DEF InOrder
  <2>4. \A k, l \in 1 .. Len(toEngine') : k < l => toEngine'[k] < toEngine'[l]
    BY <1>2, <1>5, <2>1, <2>3 DEF InOrder
  <2>5. \A l \in 1 .. Len(toEngine') : toEngine'[l] <= Current /\ serving < toEngine'[l]
    BY <1>1, <1>2, <1>5, <2>1, <2>3, <2>8 DEF InOrder
  <2>6. \A k \in 1 .. Len(toOrgan), l \in 1 .. Len(toEngine') : toOrgan[k].id < toEngine'[l]
    BY <1>2, <1>5, <2>1, <2>2 DEF InOrder
  <2> QED
    BY <1>1, <2>1, <2>2, <2>4, <2>5, <2>6 DEF InOrder
<1>7. Carried'
  <2>1. \A i \in Calls : i > Current => i > LastSent
    BY <1>1, InPipes
  <2>2. executed[Current] = 0
    BY <1>1 DEF LinkInv, Carried
  <2>3. \A i \in Calls : i > LastSent' => executed[i] = 0
    BY <1>1, <2>1 DEF LinkInv, Carried
  <2> QED
    BY <2>3, <1>1, <1>2, <1>5, <2>1, <2>2 DEF WriteLine, WriteLong, Written, LinkInv, Carried, engine
<1>8. Settled'
  BY <1>1 DEF WriteLine, WriteLong, Written, LinkInv, Settled, InFlight, Writing
<1> QED
  BY <1>3, <1>6, <1>7, <1>8 DEF WriteLine, WriteLong, Written, LinkInv, Gone, engine

(* The end of a call, whatever came of it.                                 *)
LEMMA SettleStep ==
  ASSUME LinkInv, phase = "reading", NEW how \in Outcomes \ {"none"}, Settle(how),
         \/ UNCHANGED toOrgan
         \/ toOrgan # <<>> /\ toOrgan' = Tail(toOrgan)
  PROVE  LinkInv'
<1>1. TypeOK /\ Current \in Calls /\ Current' = Current
  BY DEF LinkInv, Settled, InFlight, Settle, Current
<1>2. toOrgan \in Seq(Answered)
  BY <1>1, PipeTypes
<1>3. /\ toOrgan' \in Seq(Answered) /\ Len(toOrgan') \in Nat
      /\ \E d \in {0, 1} : \A k \in 1 .. Len(toOrgan') :
           k + d \in 1 .. Len(toOrgan) /\ toOrgan'[k] = toOrgan[k + d]
  <2>1. CASE UNCHANGED toOrgan
    <3>1. \A k \in 1 .. Len(toOrgan') : k + 0 \in 1 .. Len(toOrgan) /\ toOrgan'[k] = toOrgan[k + 0]
      BY <2>1
    <3> QED
      BY <1>1, <1>2, <2>1, <3>1, InPipes
  <2>2. CASE toOrgan # <<>> /\ toOrgan' = Tail(toOrgan)
    <3>2. /\ toOrgan' \in Seq(Answered) /\ Len(toOrgan') \in Nat
          /\ \A k \in 1 .. Len(toOrgan') : toOrgan'[k] = toOrgan[k + 1] /\ k + 1 \in 1 .. Len(toOrgan)
      BY <1>2, <2>2, TailIs
    <3> QED
      BY <3>2
  <2> QED
    BY <2>1, <2>2
<1>4. phase' \in {"idle", "closing"} /\ outcome' = [outcome EXCEPT ![Current] = how]
  BY DEF Settle
<1>5. TypeOK'
  BY <1>1, <1>3, <1>4 DEF Settle, TypeOK, Answered, Wait, engine, ending, clock, Phases
<1>6. LastSent' = LastSent
  BY <1>1, <1>4 DEF LastSent, Writing
<1>7. InOrder'
  <2>1. PICK d \in {0, 1} : \A k \in 1 .. Len(toOrgan') :
          k + d \in 1 .. Len(toOrgan) /\ toOrgan'[k] = toOrgan[k + d]
    BY <1>3
  <2>2. UNCHANGED <<toEngine, serving>>
    BY DEF Settle, engine
  <2>3. QED
    <3>1. InOrder /\ serving \in Calls \cup {0}
      BY <1>1 DEF LinkInv, TypeOK
    <3>2. \A k, l \in 1 .. Len(toOrgan') : k < l => toOrgan'[k].id < toOrgan'[l].id
      <4>1. \A k, l \in 1 .. Len(toOrgan') : k < l => k + d < l + d
        BY <1>3, <2>1
      <4> QED
        BY <2>1, <3>1, <4>1 DEF InOrder
    <3>3. \A k \in 1 .. Len(toOrgan') :
            /\ toOrgan'[k].id <= LastSent /\ (serving # 0 => toOrgan'[k].id < serving)
            /\ \A l \in 1 .. Len(toEngine) : toOrgan'[k].id < toEngine[l]
      BY <2>1, <3>1 DEF InOrder
    <3> QED
      BY <1>6, <2>2, <3>1, <3>2, <3>3 DEF InOrder
<1>8. Carried'
  <2>1. \A k \in 1 .. Len(toOrgan') : \E l \in 1 .. Len(toOrgan) : toOrgan'[k] = toOrgan[l]
    BY <1>3
  <2>2. UNCHANGED <<toEngine, serving, executed>>
    BY DEF Settle, engine
  <2>3. QED
    <3>1. Carried
      BY DEF LinkInv
    <3>2. \A k \in 1 .. Len(toOrgan') :
            toOrgan'[k].reply # "error" => executed[toOrgan'[k].id] = 1
      BY <2>1, <3>1 DEF Carried
    <3> QED
      BY <1>6, <2>2, <3>1, <3>2 DEF Carried
<1>9. Settled'
  BY <1>1, <1>4, InPipes DEF LinkInv, Settled, InFlight, TypeOK, Writing
<1> QED
  BY <1>4, <1>5, <1>7, <1>8, <1>9 DEF Settle, LinkInv, Gone, engine

LEMMA ServeStep == LinkInv /\ Serve => LinkInv'
<1> SUFFICES ASSUME LinkInv, Serve PROVE LinkInv'
  OBVIOUS
<1>1. TypeOK /\ serving = 0 /\ toEngine # <<>> /\ alive /\ Current' = Current
  BY DEF LinkInv, Serve, MayServe, Current
<1>2. /\ toEngine' \in Seq(Calls) /\ Len(toEngine') \in Nat
      /\ \A l \in 1 .. Len(toEngine') :
           toEngine'[l] = toEngine[l + 1] /\ l + 1 \in 1 .. Len(toEngine)
      /\ 1 \in 1 .. Len(toEngine) /\ serving' = toEngine[1]
  <2>1. toEngine' = Tail(toEngine) /\ toEngine \in Seq(Calls) /\ serving' = Head(toEngine)
    BY <1>1 DEF Serve, TypeOK
  <2> HIDE DEF Calls
  <2> QED
    BY <1>1, <2>1, TailIs
<1>3. serving' \in Calls /\ serving' # 0
  BY <1>1, <1>2, InPipes
<1>4. TypeOK'
  BY <1>1, <1>2, <1>3, WaitIsNat DEF Serve, TypeOK, Wait, ending, Phases
<1>5. LastSent' = LastSent
  BY DEF Serve, LastSent, Current
<1>6. InOrder'
  <2>1. InOrder /\ UNCHANGED toOrgan
    BY DEF Serve, LinkInv
  <2>2. \A k, l \in 1 .. Len(toEngine') : k < l => toEngine'[k] < toEngine'[l]
    <3>1. \A k, l \in 1 .. Len(toEngine') : k < l => k + 1 < l + 1
      BY <1>2
    <3> QED
      BY <1>2, <2>1, <3>1 DEF InOrder
  <2>3. \A l \in 1 .. Len(toEngine') : serving' < toEngine'[l] /\ toEngine'[l] <= LastSent
    <3>1. \A l \in 1 .. Len(toEngine') : 1 < l + 1
      BY <1>2
    <3> QED
      BY <1>2, <2>1, <3>1 DEF InOrder
  <2>4. /\ serving' <= LastSent
        /\ \A k \in 1 .. Len(toOrgan) :
             toOrgan[k].id < serving' /\ \A l \in 1 .. Len(toEngine') : toOrgan[k].id < toEngine'[l]
    BY <1>2, <2>1 DEF InOrder
  <2> QED
    BY <1>5, <2>1, <2>2, <2>3, <2>4 DEF InOrder
<1>7. Carried'
  BY <1>1, <1>2, <1>3, <1>5, InPipes DEF Serve, LinkInv, Carried
<1>8. Settled'
  BY <1>1 DEF Serve, LinkInv, Settled, InFlight
<1> QED
  BY <1>1, <1>4, <1>6, <1>7, <1>8 DEF Serve, LinkInv, Gone

(* The engine carries out, or may have carried out, the call it serves.    *)
LEMMA EffectIs ==
  ASSUME LinkInv, serving # 0, NEW effect \in {0, 1},
         executed' = [executed EXCEPT ![serving] = @ + effect]
  PROVE  /\ serving \in Calls /\ executed' \in [Calls -> 0 .. 1]
         /\ executed'[serving] = effect
         /\ \A i \in Calls : i # serving => executed'[i] = executed[i]
         /\ executed' = [executed EXCEPT ![serving] = effect]
<1>1. /\ executed \in [Calls -> 0 .. 1] /\ serving \in Calls /\ executed[serving] = 0
  BY DEF LinkInv, TypeOK, Carried
<1>2. executed' = [executed EXCEPT ![serving] = effect]
  BY <1>1
<1> QED
  BY <1>1, <1>2

LEMMA ReplyStep == LinkInv /\ Reply => LinkInv'
<1> SUFFICES ASSUME LinkInv, Reply PROVE LinkInv'
  OBVIOUS
<1>1. /\ TypeOK /\ alive /\ serving # 0 /\ serving' = 0 /\ Current' = Current
      /\ serving \in Calls
  BY DEF LinkInv, TypeOK, Reply, Current
<1>2. PICK reply \in Replies, effect \in {0, 1} :
        /\ reply # "error" => effect = 1
        /\ executed' = [executed EXCEPT ![serving] = @ + effect]
        /\ toOrgan' = Append(toOrgan, [id |-> serving, reply |-> reply])
  BY DEF Reply
<1>3. /\ toOrgan' \in Seq(Answered)
      /\ Len(toOrgan') = Len(toOrgan) + 1 /\ Len(toOrgan) \in Nat
      /\ \A k \in 1 .. Len(toOrgan) : toOrgan'[k] = toOrgan[k]
      /\ toOrgan'[Len(toOrgan) + 1] = [id |-> serving, reply |-> reply]
  <2>1. toOrgan \in Seq(Answered) /\ [id |-> serving, reply |-> reply] \in Answered
    BY <1>1, PipeTypes DEF Answered
  <2> QED
    BY <1>2, <2>1, AppendIs
<1>4. \A k \in 1 .. Len(toOrgan') : k \in 1 .. Len(toOrgan) \/ k = Len(toOrgan) + 1
  BY <1>3
<1>5. /\ executed' \in [Calls -> 0 .. 1] /\ executed'[serving] = effect
      /\ \A i \in Calls : i # serving => executed'[i] = executed[i]
  BY <1>1, <1>2, EffectIs
<1>6. TypeOK'
  BY <1>1, <1>3, <1>5 DEF Reply, TypeOK, Answered, Wait, ending, clock, Phases
<1>7. LastSent' = LastSent
  BY DEF Reply, LastSent, Current
<1>8. InOrder'
  <2>1. InOrder /\ UNCHANGED toEngine /\ 0 <= LastSent
    <3>1. serving <= LastSent /\ serving \in Nat /\ LastSent \in Int
      BY <1>1, InPipes DEF LinkInv, InOrder
    <3> QED
      BY <3>1 DEF Reply, LinkInv
  <2>2. \A k \in 1 .. Len(toOrgan') :
          \/ k \in 1 .. Len(toOrgan) /\ toOrgan'[k].id = toOrgan[k].id
          \/ k = Len(toOrgan) + 1 /\ toOrgan'[k].id = serving
    BY <1>3, <1>4
  <2>3. \A k, l \in 1 .. Len(toOrgan') : k < l => toOrgan'[k].id < toOrgan'[l].id
    BY <1>1, <1>3, <2>1, <2>2 DEF InOrder
  <2>4. \A k \in 1 .. Len(toOrgan') :
          /\ toOrgan'[k].id <= LastSent
          /\ \A l \in 1 .. Len(toEngine) : toOrgan'[k].id < toEngine[l]
    BY <1>1, <2>1, <2>2 DEF InOrder
  <2>5. \A l \in 1 .. Len(toEngine) : 0 < toEngine[l]
    BY <1>1, InPipes
  <2> QED
    BY <1>1, <1>7, <2>1, <2>3, <2>4, <2>5 DEF InOrder
<1>9. Carried'
  <2>1. \A i \in Calls : i > LastSent => executed'[i] = 0
    <3>1. \A i \in Calls : i > LastSent => i # serving
      BY <1>1, InPipes DEF LinkInv, InOrder
    <3> QED
      BY <1>5, <3>1 DEF LinkInv, Carried
  <2>2. \A l \in 1 .. Len(toEngine') : executed'[toEngine'[l]] = 0
    BY <1>1, <1>5, InPipes DEF Reply, LinkInv, Carried, InOrder
  <2>3. \A k \in 1 .. Len(toOrgan') :
          toOrgan'[k].reply # "error" => executed'[toOrgan'[k].id] = 1
    BY <1>1, <1>2, <1>3, <1>4, <1>5, InPipes DEF LinkInv, Carried, InOrder
  <2> QED
    BY <1>1, <1>7, <2>1, <2>2, <2>3 DEF Carried
<1>10. Settled'
  BY <1>1 DEF Reply, LinkInv, Settled, InFlight
<1> QED
  BY <1>1, <1>6, <1>8, <1>9, <1>10 DEF Reply, LinkInv, Gone

LEMMA DieStep == LinkInv /\ Die => LinkInv'
<1> SUFFICES ASSUME LinkInv, Die PROVE LinkInv'
  OBVIOUS
<1>1. /\ TypeOK /\ ~alive' /\ serving' = 0 /\ Current' = Current
      /\ serving \in {0} \cup Calls
  BY DEF LinkInv, TypeOK, Die, Current
<1>2. /\ executed' \in [Calls -> 0 .. 1]
      /\ \A i \in Calls : i # serving => executed'[i] = executed[i]
  BY <1>1, EffectIs DEF Die, TypeOK
<1>3. TypeOK'
  BY <1>1, <1>2 DEF Die, TypeOK, Wait, ending, clock, Phases
<1>4. LastSent' = LastSent
  BY DEF Die, LastSent, Current
<1>5. InOrder'
  BY <1>1, <1>4, InPipes DEF Die, LinkInv, InOrder, LastSent
<1>6. Carried'
  <2>1. \A i \in Calls : i > LastSent => executed'[i] = 0
    <3>1. \A i \in Calls : i > LastSent => i # serving
      BY <1>1, InPipes DEF LinkInv, InOrder
    <3> QED
      BY <1>2, <3>1 DEF LinkInv, Carried
  <2>2. \A l \in 1 .. Len(toEngine) : executed'[toEngine[l]] = 0
    <3> SUFFICES ASSUME NEW l \in 1 .. Len(toEngine) PROVE executed'[toEngine[l]] = 0
      OBVIOUS
    <3>1. toEngine[l] \in Calls /\ toEngine[l] \in Nat /\ serving \in Nat
      BY <1>1, InPipes
    <3>2. serving < toEngine[l] /\ executed[toEngine[l]] = 0
      BY DEF LinkInv, Carried, InOrder
    <3> QED
      BY <1>2, <3>1, <3>2
  <2>3. \A k \in 1 .. Len(toOrgan) :
          toOrgan[k].reply # "error" => executed'[toOrgan[k].id] = 1
    <3> SUFFICES ASSUME NEW k \in 1 .. Len(toOrgan), toOrgan[k].reply # "error"
                 PROVE  executed'[toOrgan[k].id] = 1
      OBVIOUS
    <3>1. toOrgan[k].id \in Calls /\ toOrgan[k].id \in Nat \ {0} /\ serving \in Nat
      BY <1>1, InPipes
    <3>2. (serving # 0 => toOrgan[k].id < serving) /\ executed[toOrgan[k].id] = 1
      BY DEF LinkInv, Carried, InOrder
    <3> QED
      BY <1>2, <3>1, <3>2
  <2> QED
    BY <1>1, <1>4, <2>1, <2>2, <2>3 DEF Die, Carried
<1>7. Settled'
  BY <1>1 DEF Die, LinkInv, Settled, InFlight
<1> QED
  BY <1>1, <1>3, <1>5, <1>6, <1>7 DEF LinkInv, Gone

(* Steps that change neither the calls nor what is known of them.          *)
LEMMA EndStep ==
  LinkInv /\ (WriteToDead \/ EndOfInput \/ Stop \/ Tick \/ UNCHANGED vars) => LinkInv'
<1> SUFFICES ASSUME LinkInv, WriteToDead \/ EndOfInput \/ Stop \/ Tick \/ UNCHANGED vars
             PROVE  LinkInv'
  OBVIOUS
<1>1. /\ TypeOK
      /\ UNCHANGED <<nextId, outcome, toEngine, toOrgan, serving, executed, alive, timeout>>
  BY DEF LinkInv, WriteToDead, EndOfInput, Stop, ClosePipes, Reap, GiveUp, Tick, vars, engine, clock
<1>2. \/ UNCHANGED phase
      \/ phase \in Writing /\ phase' = "dead"
      \/ /\ phase \in {"idle", "closing", "polling", "waiting"}
         /\ phase' \in {"closing", "polling", "waiting", "gone"}
         /\ phase' = "gone" => ~alive
  BY DEF WriteToDead, EndOfInput, Stop, ClosePipes, Reap, GiveUp, Tick, vars
<1>3. polled' \in 0 .. timeout /\ waited' \in 0 .. Wait /\ need' \in [Calls -> 0 .. MaxNeed]
      /\ slow' \in BOOLEAN
  <2>1. CASE Tick
    BY <1>1, <2>1, WaitIsNat, BoundAssumption DEF Tick, TypeOK, MayServe, Due
  <2>2. CASE UNCHANGED clock
    BY <1>1, <2>2 DEF TypeOK, clock
  <2> QED
    BY <2>1, <2>2 DEF WriteToDead, EndOfInput, Stop, ClosePipes, Reap, GiveUp, vars
<1>4. closed' \in BOOLEAN /\ signalled' \in BOOLEAN /\ phase' \in Phases
  BY <1>1, <1>2 DEF WriteToDead, EndOfInput, Stop, ClosePipes, Reap, GiveUp, Tick, vars, ending,
                    TypeOK, Phases
<1>5. TypeOK'
  BY <1>1, <1>3, <1>4 DEF TypeOK, Wait
<1>6. Current' = Current /\ Current \in Nat /\ LastSent \in Int /\ LastSent' \in Int /\ LastSent <= LastSent'
  BY <1>1, <1>2, InPipes DEF LastSent, Current, Writing
<1>7. InOrder' /\ Carried'
  <2>1. \A i \in Int : (i <= LastSent => i <= LastSent') /\ (i > LastSent' => i > LastSent)
    BY <1>6
  <2>2. InOrder'
    BY <1>1, <2>1, InPipes DEF LinkInv, InOrder
  <2>3. Carried'
    BY <1>1, <2>1, InPipes DEF LinkInv, Carried
  <2> QED
    BY <2>2, <2>3
<1>8. Settled'
  BY <1>1, <1>2, <1>6 DEF LinkInv, Settled, InFlight, Writing
<1> QED
  BY <1>1, <1>2, <1>5, <1>7, <1>8 DEF LinkInv, Gone

(* What a call in flight can come to.                                      *)
Settles ==
  \E how \in Outcomes \ {"none"} :
    /\ phase = "reading" /\ Settle(how)
    /\ \/ UNCHANGED toOrgan
       \/ toOrgan # <<>> /\ toOrgan' = Tail(toOrgan)

LEMMA SettlesIs == LinkInv /\ (Receive \/ Timeout \/ Closed) => Settles
<1>1. ASSUME LinkInv, Receive PROVE Settles
  <2>1. toOrgan # <<>> /\ Head(toOrgan).reply \in Replies
    <3>1. toOrgan \in Seq(Answered) /\ toOrgan # <<>>
      BY <1>1, PipeTypes DEF LinkInv, Receive
    <3>2. Head(toOrgan) \in Answered
      BY <3>1, TailIs
    <3> QED
      BY <3>1, <3>2 DEF Answered
  <2>2. Taken(Head(toOrgan).reply) \in Outcomes \ {"none"}
    BY <2>1 DEF Taken, Outcomes, Replies
  <2> QED
    BY <1>1, <2>2 DEF Receive, Settles, Outcomes
<1>2. ASSUME Timeout \/ Closed PROVE Settles
  BY <1>2 DEF Timeout, Closed, Settles, Outcomes
<1> QED
  BY <1>1, <1>2

LEMMA LinkStep == LinkInv /\ [Next]_vars => LinkInv'
BY CallStep, WriteStep, SettlesIs, SettleStep, ServeStep, ReplyStep, DieStep, EndStep
DEF Next, Settles

THEOREM LinkInvariant == Spec => []LinkInv
BY LinkInit, LinkStep, PTL DEF Spec

(* Every variable keeps its type and, because the lines are served in the  *)
(* order of their ids, the engine carries no call out twice.               *)
THEOREM TypeCorrect == Spec => []TypeOK
<1>1. LinkInv => TypeOK
  BY DEF LinkInv
<1> QED
  BY <1>1, LinkInvariant, PTL

(* An organ that came to its end leaves no engine process behind.          *)
THEOREM StoppedMeansGone == Spec => []NoEngineLeft
<1>1. LinkInv => NoEngineLeft
  BY DEF LinkInv, Gone, NoEngineLeft
<1> QED
  BY <1>1, LinkInvariant, PTL

-----------------------------------------------------------------------------
(* A link in step.  As long as the engine does what it can when it can, it *)
(* holds nothing between two calls, and during a call only that one, whose *)
(* poll has not lasted longer than the engine waited for the task.         *)
InStep ==
  /\ \A i \in Calls : outcome[i] \notin {"timeout", "mismatch"}
  /\ phase \in Writing \cup {"idle"} =>
       toOrgan = <<>> /\ (alive => toEngine = <<>> /\ serving = 0)
  /\ phase \in Writing => polled = 0
  /\ phase = "reading" =>
       /\ toOrgan # <<>> => Len(toOrgan) = 1 /\ toOrgan[1].id = Current
       /\ toOrgan = <<>> /\ alive =>
            \/ serving = 0 /\ toEngine = <<Current>> /\ polled = 0
            \/ serving = Current /\ toEngine = <<>> /\ polled = waited
       /\ toOrgan # <<>> /\ alive => toEngine = <<>> /\ serving = 0

TimeInv == EngineCap < timeout /\ ~slow => InStep

LEMMA InStepInit == Init => InStep
BY DEF Init, InStep

(* Whatever a call in flight comes to, it neither timed out nor was out of *)
(* step.                                                                   *)
LEMMA InStepSettles ==
  ASSUME LinkInv, InStep, EngineCap < timeout, Receive \/ Timeout \/ Closed
  PROVE  InStep'
<1>1. TypeOK /\ phase = "reading" /\ Current \in Calls
  BY DEF LinkInv, Settled, InFlight, Receive, Timeout, Closed
<1>2. PICK how : Settle(how) /\ how \notin {"timeout", "mismatch"} /\ toOrgan' = <<>>
                 /\ (alive => toEngine = <<>> /\ serving = 0)
  <2>1. CASE Receive
    <3>1. toOrgan \in Seq(Answered) /\ toOrgan # <<>> /\ Len(toOrgan) = 1
      BY <1>1, <2>1, PipeTypes DEF Receive, InStep
    <3>2. Tail(toOrgan) = <<>> /\ Head(toOrgan) = toOrgan[1] /\ toOrgan[1].reply \in Replies
      <4>1. Head(toOrgan) = toOrgan[1]
        BY <3>1, TailIs
      <4>2. Tail(toOrgan) = <<>>
        BY <3>1, OfLengthOne
      <4> QED
        BY <1>1, <3>1, <4>1, <4>2, InPipes
    <3>3. Taken(Head(toOrgan).reply) \notin {"timeout", "mismatch"}
      BY <3>2 DEF Taken, Replies
    <3> QED
      BY <1>1, <2>1, <3>1, <3>2, <3>3 DEF Receive, InStep
  <2>2. CASE Timeout
    <3>1. timeout \in Nat \ {0} /\ Wait \in Nat /\ Wait < timeout /\ waited \in 0 .. Wait
      BY <1>1, WaitIsNat, TimeAssumption DEF TypeOK
    <3>2. polled = timeout /\ polled # 0 /\ polled # waited
      BY <2>2, <3>1 DEF Timeout
    <3> QED
      BY <1>1, <2>2, <3>2 DEF Timeout, InStep
  <2>3. CASE Closed
    BY <2>3 DEF Closed
  <2> QED
    BY <2>1, <2>2, <2>3
<1>3. /\ outcome' = [outcome EXCEPT ![Current] = how] /\ phase' \in {"idle", "closing"}
      /\ UNCHANGED <<toEngine, serving, alive>>
  BY <1>2 DEF Settle, engine
<1>4. \A i \in Calls : outcome'[i] \notin {"timeout", "mismatch"}
  BY <1>1, <1>2, <1>3 DEF InStep, TypeOK
<1> QED
  BY <1>2, <1>3, <1>4 DEF InStep, Writing

LEMMA InStepEngine ==
  ASSUME LinkInv, InStep, WriteLine \/ WriteLong \/ Serve \/ Reply \/ Die
  PROVE  InStep'
<1>1. TypeOK /\ UNCHANGED outcome /\ Current' = Current
  BY DEF LinkInv, WriteLine, WriteLong, Written, Serve, Reply, Die, Current
<1>2. CASE WriteLine \/ WriteLong
  <2>1. toEngine = <<>> /\ serving = 0 /\ toOrgan = <<>> /\ toEngine' = <<Current>>
    <3>1. phase \in Writing /\ alive /\ toEngine' = Append(toEngine, Current)
      BY <1>2 DEF WriteLine, WriteLong, Written, Writing
    <3>2. toEngine = <<>> /\ serving = 0 /\ toOrgan = <<>>
      BY <3>1 DEF InStep
    <3> QED
      BY <3>1, <3>2
  <2> QED
    BY <1>1, <1>2, <2>1 DEF WriteLine, WriteLong, Written, InStep, engine, clock, Writing
<1>3. CASE Serve
  <2>1. /\ phase \notin Writing \cup {"idle"} /\ serving = 0 /\ alive /\ toEngine # <<>>
        /\ toEngine \in Seq(Calls)
    BY <1>1, <1>3, PipeTypes DEF Serve, MayServe, InStep
  <2>2. CASE phase = "reading"
    <3>1. toOrgan = <<>> /\ toEngine = <<Current>> /\ polled = 0
      BY <2>1, <2>2 DEF InStep
    <3>2. toEngine' = <<>> /\ serving' = Current /\ waited' = 0
      BY <1>3, <3>1 DEF Serve
    <3> QED
      BY <1>1, <1>3, <2>2, <3>1, <3>2 DEF Serve, InStep
  <2> QED
    BY <1>1, <1>3, <2>1, <2>2 DEF Serve, InStep
<1>4. CASE Reply
  <2>1. phase \notin Writing \cup {"idle"} /\ serving # 0 /\ alive
    BY <1>4 DEF Reply, InStep
  <2>2. CASE phase = "reading"
    <3>1. toOrgan = <<>> /\ serving = Current /\ toEngine = <<>>
      BY <2>1, <2>2 DEF InStep
    <3>2. Len(toOrgan') = 1 /\ toOrgan'[1].id = Current
      BY <1>4, <3>1 DEF Reply
    <3> QED
      BY <1>1, <1>4, <2>2, <3>1, <3>2 DEF Reply, InStep
  <2> QED
    BY <1>1, <1>4, <2>1, <2>2 DEF Reply, InStep
<1>5. CASE Die
  BY <1>1, <1>5 DEF Die, InStep, clock
<1> QED
  BY <1>2, <1>3, <1>4, <1>5

(* Time passes while the engine leaves nothing undone: what it serves is   *)
(* not yet due, so it has waited for no longer than the organ polled.      *)
LEMMA InStepTick ==
  ASSUME LinkInv, InStep, Tick, ~slow'
  PROVE  InStep'
<1>1. /\ TypeOK /\ ~MayServe /\ ~Due /\ Current' = Current
      /\ UNCHANGED <<phase, outcome, toEngine, toOrgan, serving, alive>>
  BY DEF LinkInv, Tick, Current, engine
<1>2. Wait \in Nat /\ waited \in 0 .. Wait /\ polled \in Nat
  BY <1>1, WaitIsNat DEF TypeOK
<1>3. phase \in Writing => alive /\ polled = 0 /\ polled' = 0
  BY <1>1 DEF Tick, InStep, LinkInv, Gone, Writing
<1>4. ASSUME phase = "reading", toOrgan = <<>>, alive
      PROVE  serving = Current /\ toEngine = <<>> /\ polled' = waited'
  <2>1. serving # 0 /\ serving = Current /\ toEngine = <<>> /\ polled = waited
    <3>1. Current # 0
      BY <1>4, InPipes DEF LinkInv, Settled, InFlight
    <3>2. toEngine = <<Current>> => toEngine # <<>>
      OBVIOUS
    <3> QED
      BY <1>1, <1>4, <3>1, <3>2 DEF InStep, MayServe
  <2>2. waited # Wait
    BY <1>1, <1>4, <2>1 DEF Due
  <2> QED
    BY <1>2, <1>4, <2>1, <2>2 DEF Tick
<1> QED
  BY <1>1, <1>3, <1>4 DEF InStep

LEMMA TimeStep == LinkInv /\ TimeInv /\ [Next]_vars => TimeInv'
<1> SUFFICES ASSUME LinkInv, TimeInv, [Next]_vars, EngineCap < timeout', ~slow'
             PROVE  InStep'
  BY DEF TimeInv
<1>1. EngineCap < timeout /\ ~slow /\ InStep /\ TypeOK
  <2>1. (Receive \/ Timeout \/ Closed) => UNCHANGED clock
    BY DEF Receive, Timeout, Closed, Settle
  <2>2. (WriteLine \/ WriteLong \/ WriteToDead \/ EndOfInput \/ Stop) => UNCHANGED clock
    BY DEF WriteLine, WriteLong, Written, WriteToDead, EndOfInput, Stop, ClosePipes, Reap, GiveUp
  <2>3. (Reply \/ Die \/ UNCHANGED vars) => UNCHANGED clock
    BY DEF Reply, Die, vars
  <2>4. UNCHANGED clock => UNCHANGED <<timeout, slow>>
    BY DEF clock
  <2>5. (Call \/ Serve) => UNCHANGED <<timeout, slow>>
    BY DEF Call, Serve
  <2>7. Tick => UNCHANGED timeout /\ slow' = (slow \/ MayServe \/ Due)
    BY DEF Tick
  <2>6. UNCHANGED timeout /\ (slow => slow')
    <3>1. Tick => UNCHANGED timeout /\ (slow => slow')
      BY <2>7
    <3>2. (Call \/ Serve) => UNCHANGED timeout /\ (slow => slow')
      BY <2>5
    <3>3. UNCHANGED clock => UNCHANGED timeout /\ (slow => slow')
      BY <2>4
    <3> QED
      BY <2>1, <2>2, <2>3, <3>1, <3>2, <3>3 DEF Next
  <2> QED
    BY <2>6 DEF TimeInv, LinkInv
<1>2. CASE Call
  <2>1. toOrgan = <<>> /\ (alive => toEngine = <<>> /\ serving = 0)
    BY <1>1, <1>2 DEF Call, InStep
  <2> QED
    BY <1>1, <1>2, <2>1 DEF Call, InStep, engine, Writing
<1>3. CASE WriteToDead \/ EndOfInput \/ Stop
  <2>1. phase' \notin Writing \cup {"idle", "reading"} /\ UNCHANGED outcome
    BY <1>3 DEF WriteToDead, EndOfInput, Stop, ClosePipes, Reap, GiveUp, Writing
  <2> QED
    BY <1>1, <2>1 DEF InStep
<1>4. CASE UNCHANGED vars
  BY <1>1, <1>4 DEF vars, engine, clock, InStep, Current
<1> QED
  BY <1>1, <1>2, <1>3, <1>4, InStepSettles, InStepEngine, InStepTick DEF Next

(* An engine that gives up waiting for a task before the organ does, and   *)
(* leaves nothing undone that it could do, never puts the link out of step *)
(* however long the tasks are.                                             *)
THEOREM ShortWaitsKeepStep == Spec => []LinkInStep
<1>1. TimeInv => LinkInStep
  BY DEF TimeInv, InStep, LinkInStep
<1>2. Init => TimeInv
  BY InStepInit DEF TimeInv
<1> QED
  BY <1>1, <1>2, TimeStep, LinkInvariant, PTL DEF Spec

-----------------------------------------------------------------------------
(* The refinement of EngineCall.                                           *)

(* The calls that the link still holds.                                    *)
Held ==
  {toOrgan[k].id : k \in 1 .. Len(toOrgan)} \cup {toEngine[l] : l \in 1 .. Len(toEngine)}
    \cup ({serving} \ {0})

TimedOut == \E i \in Calls : outcome[i] = "timeout"

(* Once a call timed out, its answer or one after it comes before the next *)
(* call's; so that one's, which is last, is never the one that is read.    *)
Behind ==
  /\ phase = "reading" /\ alive => Current \in Held
  /\ TimedOut =>
       /\ phase = "idle" /\ alive => Held # {}
       /\ InFlight /\ alive => \E i \in Held : i < Current
       /\ phase = "reading" /\ toOrgan # <<>> => toOrgan[1].id # Current

LEMMA BehindInit == Init => Behind
BY DEF Init, Behind, TimedOut, InFlight

LEMMA HeldIs == LinkInv => \A i \in Held : i \in Calls /\ i \in Nat /\ i <= LastSent
<1> SUFFICES ASSUME LinkInv, NEW i \in Held PROVE i \in Calls /\ i \in Nat /\ i <= LastSent
  OBVIOUS
<1>1. TypeOK /\ InOrder
  BY DEF LinkInv
<1>2. serving \in {0} \cup Calls
  BY <1>1 DEF TypeOK
<1> QED
  BY <1>1, <1>2, InPipes DEF Held, InOrder

(* The first answer in the pipe belongs to the earliest call held.         *)
LEMMA FirstIsLeast ==
  ASSUME LinkInv, toOrgan # <<>>, NEW i \in Held
  PROVE  toOrgan[1].id <= i
<1>1. TypeOK /\ InOrder
  BY DEF LinkInv
<1>2. 1 \in 1 .. Len(toOrgan) /\ toOrgan[1].id \in Nat
  BY <1>1, PipeTypes, TailIs, InPipes
<1>3. CASE \E k \in 1 .. Len(toOrgan) : i = toOrgan[k].id
  <2>1. PICK k \in 1 .. Len(toOrgan) : i = toOrgan[k].id
    BY <1>3
  <2>2. k = 1 \/ 1 < k
    BY <1>1, <2>1, InPipes
  <2> QED
    BY <1>1, <1>2, <2>1, <2>2, InPipes DEF InOrder
<1>4. CASE \E l \in 1 .. Len(toEngine) : i = toEngine[l]
  BY <1>1, <1>2, <1>4, InPipes DEF InOrder
<1>5. CASE i = serving /\ serving # 0
  BY <1>1, <1>2, <1>5, InPipes DEF InOrder
<1> QED
  BY <1>3, <1>4, <1>5 DEF Held

(* What the steps make of the calls that are held.                         *)
LEMMA HeldAfterWrite == LinkInv /\ (WriteLine \/ WriteLong) => Held' = Held \cup {Current}
<1> SUFFICES ASSUME LinkInv, WriteLine \/ WriteLong PROVE Held' = Held \cup {Current}
  OBVIOUS
<1>1. TypeOK /\ toEngine \in Seq(Calls) /\ Current \in Calls
  BY PipeTypes DEF LinkInv, Settled, InFlight, WriteLine, WriteLong, Written, Writing
<1>2. /\ Len(toEngine') = Len(toEngine) + 1 /\ Len(toEngine) \in Nat
      /\ \A l \in 1 .. Len(toEngine) : toEngine'[l] = toEngine[l]
      /\ toEngine'[Len(toEngine) + 1] = Current
  <2> HIDE DEF Calls
  <2> QED
    BY <1>1, AppendIs DEF WriteLine, WriteLong, Written
<1>3. \A l : l \in 1 .. Len(toEngine') <=> l \in 1 .. Len(toEngine) \/ l = Len(toEngine) + 1
  BY <1>2
<1>4. {toEngine'[l] : l \in 1 .. Len(toEngine')} = {toEngine[l] : l \in 1 .. Len(toEngine)} \cup {Current}
  BY <1>2, <1>3
<1>5. UNCHANGED <<toOrgan, serving>>
  BY DEF WriteLine, WriteLong, Written, engine
<1> QED
  BY <1>4, <1>5 DEF Held

LEMMA HeldAfterServe == LinkInv /\ Serve => Held' = Held
<1> SUFFICES ASSUME LinkInv, Serve PROVE Held' = Held
  OBVIOUS
<1>1. toEngine \in Seq(Calls) /\ toEngine # <<>> /\ serving = 0 /\ TypeOK
  BY PipeTypes DEF LinkInv, Serve, MayServe
<1>2. /\ Len(toEngine') = Len(toEngine) - 1 /\ Len(toEngine) \in Nat \ {0}
      /\ \A l \in 1 .. Len(toEngine') : toEngine'[l] = toEngine[l + 1]
      /\ serving' = toEngine[1]
  <2> HIDE DEF Calls
  <2> QED
    BY <1>1, TailIs DEF Serve
<1>3. \A l \in 1 .. Len(toEngine) : l = 1 \/ (l - 1 \in 1 .. Len(toEngine') /\ (l - 1) + 1 = l)
  BY <1>2
<1>4. {toEngine[l] : l \in 1 .. Len(toEngine)}
        = {toEngine'[l] : l \in 1 .. Len(toEngine')} \cup {serving'}
  <2>1. 1 \in 1 .. Len(toEngine) /\ \A l \in 1 .. Len(toEngine') : l + 1 \in 1 .. Len(toEngine)
    BY <1>2
  <2>2. \A l \in 1 .. Len(toEngine) :
          toEngine[l] = serving' \/ \E k \in 1 .. Len(toEngine') : toEngine[l] = toEngine'[k]
    BY <1>2, <1>3
  <2>3. \A k \in 1 .. Len(toEngine') : \E l \in 1 .. Len(toEngine) : toEngine'[k] = toEngine[l]
    BY <1>2, <2>1
  <2> QED
    <3>1. serving' = toEngine[1]
      BY <1>2
    <3> QED
      BY <2>1, <2>2, <2>3, <3>1
<1>5. serving' # 0
  <2>1. 1 \in 1 .. Len(toEngine)
    BY <1>2
  <2> QED
    BY <1>1, <1>2, <2>1, InPipes
<1> QED
  BY <1>1, <1>4, <1>5 DEF Serve, Held

LEMMA HeldAfterReply == LinkInv /\ Reply => Held' = Held
<1> SUFFICES ASSUME LinkInv, Reply PROVE Held' = Held
  OBVIOUS
<1>1. toOrgan \in Seq(Answered) /\ serving # 0 /\ serving \in Calls /\ TypeOK /\ serving' = 0
  BY PipeTypes DEF LinkInv, Reply, TypeOK
<1>2. PICK reply \in Replies : toOrgan' = Append(toOrgan, [id |-> serving, reply |-> reply])
  BY DEF Reply
<1>3. [id |-> serving, reply |-> reply] \in Answered
  BY <1>1 DEF Answered
<1>4. /\ Len(toOrgan') = Len(toOrgan) + 1 /\ Len(toOrgan) \in Nat
      /\ \A k \in 1 .. Len(toOrgan) : toOrgan'[k] = toOrgan[k]
      /\ toOrgan'[Len(toOrgan) + 1].id = serving
  BY <1>1, <1>2, <1>3, AppendIs
<1>5. \A k : k \in 1 .. Len(toOrgan') <=> k \in 1 .. Len(toOrgan) \/ k = Len(toOrgan) + 1
  BY <1>4
<1>6. {toOrgan'[k].id : k \in 1 .. Len(toOrgan')} = {toOrgan[k].id : k \in 1 .. Len(toOrgan)} \cup {serving}
  BY <1>4, <1>5
<1> QED
  BY <1>1, <1>6 DEF Reply, Held

LEMMA HeldAfterReceive ==
  ASSUME LinkInv, Receive, NEW i \in Held, i # toOrgan[1].id
  PROVE  i \in Held'
<1>1. toOrgan \in Seq(Answered) /\ toOrgan # <<>> /\ TypeOK
  BY PipeTypes DEF LinkInv, Receive
<1>2. /\ Len(toOrgan') = Len(toOrgan) - 1 /\ Len(toOrgan) \in Nat \ {0}
      /\ \A k \in 1 .. Len(toOrgan') : toOrgan'[k] = toOrgan[k + 1]
  BY <1>1, TailIs DEF Receive
<1>3. \A k \in 1 .. Len(toOrgan) : k = 1 \/ (k - 1 \in 1 .. Len(toOrgan') /\ (k - 1) + 1 = k)
  BY <1>2
<1>4. UNCHANGED <<toEngine, serving>>
  BY DEF Receive, Settle, engine
<1>5. ASSUME NEW k \in 1 .. Len(toOrgan), i = toOrgan[k].id
      PROVE  \E l \in 1 .. Len(toOrgan') : i = toOrgan'[l].id
  BY <1>2, <1>3, <1>5
<1> QED
  BY <1>4, <1>5 DEF Held

(* As long as the engine lives, the first answer is not the current call's.*)
FirstIsLate ==
  toOrgan # <<>> /\ (\E i \in Held : i < Current) => toOrgan[1].id # Current

LEMMA LinkInvFirst == LinkInv => FirstIsLate
<1> SUFFICES ASSUME LinkInv, toOrgan # <<>>, NEW i \in Held, i < Current
             PROVE  toOrgan[1].id # Current
  BY DEF FirstIsLate
<1>1. TypeOK /\ toOrgan[1].id <= i
  BY FirstIsLeast DEF LinkInv
<1>2. toOrgan[1].id \in Nat /\ i \in Nat /\ Current \in Nat
  <2>1. 1 \in 1 .. Len(toOrgan)
    BY <1>1, PipeTypes, TailIs
  <2> QED
    BY <1>1, <2>1, InPipes, HeldIs
<1> QED
  BY <1>1, <1>2

LEMMA BehindSettles ==
  ASSUME LinkInv, Behind, Receive \/ Timeout \/ Closed
  PROVE  Behind'
<1>1. /\ phase = "reading" /\ InFlight /\ phase' \in {"idle", "closing"} /\ Current' = Current
      /\ UNCHANGED alive
  BY DEF Receive, Timeout, Closed, Settle, InFlight, engine, Current
<1>2. SUFFICES ASSUME TimedOut', alive PROVE Held' # {}
  BY <1>1 DEF Behind, InFlight, Writing
<1>3. Current \in Held
  BY <1>1, <1>2 DEF Behind
<1>4. CASE Receive
  <2>1. TimedOut
    <3>1. Taken(Head(toOrgan).reply) # "timeout"
      <4>1. toOrgan \in Seq(Answered) /\ toOrgan # <<>>
        BY <1>4, PipeTypes DEF LinkInv, Receive
      <4>2. Head(toOrgan) \in Answered
        BY <4>1, TailIs
      <4> QED
        BY <4>2 DEF Taken, Answered, Replies
    <3>2. PICK how : how # "timeout" /\ outcome' = [outcome EXCEPT ![Current] = how]
      BY <1>4, <3>1 DEF Receive, Settle
    <3> QED
      BY <1>2, <3>2 DEF TimedOut, LinkInv, TypeOK
  <2>2. toOrgan[1].id # Current
    BY <1>1, <1>4, <2>1 DEF Behind, Receive
  <2> QED
    BY <1>3, <1>4, <2>2, HeldAfterReceive
<1>5. CASE Timeout
  BY <1>3, <1>5 DEF Timeout, Settle, Held, engine
<1>6. CASE Closed
  BY <1>2, <1>6 DEF Closed
<1> QED
  BY <1>4, <1>5, <1>6

LEMMA BehindStep == LinkInv /\ Behind /\ [Next]_vars => Behind'
<1> SUFFICES ASSUME LinkInv, Behind, [Next]_vars PROVE Behind'
  OBVIOUS
<1>0. TypeOK /\ FirstIsLate'
  <2>1. (LinkInv => FirstIsLate)'
    BY LinkInvFirst, PTL
  <2> QED
    BY <2>1, LinkStep DEF LinkInv
<1>1. CASE Call
  <2>1. /\ Held' = Held /\ TimedOut' = TimedOut /\ phase = "idle" /\ phase' \in Writing
        /\ UNCHANGED alive /\ Current \in Nat /\ Current' = Current + 1
    BY <1>0, <1>1, InPipes DEF Call, Held, TimedOut, engine, Current, TypeOK
  <2>2. \A i \in Held : i < Current'
    BY <1>0, <2>1, HeldIs DEF LastSent
  <2> QED
    BY <2>1, <2>2 DEF Behind, InFlight, Writing
<1>2. CASE WriteLine \/ WriteLong
  <2>1. /\ Held' = Held \cup {Current} /\ TimedOut' = TimedOut /\ Current' = Current
        /\ phase \in Writing /\ phase' = "reading" /\ alive /\ UNCHANGED alive
    BY <1>2, HeldAfterWrite DEF WriteLine, WriteLong, Written, TimedOut, engine, Current, Writing
  <2> QED
    BY <1>0, <2>1 DEF Behind, InFlight, FirstIsLate
<1>3. CASE Serve \/ Reply
  <2>1. /\ Held' = Held /\ TimedOut' = TimedOut /\ Current' = Current
        /\ UNCHANGED <<phase, alive>> /\ alive
    BY <1>3, HeldAfterServe, HeldAfterReply DEF Serve, MayServe, Reply, TimedOut, Current
  <2> QED
    BY <1>0, <2>1 DEF Behind, InFlight, FirstIsLate
<1>4. CASE Die
  <2>1. /\ ~alive' /\ TimedOut' = TimedOut /\ Current' = Current /\ UNCHANGED <<phase, toOrgan>>
    BY <1>4 DEF Die, TimedOut, Current
  <2> QED
    BY <2>1 DEF Behind, InFlight
<1>5. CASE WriteToDead \/ EndOfInput \/ Stop
  <2>1. phase' \notin Writing \cup {"idle", "reading"}
    BY <1>5 DEF WriteToDead, EndOfInput, Stop, ClosePipes, Reap, GiveUp, Writing
  <2> QED
    BY <2>1 DEF Behind, InFlight
<1>6. CASE Tick \/ UNCHANGED vars
  <2>1. UNCHANGED <<nextId, phase, outcome, toEngine, toOrgan, serving, alive>>
    BY <1>6 DEF Tick, vars, engine
  <2> QED
    BY <2>1 DEF Behind, InFlight, Held, TimedOut, Current
<1> QED
  BY <1>1, <1>2, <1>3, <1>4, <1>5, <1>6, BehindSettles DEF Next

(* What the caller of the abstract calls sees.                             *)
Shown == [i \in Calls |-> IF outcome[i] = "running" THEN "returned" ELSE outcome[i]]

LEMMA PromiseInit == Init => Promise!Init
BY DEF Init, Promise!Init

LEMMA ShownAfter ==
  ASSUME TypeOK, Current \in Calls, NEW how \in Outcomes,
         outcome' = [outcome EXCEPT ![Current] = how]
  PROVE  Shown' = [Shown EXCEPT ![Current] = IF how = "running" THEN "returned" ELSE how]
BY DEF TypeOK, Shown

(* Every call before the one in flight came to something, no later one     *)
(* did.                                                                    *)
LEMMA CurrentIsNext ==
  ASSUME LinkInv, InFlight
  PROVE  /\ Current \in Calls /\ Shown[Current] = "none"
         /\ \A j \in Calls : j < Current => Shown[j] # "none"
<1>1. Current \in Calls /\ outcome[Current] = "none"
  BY DEF LinkInv, Settled
<1>2. \A j \in Calls : j < Current => outcome[j] # "none"
  BY DEF LinkInv, Settled
<1> QED
  BY <1>1, <1>2 DEF Shown

LEMMA EffectIsExecute ==
  ASSUME LinkInv, serving # 0, NEW effect \in {0, 1}, UNCHANGED outcome,
         executed' = [executed EXCEPT ![serving] = @ + effect]
  PROVE  [Promise!Next]_(Promise!vars)
<1>1. serving \in Calls /\ executed[serving] = 0 /\ executed \in [Calls -> 0 .. 1]
      /\ executed' = [executed EXCEPT ![serving] = effect] /\ TypeOK
  BY EffectIs DEF LinkInv, Carried, TypeOK
<1>2. Shown' = Shown
  BY DEF Shown
<1>3. CASE effect = 0
  <2>1. executed' = executed
    BY <1>1, <1>3
  <2> QED
    BY <1>2, <2>1 DEF Promise!vars, Shown
<1>4. CASE effect = 1
  <2>1. \A j \in Calls : j < serving => Shown[j] # "none"
    <3>1. serving <= LastSent /\ LastSent <= Current
      BY <1>1, InPipes DEF LinkInv, InOrder, LastSent
    <3>2. \A j \in Calls : j < serving => j < Current
      BY <1>1, <3>1, InPipes
    <3> QED
      BY <3>2 DEF LinkInv, Settled, Shown
  <2>2. Promise!Execute(serving)
    BY <1>1, <1>2, <1>4, <2>1 DEF Promise!Execute, Shown
  <2> QED
    BY <1>1, <2>2 DEF Promise!Next
<1> QED
  BY <1>3, <1>4

LEMMA SettleIsEnd ==
  ASSUME LinkInv, Behind, Receive \/ Timeout \/ Closed
  PROVE  Promise!Next
<1>1. TypeOK /\ InFlight /\ phase = "reading" /\ UNCHANGED executed
  BY DEF LinkInv, Receive, Timeout, Closed, Settle, InFlight, engine
<1>2. /\ Current \in Calls /\ Shown[Current] = "none"
      /\ \A j \in Calls : j < Current => Shown[j] # "none"
  BY <1>1, CurrentIsNext
<1>3. ASSUME NEW how \in {"refused", "timeout", "mismatch", "closed"}, Settle(how)
      PROVE  Promise!Next
  <2>1. Shown' = [Shown EXCEPT ![Current] = how]
    BY <1>1, <1>2, <1>3, ShownAfter DEF Settle, Outcomes
  <2> PICK i \in Calls : i = Current
    BY <1>2
  <2>2. Promise!Throw(i)
    BY <1>1, <1>2, <2>1 DEF Promise!Throw, Promise!IsNext, Promise!Failures, Shown
  <2> QED
    BY <2>2 DEF Promise!Next
<1>4. ASSUME NEW how \in {"returned", "running"}, Settle(how),
             executed[Current] = 1, ~TimedOut
      PROVE  Promise!Next
  <2>1. Shown' = [Shown EXCEPT ![Current] = "returned"]
    BY <1>1, <1>2, <1>4, ShownAfter DEF Settle, Outcomes
  <2>2. \A j \in Calls : Shown[j] # "timeout"
    BY <1>4 DEF TimedOut, Shown
  <2> PICK i \in Calls : i = Current
    BY <1>2
  <2>3. Promise!Return(i)
    BY <1>1, <1>2, <1>4, <2>1, <2>2 DEF Promise!Return, Promise!IsNext, Shown
  <2> QED
    BY <2>3 DEF Promise!Next
<1>5. CASE Receive
  <2>1. /\ toOrgan # <<>> /\ Head(toOrgan) = toOrgan[1] /\ toOrgan[1].reply \in Replies
        /\ 1 \in 1 .. Len(toOrgan)
    <3>1. toOrgan # <<>> /\ toOrgan \in Seq(Answered)
      BY <1>1, <1>5, PipeTypes DEF Receive
    <3>2. Head(toOrgan) = toOrgan[1] /\ 1 \in 1 .. Len(toOrgan)
      BY <3>1, TailIs
    <3> QED
      BY <1>1, <3>1, <3>2, InPipes
  <2>2. CASE toOrgan[1].id # Current
    BY <1>3, <1>5, <2>1, <2>2 DEF Receive
  <2>3. CASE toOrgan[1].id = Current
    <3>1. ~TimedOut
      BY <1>1, <2>1, <2>3 DEF Behind
    <3>2. Settle(Taken(toOrgan[1].reply))
      BY <1>5, <2>1, <2>3 DEF Receive
    <3>3. CASE toOrgan[1].reply = "error"
      BY <1>3, <3>2, <3>3 DEF Taken
    <3>4. CASE toOrgan[1].reply # "error"
      <4>1. executed[Current] = 1
        BY <2>1, <2>3, <3>4 DEF LinkInv, Carried
      <4>2. Taken(toOrgan[1].reply) \in {"returned", "running"}
        BY <2>1, <3>4 DEF Taken, Replies
      <4> QED
        BY <1>4, <3>1, <3>2, <4>1, <4>2
    <3> QED
      BY <3>3, <3>4
  <2> QED
    BY <2>2, <2>3
<1>6. CASE Timeout \/ Closed
  BY <1>3, <1>6 DEF Timeout, Closed
<1> QED
  BY <1>5, <1>6

LEMMA PromiseStep == LinkInv /\ Behind /\ [Next]_vars => [Promise!Next]_(Promise!vars)
<1> SUFFICES ASSUME LinkInv, Behind, [Next]_vars PROVE [Promise!Next]_(Promise!vars)
  OBVIOUS
<1>1. CASE Reply
  <2>1. PICK effect \in {0, 1} : executed' = [executed EXCEPT ![serving] = @ + effect]
    BY <1>1 DEF Reply
  <2> QED
    BY <1>1, <2>1, EffectIsExecute DEF Reply
<1>2. CASE Die
  <2>1. CASE serving = 0
    BY <1>2, <2>1 DEF Die, Promise!vars
  <2>2. CASE serving # 0
    <3>1. PICK effect \in {0, 1} : executed' = [executed EXCEPT ![serving] = @ + effect]
      BY <1>2, <2>2 DEF Die
    <3> QED
      BY <1>2, <2>2, <3>1, EffectIsExecute DEF Die
  <2> QED
    BY <2>1, <2>2
<1>3. CASE Receive \/ Timeout \/ Closed
  BY <1>3, SettleIsEnd
<1>4. (Call \/ WriteLine \/ WriteLong \/ WriteToDead \/ EndOfInput) => UNCHANGED <<outcome, executed>>
  BY DEF Call, WriteLine, WriteLong, Written, WriteToDead, EndOfInput, engine
<1>5. (Stop \/ Serve \/ Tick \/ UNCHANGED vars) => UNCHANGED <<outcome, executed>>
  BY DEF Stop, ClosePipes, Reap, GiveUp, Serve, Tick, vars, engine
<1>6. UNCHANGED <<outcome, executed>> => UNCHANGED Promise!vars
  BY DEF Promise!vars
<1> QED
  BY <1>1, <1>2, <1>3, <1>4, <1>5, <1>6 DEF Next

(* The link keeps what the organ relies on: no call is carried out twice,  *)
(* one that returned was carried out, and after one that timed out no      *)
(* other ever returns.                                                     *)
THEOREM LinkImplementsCalls == Spec => ImplementsCalls
BY PromiseInit, PromiseStep, BehindInit, BehindStep, LinkInvariant, PTL
DEF Spec, ImplementsCalls, Promise!Spec
=============================================================================
