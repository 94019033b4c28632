------------------------------ MODULE CoreRoster ------------------------------
(***************************************************************************)
(* The core together with the roster operations of the workroom and the    *)
(* injection that the ledger puts before a dispatch.  Mounts are revoked   *)
(* and epochs bumped (src/src/workroom.cpp) while their attempts are cast, *)
(* called, crashed and recovered (src/src/core.cpp).  Only the workroom    *)
(* and the ledger ask whether a mount is live; an organ may be restarted   *)
(* with or without the ledger (src/src/main.cpp).                          *)
(***************************************************************************)
EXTENDS DispatchCore

CONSTANTS
  LedgerModes,  \* subset of BOOLEAN: may an organ run with --ledger-policy, or without
  MaxEpoch      \* bound: the last epoch of a job

ASSUME RosterAssumption == LedgerModes \subseteq BOOLEAN /\ LedgerModes # {} /\ MaxEpoch \in Nat

VARIABLES
  revoked,   \* mounts whose mount_live_ is false; replay restores it exactly
  ledger,    \* this process runs with the ledger
  injected   \* the envelope between its injection receipt and begin_dispatch, if any

roster == <<revoked, ledger, injected>>
rosterVars == <<vars, roster>>

InitRoster == Init /\ revoked = {} /\ ledger \in LedgerModes /\ injected = {}

(* A record that changes none of the core's maps.                          *)
WithNothing(s) == WithAttempts(s, s.attempts, s.count, s.active)

Append(m, d) ==
  /\ mem' = m /\ disk' = d
  /\ counter' = CounterAfterAppend(counter)
  /\ UNCHANGED <<up, handler, tasks, calls>>

(* Mutant: the epoch of the mount is not compared with the job's.          *)
Live_AnyEpoch(e) == Mounted(e) /\ e.mount \notin revoked

(* require_live_room_mount.                                                *)
Live(e) == Mounted(e) /\ e.mount \notin revoked /\ mem.epochs[e.job] = e.epoch

Waiting == Accepting /\ injected = {}

(* Mutant: a revoked mount is taken out of mounts_.                        *)
RevokeMount_Erases(e) ==
  LET without == [m \in DOMAIN mem.mounts \ {e.mount} |-> mem.mounts[m]] IN
  /\ Waiting /\ Mounted(e) /\ e.mount \notin revoked
  /\ Append(WithMounts(mem, without, mem.epochs, mem.ok), WithMounts(disk, without, disk.epochs, disk.ok))
  /\ revoked' = revoked \cup {e.mount}
  /\ UNCHANGED <<ledger, injected>>

RevokeMount(e) ==
  /\ Waiting
  /\ Mounted(e) /\ e.mount \notin revoked
  /\ Append(WithNothing(mem), WithNothing(disk))
  /\ revoked' = revoked \cup {e.mount}
  /\ UNCHANGED <<ledger, injected>>

Bumped(s, j) == WithMounts(s, s.mounts, [s.epochs EXCEPT ![j] = @ + 1], s.ok)

BumpJobEpoch(j) ==
  /\ Waiting
  /\ j \in DOMAIN mem.epochs /\ mem.epochs[j] < MaxEpoch
  /\ Append(Bumped(mem, j), Bumped(disk, j))
  /\ UNCHANGED roster

(* ledger_prepare_injection, called by a dispatch: the receipt is appended *)
(* and its version is the one that begin_dispatch will name.  MaxSeq bounds *)
(* the two records together.                                               *)
Inject(e) ==
  /\ ledger /\ Waiting /\ mem.seq + 1 < MaxSeq
  /\ Live(e) /\ Owns(e) /\ AttemptOf(e).state = "CAST"
  /\ Append(WithNothing(mem), WithNothing(disk))
  /\ injected' = {e}
  /\ UNCHANGED <<revoked, ledger>>

DispatchInjected ==
  /\ up
  /\ \E e \in injected :
       \/ DispatchReady(e) /\ BeginCall(e, "dispatch")
       \/ ~DispatchReady(e) /\ UNCHANGED vars
  /\ injected' = {}
  /\ UNCHANGED <<revoked, ledger>>

(* With the ledger a dispatch request that names an outdated version is    *)
(* refused at its injection, before begin_dispatch draws a number.         *)
CoreRequest ==
  /\ injected = {}
  /\ \E e \in Envelopes :
       \/ Mount(e) \/ Cast(e)
       \/ ~ledger /\ BeginDispatch(e)
       \/ BeginResult(e) \/ BeginGate(e)
       \/ RefuseStaleBegin(e) /\ (ledger => ResultReady(e) \/ GateReady(e))
       \/ \E disposition \in Final : DisposeLate(e, disposition)
  /\ UNCHANGED roster

CrashRoster == Crash /\ injected' = {} /\ UNCHANGED <<revoked, ledger>>

RestartRoster == Restart /\ ledger' \in LedgerModes /\ UNCHANGED <<revoked, injected>>

NextRoster ==
  \/ CoreRequest
  \/ (CallEngine \/ Complete) /\ UNCHANGED roster
  \/ \E e \in Envelopes : RevokeMount(e) \/ Inject(e)
  \/ \E j \in Jobs : BumpJobEpoch(j)
  \/ DispatchInjected
  \/ CrashRoster \/ RestartRoster

SpecRoster == InitRoster /\ [][NextRoster]_rosterVars

(* As in the core: the request that is open runs to its end, and operators *)
(* restart an organ that died.                                             *)
FairSpecRoster ==
  /\ SpecRoster
  /\ WF_rosterVars(CallEngine /\ UNCHANGED roster)
  /\ WF_rosterVars(Complete /\ UNCHANGED roster)
  /\ WF_rosterVars(RestartRoster)

-----------------------------------------------------------------------------
(* Properties.                                                             *)

(* The call that a step reserves.                                          *)
Reserves(e, kind) ==
  handler = Idle /\ handler' # Idle /\ handler'.env = e /\ handler'.id.kind = kind

(* With the ledger, a dispatch intent is journaled only for a mount that   *)
(* is live in its job's epoch at that moment, though begin_dispatch itself *)
(* does not ask: no revocation, bump, crash or restart comes between the   *)
(* injection and the intent.                                               *)
DispatchedWasLive ==
  [][ledger => \A e \in Envelopes :
       Reserves(e, "dispatch") => e.mount \notin revoked /\ mem.epochs[e.job] = e.epoch]_rosterVars

(* Whatever was revoked or bumped while a call was open: the owner of an   *)
(* attempt that came back late or stranded can still dispose of it.        *)
LateCanBeDisposed ==
  up => \A k \in DOMAIN mem.attempts :
    mem.attempts[k].state \in {"PENDING_LATE", "STRANDED"} => Owns(mem.attempts[k].owner)
=============================================================================
