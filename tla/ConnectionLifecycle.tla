-------------------------- MODULE ConnectionLifecycle --------------------------
(***************************************************************************)
(* The lifecycle that keeps one session with a peer for the options the    *)
(* user wants (createConnectionLifecycle).  Everything runs on one event   *)
(* loop: each action is what runs between two awaits, and calls, timers,   *)
(* dials and closures come in any order between them.                      *)
(*                                                                         *)
(* A generation counter makes what an older call has left behind harmless. *)
(* Timers of an older generation do nothing when they fire and are left    *)
(* out; an opening is aborted exactly when its generation is over.         *)
(*                                                                         *)
(* The browser client's openSession is around it.  A device that dials     *)
(* opens a new session.  One without a listener then hands its options to  *)
(* the service that goes on in the background; on one that also listens    *)
(* the session manager admits the new session, or keeps the one in use.    *)
(* A device that accepts waits for the incoming session, which the peer    *)
(* service also offers for adoption.                                       *)
(***************************************************************************)
EXTENDS Naturals, FiniteSets

CONSTANTS
  Options,       \* connection options the user may ask for
  None,
  Ranks,         \* Ranks[role]: ranks of the paths sessions may take
  Sessions,      \* names for session handles, used again after closing
  MaxEvents      \* bound: calls of users and of the platform, changes of the session
                 \* configuration, handoffs that fail, and sessions the peer or the
                 \* network closes

BestRank == 5    \* direct TCP in the same network

\* A device without a listener dials; of two that listen, the order of the
\* identities tells which one does.
Roles == {"dials", "dials and listens", "accepts"}

ASSUME LifecycleAssumption ==
  /\ None \notin Options \cup Sessions /\ None \notin Options \X Nat
  /\ MaxEvents \in Nat
  /\ Ranks \in [Roles -> SUBSET (1 .. BestRank)]

VARIABLES
  role,
  online, foreground, transfer, \* transfer: transferActive
  revision,      \* of the session configuration: part of every key
  desired,       \* the options to be connected with
  active, activeKey,
  rank,          \* rank[s]: rank of an open session's path; Shut for a closed one
  watched,       \* the closure of the active session counts in this generation
  phase,
  generation,
  opening,       \* the generation of the opening others may join
  attempts,      \* the openings that have not settled
  callers,       \* calls that go on when an opening settles
  retrying,      \* a retry timer of this generation sleeps
  upgradeTimer,  \* an upgrade timer of this generation sleeps
  probes,        \* upgrade probes that have not settled
  candidate,     \* the incoming session to be offered for adoption
  stranded,      \* open sessions whose handoff has failed: nobody holds them
  refresh,       \* the configuration has changed: ensureSession is due
  disconnecting, \* a disconnect waits for its session to close
  events

platform  == <<role, online, foreground, transfer>>
session   == <<active, activeKey, rank, watched>>
openings  == <<opening, attempts, callers>>
timers    == <<retrying, upgradeTimer, probes>>
vars      == <<platform, revision, desired, session, phase, generation, openings, timers,
               candidate, stranded, refresh, disconnecting, events>>

Shut == 0

Init ==
  /\ role \in Roles
  /\ online = TRUE /\ foreground = TRUE /\ transfer = FALSE
  /\ revision = 0 /\ desired = None
  /\ active = None /\ activeKey = None /\ rank = [s \in Sessions |-> Shut]
  /\ watched = FALSE
  /\ phase = "idle" /\ generation = 0
  /\ opening = None /\ attempts = {} /\ callers = {}
  /\ retrying = FALSE /\ upgradeTimer = FALSE /\ probes = {}
  /\ candidate = None /\ stranded = {} /\ refresh = FALSE /\ disconnecting = FALSE
  /\ events = 0

-----------------------------------------------------------------------------
(* Sessions *)

Eligible(isOnline, isForeground, isTransfer, options) ==
  isOnline /\ (isForeground \/ isTransfer) /\ options # None

IsEligible == Eligible(online, foreground, transfer, desired)

Key(options) == <<options, revision>>

IsOpen(s) == s # None /\ rank[s] # Shut

Serving(options) == IsOpen(active) /\ activeKey = Key(options)

IsOpening(options) ==
  \E a \in attempts : a.generation = opening /\ a.key = Key(options)

\* The name can stand for a new session: nothing still tells the old one by it.
IsFree(s) ==
  /\ rank[s] = Shut /\ s # active /\ s # candidate
  /\ \A p \in probes : p.generation = generation => p.previous # s

IsNew(s) == IsFree(s) /\ s = CHOOSE t \in Sessions : IsFree(t)

Closing(s) == IF s = None THEN rank ELSE [rank EXCEPT ![s] = Shut]

\* The lifecycle closes a session itself; if it is the active one, and its closure
\* counts, the user is taken to have asked for it.
Close(s) ==
  /\ rank' = Closing(s)
  /\ IF active = s /\ watched THEN active' = None /\ activeKey' = None /\ phase' = "idle"
                              ELSE UNCHANGED <<active, activeKey, phase>>

\* The session with rank r becomes the active one, and what was active is closed.
Activate(s, r) ==
  /\ active' = s /\ watched' = TRUE
  /\ rank' = [(IF active = s THEN rank ELSE Closing(active)) EXCEPT ![s] = r]

\* scheduleUpgrade: the session in use has not the best path.
NeedsUpgrade(r) == r \notin {Shut, BestRank}

UpgradeIsDue == active # None /\ NeedsUpgrade(rank[active])

\* What an older generation has started is stale from here on.
NewGeneration == generation' = generation + 1 /\ retrying' = FALSE

\* Wrong on purpose: what subscribers see is left as it was.
RetrySilently == retrying' = IsEligible /\ UNCHANGED phase

ScheduleRetry ==
  IF IsEligible THEN retrying' = TRUE /\ phase' = "waiting" ELSE UNCHANGED <<retrying, phase>>

\* A caller goes on as soon as its opening has settled, before any other event.
CanResume(c) == \A a \in attempts : a.generation # c.on

Settled == \A c \in callers : ~CanResume(c)

Event == Settled /\ events < MaxEvents /\ events' = events + 1

-----------------------------------------------------------------------------
(* Opening *)

\* openDesired when there is no opening to join: a session for other options is
\* let go before the dial.
OpenDesired(g, options, others, own, from) ==
  IF Serving(options)
  THEN /\ opening' = None /\ callers' = others /\ phase' = from
       /\ UNCHANGED <<attempts, active, activeKey, rank>>
  ELSE /\ opening' = g
       /\ attempts' = attempts \cup {[generation |-> g, key |-> Key(options), leaving |-> FALSE]}
       /\ callers' = others \cup own
       /\ phase' = IF from = "reconnecting" THEN from ELSE "connecting"
       /\ IF active # None /\ activeKey # Key(options)
          THEN active' = None /\ activeKey' = None /\ rank' = Closing(active)
          ELSE UNCHANGED <<active, activeKey, rank>>

\* A call that waits for its own opening, and one that waits for a stale one to end.
Waiter(g, options) == {[on |-> g, mine |-> g, options |-> options]}
Refresher(on, g)   == {[on |-> on, mine |-> g, options |-> None]}

\* A new generation opens the options and lets go of what it replaces.
Reopen(options, others) ==
  /\ NewGeneration /\ upgradeTimer' = FALSE /\ watched' = FALSE
  /\ OpenDesired(generation + 1, options, others, Waiter(generation + 1, options), phase)

Satisfied(options) ==
  Serving(options) \/ ~Eligible(online, foreground, transfer, options) \/ IsOpening(options)

EnsureSession(options, others) ==
  /\ desired' = options
  /\ CASE Satisfied(options) ->
            /\ callers' = others
            /\ UNCHANGED <<session, phase, generation, opening, attempts, retrying,
                           upgradeTimer>>
       [] ~Satisfied(options) /\ opening = None -> Reopen(options, others)
       [] OTHER ->
            /\ NewGeneration /\ upgradeTimer' = FALSE /\ watched' = FALSE
            /\ opening' = None /\ callers' = others \cup Refresher(opening, generation + 1)
            /\ UNCHANGED <<attempts, phase, active, activeKey, rank>>
  /\ UNCHANGED <<platform, revision, probes, candidate, stranded, disconnecting>>

\* A remote operation asks for a session.
Ensure(options) == Event /\ EnsureSession(options, callers) /\ UNCHANGED refresh

Connect(options) ==
  /\ Event
  /\ desired' = options
  /\ IF Satisfied(options)
     THEN UNCHANGED <<session, phase, generation, openings, retrying, upgradeTimer>>
     ELSE Reopen(options, callers)
  /\ UNCHANGED <<platform, revision, probes, candidate, stranded, refresh, disconnecting>>

\* The host calls ensureSession some time after a change, for the options it has then.
ConfigurationChanges ==
  /\ Event
  /\ revision' = revision + 1 /\ refresh' = TRUE
  /\ UNCHANGED <<platform, desired, session, phase, generation, openings, timers,
                 candidate, stranded, disconnecting>>

RefreshSession ==
  /\ Settled /\ refresh /\ refresh' = FALSE
  /\ IF desired # None
     THEN EnsureSession(desired, callers)
     ELSE UNCHANGED <<platform, revision, desired, session, phase, generation, openings,
                      retrying, upgradeTimer, probes, candidate, stranded, disconnecting>>
  /\ UNCHANGED events

\* The call whose opening has failed, or was aborted, looks at what is wanted now.
Resume(c) ==
  /\ c \in callers /\ CanResume(c)
  /\ LET others == callers \ {c}
         superseded == c.mine # generation
         refreshes == c.options = None
         retries == ~Serving(c.options) /\ desired = c.options
     IN  CASE desired # None /\ superseded /\ (refreshes \/ retries) ->
                EnsureSession(desired, others)
           [] desired # None /\ ~superseded /\ refreshes ->
                /\ OpenDesired(c.mine, desired, others, Waiter(c.mine, desired), phase)
                /\ UNCHANGED <<platform, revision, desired, watched, generation, timers,
                               candidate, stranded, disconnecting>>
           [] OTHER ->
                /\ callers' = others
                /\ UNCHANGED <<platform, revision, desired, session, phase, generation,
                               opening, attempts, timers, candidate, stranded,
                               disconnecting>>
  /\ UNCHANGED <<refresh, events>>

\* Wrong on purpose: later calls still join an opening that has settled.
UnopenedNever(a) == opening

Unopened(a) == IF opening = a.generation THEN None ELSE opening

\* The opening settles with a session; its own caller returns it.
Settle(a) ==
  /\ attempts' = attempts \ {a} /\ opening' = Unopened(a)
  /\ callers' = {c \in callers : c.options = None \/ c.on # a.generation}

\* Wrong on purpose: a session that comes too late is forgotten.
LeaveOpen(s, r) == rank' = [rank EXCEPT ![s] = r] /\ UNCHANGED <<active, activeKey, phase>>

\* The session, with whatever path, is of no use.
LetGo(s, r) == Close(s)

\* An opening gets its session.  One that comes too late is closed, unless it is
\* the session that was adopted in the meantime.
Opened(a, s, r) ==
  /\ Settled /\ a \in attempts /\ ~a.leaving
  /\ CASE a.generation = generation /\ IsEligible ->
            /\ Activate(s, r) /\ activeKey' = a.key /\ phase' = "connected"
            /\ upgradeTimer' = (upgradeTimer \/ NeedsUpgrade(r))
            /\ Settle(a)
       [] ~(a.generation = generation /\ IsEligible) /\ IsEligible /\ active = s /\ activeKey = Key(desired) ->
            Settle(a) /\ UNCHANGED <<session, phase, upgradeTimer>>
       [] OTHER ->
            /\ LetGo(s, r)
            /\ attempts' = (attempts \ {a}) \cup {[a EXCEPT !.leaving = TRUE]}
            /\ UNCHANGED <<watched, upgradeTimer, opening, callers>>
  /\ UNCHANGED <<platform, revision, desired, generation, retrying, probes, candidate,
                 stranded, refresh, disconnecting, events>>

InUse(s) == s \in {active, candidate} /\ IsOpen(s)

\* openSession of the host ends with a new session, or with the one there is: an
\* accepting device waits for it, and the manager keeps it where it refuses the
\* new one, which is closed.  (Admitting the new one closes the session in use as
\* if by request, and a probe that finds it gone closes the new one: whichever the
\* manager chooses, the probe ends with LetGo of the session in use.)
Finds(s, r) ==
  IF role = "accepts" \/ (role = "dials and listens" /\ \E t \in Sessions : InUse(t))
  THEN InUse(s) /\ r = rank[s]
  ELSE IsNew(s) /\ r \in Ranks[role]

\* Aborting an opening ends its dial: what is still admitted for a stale one comes
\* before the session of the next.
MayBeAdmitted == role = "dials and listens" => \A t \in Sessions : ~InUse(t)

\* The dial fails, or the close of a session that came too late is over.
OpeningFails(a) ==
  /\ Settled /\ a \in attempts
  /\ attempts' = attempts \ {a} /\ opening' = Unopened(a)
  /\ IF a.generation = generation THEN ScheduleRetry ELSE UNCHANGED <<retrying, phase>>
  /\ UNCHANGED <<platform, revision, desired, session, generation, callers, upgradeTimer,
                 probes, candidate, stranded, refresh, disconnecting, events>>

\* The session is open when prepareBackgroundSession of a device without a listener
\* fails: openSession rejects, and nobody closes the session.
Strands(s, r) ==
  /\ role = "dials" /\ Finds(s, r)
  /\ rank' = [rank EXCEPT ![s] = r] /\ stranded' = stranded \cup {s}

HandoffFails(a, s, r) ==
  /\ Event /\ a \in attempts /\ ~a.leaving
  /\ Strands(s, r)
  /\ attempts' = attempts \ {a} /\ opening' = Unopened(a)
  /\ IF a.generation = generation THEN ScheduleRetry ELSE UNCHANGED <<retrying, phase>>
  /\ UNCHANGED <<platform, revision, desired, active, activeKey, watched, generation,
                 callers, upgradeTimer, probes, candidate, refresh, disconnecting>>

RetryFires ==
  /\ Settled /\ retrying /\ retrying' = FALSE
  /\ IF IsEligible /\ opening = None
     THEN OpenDesired(generation, desired, callers, {}, "reconnecting")
     ELSE /\ phase' = IF IsEligible THEN "reconnecting" ELSE phase
          /\ UNCHANGED <<active, activeKey, rank, openings>>
  /\ UNCHANGED <<platform, revision, desired, watched, generation, upgradeTimer, probes,
                 candidate, stranded, refresh, disconnecting, events>>

-----------------------------------------------------------------------------
(* Incoming sessions, upgrades and losses *)

\* The peer service admits an incoming session and will offer it for adoption.  Which
\* of two live sessions it keeps is not its concern here: the peer dials for the next
\* one when the last is closed.
Arrives(s, r) ==
  /\ role = "accepts" /\ Settled
  /\ candidate = None /\ \A t \in Sessions : rank[t] = Shut
  /\ IsNew(s) /\ r \in Ranks[role]
  /\ candidate' = s /\ rank' = [rank EXCEPT ![s] = r]
  /\ UNCHANGED <<platform, revision, desired, active, activeKey, watched, phase,
                 generation, openings, timers, stranded, refresh, disconnecting, events>>

\* The offer carries the options the listener was last prepared for.
Adopt(options) ==
  /\ Settled /\ candidate # None /\ candidate' = None
  /\ IF desired = options /\ IsEligible /\ IsOpen(candidate)
     THEN /\ NewGeneration
          /\ Activate(candidate, rank[candidate])
          /\ activeKey' = Key(options) /\ phase' = "connected"
          /\ upgradeTimer' = NeedsUpgrade(rank[candidate])
          /\ opening' = None
     ELSE /\ Close(candidate)
          /\ UNCHANGED <<watched, generation, retrying, upgradeTimer, opening>>
  /\ UNCHANGED <<platform, revision, desired, attempts, callers, probes, stranded,
                 refresh, disconnecting, events>>

UpgradeFires ==
  /\ Settled /\ upgradeTimer /\ upgradeTimer' = FALSE
  /\ probes' = IF active # None /\ desired # None /\ online /\ foreground /\ ~transfer
               THEN probes \cup {[generation |-> generation, previous |-> active]} ELSE probes
  /\ UNCHANGED <<platform, revision, desired, session, phase, generation, openings,
                 retrying, candidate, stranded, refresh, disconnecting, events>>

\* The session the probe set out to replace is still the one in use.
IsTimely(p) == p.generation = generation /\ active = p.previous

\* The probe's session is closed unless it is better than the one in use.
Probed(p, s, r) ==
  /\ Settled /\ p \in probes /\ probes' = probes \ {p}
  /\ IF IsTimely(p) /\ r > rank[active]
     THEN Activate(s, r) /\ UNCHANGED <<activeKey, phase>>
     ELSE LetGo(s, r) /\ UNCHANGED watched
  /\ upgradeTimer' = (upgradeTimer \/ (p.generation = generation /\ active' # None
                                        /\ NeedsUpgrade(rank'[active'])))
  /\ UNCHANGED <<platform, revision, desired, generation, openings, retrying, candidate,
                 stranded, refresh, disconnecting, events>>

ProbeFails(p) ==
  /\ Settled /\ p \in probes /\ probes' = probes \ {p}
  /\ upgradeTimer' = (upgradeTimer \/ (p.generation = generation /\ UpgradeIsDue))
  /\ UNCHANGED <<platform, revision, desired, session, phase, generation, openings,
                 retrying, candidate, stranded, refresh, disconnecting, events>>

\* The handoff of a probe's session fails in the same way.
ProbeStrands(p, s, r) ==
  /\ Event /\ p \in probes /\ probes' = probes \ {p}
  /\ Strands(s, r)
  /\ upgradeTimer' = (upgradeTimer \/ (p.generation = generation /\ UpgradeIsDue))
  /\ UNCHANGED <<platform, revision, desired, active, activeKey, watched, phase,
                 generation, openings, retrying, candidate, refresh, disconnecting>>

\* watchClosure: the peer or the network closes a session.
Lost(s) ==
  /\ Event
  /\ IsOpen(s) /\ rank' = Closing(s) /\ stranded' = stranded \ {s}
  /\ IF active = s /\ watched
     THEN /\ active' = None /\ activeKey' = None
          /\ ScheduleRetry
     ELSE UNCHANGED <<active, activeKey, retrying, phase>>
  /\ UNCHANGED <<platform, revision, desired, watched, generation, openings, upgradeTimer,
                 probes, candidate, refresh, disconnecting>>

-----------------------------------------------------------------------------
(* The user and the platform *)

Retire(newPhase) ==
  /\ NewGeneration /\ upgradeTimer' = FALSE /\ watched' = FALSE
  /\ opening' = None
  /\ active' = None /\ activeKey' = None /\ rank' = Closing(active)
  /\ phase' = newPhase
  /\ UNCHANGED <<attempts, callers>>

\* The state is reset when the session has closed.
Disconnect ==
  /\ Event
  /\ desired' = None
  /\ disconnecting' = (disconnecting \/ active # None)
  /\ Retire(IF active = None THEN "idle" ELSE "stopping")
  /\ UNCHANGED <<platform, revision, probes, candidate, stranded, refresh>>

DisconnectEnds ==
  /\ Settled /\ disconnecting /\ disconnecting' = FALSE /\ phase' = "idle"
  /\ UNCHANGED <<platform, revision, desired, session, generation, openings, timers,
                 candidate, stranded, refresh, events>>

\* attemptNow, with what the platform says by now; `due` tells whether an upgrade
\* is due when there is nothing to attempt.
AttemptNow(isOnline, isForeground, isTransfer, due) ==
  IF Eligible(isOnline, isForeground, isTransfer, desired) /\ ~IsOpen(active) /\ opening = None
  THEN /\ NewGeneration /\ upgradeTimer' = FALSE /\ watched' = FALSE
       /\ OpenDesired(generation + 1, desired, callers, {}, phase)
  ELSE /\ upgradeTimer' = (upgradeTimer \/ due)
       /\ UNCHANGED <<session, phase, generation, openings, retrying>>

KeepSession(due) ==
  /\ upgradeTimer' = (upgradeTimer \/ due)
  /\ UNCHANGED <<session, phase, generation, openings, retrying>>

SetOnline(is) ==
  /\ Event /\ online' = is
  /\ IF is THEN AttemptNow(is, foreground, transfer, FALSE) ELSE KeepSession(FALSE)
  /\ UNCHANGED <<role, foreground, transfer, revision, desired, probes, candidate,
                 stranded, refresh, disconnecting>>

SetForeground(is) ==
  /\ Event /\ foreground' = is
  /\ CASE is -> AttemptNow(online, is, transfer, UpgradeIsDue)
       [] ~is /\ transfer -> KeepSession(FALSE)
       [] OTHER -> Retire("suspended")
  /\ UNCHANGED <<role, online, transfer, revision, desired, probes, candidate, stranded,
                 refresh, disconnecting>>

SetTransferActive(is) ==
  /\ Event /\ transfer' = is
  /\ CASE is -> AttemptNow(online, foreground, is, FALSE)
       [] ~is /\ foreground -> KeepSession(UpgradeIsDue)
       [] OTHER -> Retire("suspended")
  /\ UNCHANGED <<role, online, foreground, revision, desired, probes, candidate, stranded,
                 refresh, disconnecting>>

-----------------------------------------------------------------------------

Calls ==
  \/ \E o \in Options : Connect(o) \/ Ensure(o)
  \/ Disconnect
  \/ \E is \in BOOLEAN : SetOnline(is) \/ SetForeground(is) \/ SetTransferActive(is)

Open(a) ==
  /\ MayBeAdmitted
  /\ \E s \in Sessions, r \in 1 .. BestRank : Finds(s, r) /\ Opened(a, s, r)

Handoffs ==
  \E s \in Sessions, r \in 1 .. BestRank :
     \/ \E a \in attempts : HandoffFails(a, s, r)
     \/ \E p \in probes : ProbeStrands(p, s, r)

Incoming == \E s \in Sessions, r \in 1 .. BestRank : Arrives(s, r)

Upgrades ==
  \/ UpgradeFires
  \/ \E p \in probes :
       \/ \E s \in Sessions, r \in 1 .. BestRank : Finds(s, r) /\ Probed(p, s, r)
       \/ ProbeFails(p)

Next ==
  \/ Calls \/ ConfigurationChanges \/ RefreshSession \/ DisconnectEnds
  \/ \E c \in callers : Resume(c)
  \/ \E a \in attempts : Open(a) \/ OpeningFails(a)
  \/ RetryFires \/ Upgrades \/ Handoffs
  \/ Incoming \/ \E o \in Options : Adopt(o)
  \/ \E s \in Sessions : Lost(s)

Spec == Init /\ [][Next]_vars

\* Promises that have settled are noticed, timers fire, an aborted opening ends,
\* and a peer that is dialled, or dials, again and again is reached at last.
FairSpec ==
  /\ Spec
  /\ WF_vars(RefreshSession) /\ WF_vars(\E c \in callers : Resume(c))
  /\ WF_vars(RetryFires)
  /\ WF_vars(\E a \in attempts : (a.leaving \/ a.generation # generation) /\ OpeningFails(a))
  /\ SF_vars(\E a \in attempts : a.generation = generation /\ Open(a))
  /\ SF_vars(Incoming) /\ WF_vars(\E o \in Options : Adopt(o))

-----------------------------------------------------------------------------

\* Type invariant: at most one opening is open to be joined, it is one that has not
\* settled, and what the lifecycle holds are sessions, keys and generations.
TypeOK ==
  /\ desired \in Options \cup {None}
  /\ active \in Sessions \cup {None} /\ candidate \in Sessions \cup {None}
  /\ stranded \subseteq Sessions
  /\ rank \in [Sessions -> Shut .. BestRank]
  /\ (activeKey = None) = (active = None)
  /\ activeKey # None => activeKey \in Options \X (0 .. MaxEvents)
  /\ opening # None => \E a \in attempts : a.generation = opening
  /\ phase \in {"idle", "connecting", "connected", "waiting", "reconnecting", "suspended", "stopping"}

\* Every session that is open is the active one, the one being offered, or one whose
\* handoff has failed: whoever overtakes whom, createConnectionLifecycle closes what
\* it is given and does not keep.  (Of a session whose handoff fails it never hears:
\* openSession leaves that one open.)
NoSessionLeaks ==
  \A s \in Sessions : rank[s] # Shut => s \in {active, candidate} \cup stranded

\* While the device is online, the state that subscribers see says "connected"
\* only when getSession has a session.
ConnectedHasSession == phase = "connected" /\ online => active # None

\* "A failed optional probe does not disturb the steady session": when a probe of
\* scheduleUpgrade ends, an open session is in use if one was before.
ProbeKeepsSession ==
  [][probes' # probes /\ IsOpen(active) => active' # None /\ rank'[active'] # Shut]_vars

\* Once users and losses stop, a lifecycle that may connect gets a session and
\* keeps it: no interleaving loses the opening, the retry and the callers at once.
EventuallyConnected == <>[](IsEligible => IsOpen(active))

=============================================================================
