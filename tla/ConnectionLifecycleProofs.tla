---------------------- MODULE ConnectionLifecycleProofs ----------------------
(***************************************************************************)
(* What holds of the lifecycle of a connection for every set of options,   *)
(* sessions and paths and every number of calls, losses and changes.       *)
(***************************************************************************)
EXTENDS ConnectionLifecycle, TLAPS

-----------------------------------------------------------------------------
Keys == Options \X (0 .. revision)
Phases == {"idle", "connecting", "connected", "waiting", "reconnecting", "suspended", "stopping"}
Attempts == [generation : Nat, key : Keys, leaving : BOOLEAN]
Callers == [on : Nat \cup {None}, mine : Nat, options : Options \cup {None}]

\* The sessions: one that is open is the active one, the one being offered, or one
\* whose handoff has failed.
Held ==
  /\ active \in Sessions \cup {None} /\ candidate \in Sessions \cup {None}
  /\ stranded \subseteq Sessions
  /\ rank \in [Sessions -> Shut .. BestRank]
  /\ (activeKey = None) = (active = None)
  /\ activeKey # None => activeKey \in Keys
  /\ NoSessionLeaks

\* The openings: the one others may join is of this generation and not settled.
Opens ==
  /\ generation \in Nat /\ attempts \subseteq Attempts /\ callers \subseteq Callers
  /\ opening # None => opening = generation /\ \E a \in attempts : a.generation = opening

\* What is counted, wanted and shown; while connected no opening is under way,
\* and only going offline has lost the session.
Shown ==
  /\ revision \in Nat /\ events \in Nat /\ revision <= events /\ events <= MaxEvents
  /\ desired \in Options \cup {None} /\ phase \in Phases
  /\ phase = "connected" =>
       /\ desired # None /\ opening = None /\ (foreground \/ transfer)
       /\ active # None \/ ~online

\* A probe set out to replace a session.
Probing == \A p \in probes : p.previous \in Sessions

IInv == Held /\ Opens /\ Shown

\* In the beginning nothing is open, opening or wanted.
LEMMA InvInit == Init => IInv
<1> SUFFICES ASSUME Init PROVE IInv OBVIOUS
<1> USE DEF Init, Shut, BestRank
<1>1. Held BY DEF Held, NoSessionLeaks
<1>2. Opens BY DEF Opens
<1>3. Shown BY LifecycleAssumption DEF Shown, Phases
<1> QED BY <1>1, <1>2, <1>3 DEF IInv

\* Closing sessions leaks none, and takes down what is shown.
LEMMA CloseHolds ==
  ASSUME Held, NEW s \in Sessions, Close(s), UNCHANGED <<revision, watched, stranded>>,
         candidate' = candidate \/ (candidate = s /\ candidate' = None)
  PROVE  Held' /\ (phase' = "idle" \/ (phase' = phase /\ active' = active))
<1> USE DEF Held, NoSessionLeaks, Keys, Shut, BestRank
<1>1. s # None BY LifecycleAssumption
<1>2. rank' = [rank EXCEPT ![s] = 0]
  BY <1>1 DEF Close, Closing
<1>3. rank' \in [Sessions -> 0 .. 5] /\ rank'[s] = 0 /\ \A t \in Sessions : t # s => rank'[t] = rank[t]
  BY <1>2
<1>4. CASE active = s /\ watched
  BY <1>3, <1>4 DEF Close
<1>5. CASE ~(active = s /\ watched)
  BY <1>3, <1>5 DEF Close
<1> QED BY <1>4, <1>5

\* The session made active replaces the one before it.
LEMMA ActivateHolds ==
  ASSUME Held, NEW s \in Sessions, NEW r \in Shut .. BestRank, Activate(s, r),
         revision \in Nat, UNCHANGED <<revision, stranded>>, activeKey' # None, activeKey' \in Keys,
         candidate' = candidate \/ (candidate = s /\ candidate' = None)
  PROVE  Held' /\ active' # None
<1> USE DEF Held, NoSessionLeaks, Keys, Shut, BestRank
<1>1. s # None BY LifecycleAssumption
<1>2. PICK base : base = (IF active = s THEN rank ELSE Closing(active)) OBVIOUS
<1>3. /\ base \in [Sessions -> 0 .. 5]
      /\ \A t \in Sessions : t # s => base[t] = IF t = active THEN 0 ELSE rank[t]
  <2>1. CASE active = s \/ active = None
    BY <1>2, <2>1, LifecycleAssumption DEF Closing
  <2>2. CASE active # s /\ active # None
    <3>1. base = [rank EXCEPT ![active] = 0]
      BY <1>2, <2>2 DEF Closing
    <3> QED BY <2>2, <3>1
  <2> QED BY <2>1, <2>2
<1>4. rank' = [base EXCEPT ![s] = r] /\ active' = s
  BY <1>2 DEF Activate
<1>5. /\ rank' \in [Sessions -> 0 .. 5]
      /\ \A t \in Sessions : t # s => rank'[t] = IF t = active THEN 0 ELSE rank[t]
  BY <1>3, <1>4
<1>6. NoSessionLeaks'
  BY <1>4, <1>5
<1> QED BY <1>1, <1>4, <1>5, <1>6

\* Letting the active session go closes it.
LEMMA RetiredHolds ==
  ASSUME Held, UNCHANGED <<revision, candidate, stranded>>,
         \/ active' = None /\ activeKey' = None /\ rank' = Closing(active)
         \/ UNCHANGED <<active, activeKey, rank>>
  PROVE  Held'
<1> USE DEF Held, NoSessionLeaks, Keys, Shut, BestRank
<1>1. CASE active = None
  BY <1>1 DEF Closing
<1>2. CASE active # None /\ active' = None /\ activeKey' = None /\ rank' = Closing(active)
  BY <1>2 DEF Closing
<1>3. CASE UNCHANGED <<active, activeKey, rank>>
  BY <1>3
<1> QED BY <1>1, <1>2, <1>3

\* An opening that is begun is the one of this generation; it lets go of a
\* session for other options, and shows that it is under way.
LEMMA OpenDesiredHolds ==
  ASSUME IInv, NEW g \in Nat, NEW o \in Options, NEW others \in SUBSET Callers,
         NEW own \in SUBSET Callers, OpenDesired(g, o, others, own, phase) \/ OpenDesired(g, o, others, own, "reconnecting"),
         generation' = g, UNCHANGED <<revision, candidate, stranded>>
  PROVE  /\ Held' /\ Opens'
         /\ phase' \in Phases
         /\ phase' = "connected" => phase = "connected" /\ opening' = None /\ active' # None
<1> USE DEF IInv
<1>1. Key(o) \in Keys /\ Key(o) # None
  BY LifecycleAssumption DEF Key, Keys, Shown
<1>2. CASE Serving(o)
  <2>1. UNCHANGED <<attempts, active, activeKey, rank>> /\ opening' = None /\ callers' = others
        /\ phase' \in {phase, "reconnecting"} /\ active # None
    BY <1>2 DEF OpenDesired, Serving, IsOpen
  <2>2. Held' BY <2>1, RetiredHolds
  <2>3. Opens' BY <2>1 DEF Opens, Attempts, Callers, Keys
  <2> QED BY <2>1, <2>2, <2>3 DEF Shown, Phases
<1>3. CASE ~Serving(o)
  <2> DEFINE a == [generation |-> g, key |-> Key(o), leaving |-> FALSE]
  <2>1. /\ opening' = g /\ attempts' = attempts \cup {a} /\ callers' = others \cup own
        /\ phase' \in {"connecting", "reconnecting"}
        /\ \/ active' = None /\ activeKey' = None /\ rank' = Closing(active)
           \/ UNCHANGED <<active, activeKey, rank>>
    BY <1>3 DEF OpenDesired
  <2>2. Held' BY <2>1, RetiredHolds
  <2>3. a \in Attempts /\ a \in attempts' /\ a.generation = g
    BY <1>1, <2>1 DEF Attempts
  <2>4. attempts' \subseteq Attempts' /\ callers' \subseteq Callers'
    BY <2>1, <2>3 DEF Opens, Attempts, Callers, Keys
  <2>5. Opens' BY <2>1, <2>3, <2>4 DEF Opens
  <2> QED BY <2>1, <2>2, <2>5 DEF Phases
<1> QED BY <1>2, <1>3

\* A new generation for options that are wanted.
LEMMA ReopenHolds ==
  ASSUME IInv, NEW o \in Options, NEW others \in SUBSET Callers, Reopen(o, others),
         UNCHANGED <<revision, candidate, stranded>>
  PROVE  /\ Held' /\ Opens' /\ phase' \in Phases
         /\ phase' = "connected" => phase = "connected" /\ opening' = None /\ active' # None
<1>1. generation \in Nat BY DEF IInv, Opens
<1>2. generation' = generation + 1 /\ generation + 1 \in Nat
  BY <1>1 DEF Reopen, NewGeneration
<1>3. Waiter(generation + 1, o) \in SUBSET Callers
  BY <1>1 DEF Waiter, Callers
<1> QED BY <1>2, <1>3, OpenDesiredHolds DEF Reopen

\* A call of ensureSession, or of one that goes on with it.
LEMMA EnsureHolds ==
  ASSUME IInv, NEW o \in Options, NEW others \in SUBSET Callers, EnsureSession(o, others)
  PROVE  /\ Held' /\ Opens' /\ UNCHANGED <<platform, revision>> /\ desired' = o /\ phase' \in Phases
         /\ phase' = "connected" =>
              phase = "connected" /\ opening' = None /\ (active' # None \/ active' = active)
<1> USE DEF IInv
<1>1. UNCHANGED <<platform, revision, candidate, stranded>> /\ desired' = o
  BY DEF EnsureSession
<1>2. CASE /\ callers' = others
           /\ UNCHANGED <<session, phase, generation, opening, attempts>>
  <2>1. Held' BY <1>1, <1>2, RetiredHolds DEF session
  <2>2. Opens' BY <1>1, <1>2 DEF Opens, Attempts, Callers, Keys
  <2> QED BY <1>1, <1>2, <2>1, <2>2 DEF Shown, session
<1>3. CASE Reopen(o, others)
  BY <1>1, <1>3, ReopenHolds
<1>4. CASE /\ generation' = generation + 1 /\ opening # None /\ opening' = None
           /\ callers' = others \cup Refresher(opening, generation + 1)
           /\ UNCHANGED <<attempts, phase, active, activeKey, rank>>
  <2>1. Held' BY <1>1, <1>4, RetiredHolds
  <2>2. Refresher(opening, generation + 1) \subseteq Callers
    BY <1>4 DEF Refresher, Callers, Opens
  <2>3. Opens' BY <1>1, <1>4, <2>2 DEF Opens, Attempts, Callers, Keys
  <2> QED BY <1>1, <1>4, <2>1, <2>3 DEF Shown
<1> QED BY <1>2, <1>3, <1>4 DEF EnsureSession, NewGeneration

\* Calls of the user and of remote operations.
LEMMA CallsHold ==
  ASSUME IInv,
         \/ \E o \in Options : Connect(o) \/ Ensure(o)
         \/ Disconnect \/ ConfigurationChanges \/ RefreshSession
         \/ \E c \in callers : Resume(c)
  PROVE  IInv'
<1> USE DEF IInv
<1>1. CASE \E o \in Options : Ensure(o)
  <2>1. PICK o \in Options : Ensure(o) BY <1>1
  <2>2. EnsureSession(o, callers) /\ events' = events + 1 /\ events' <= MaxEvents
        /\ callers \in SUBSET Callers
    BY <2>1, LifecycleAssumption DEF Ensure, Event, Shown, Opens
  <2>3. o # None BY LifecycleAssumption
  <2> QED BY <2>2, <2>3, EnsureHolds DEF Shown, platform
<1>2. CASE \E o \in Options : Connect(o)
  <2>1. PICK o \in Options : Connect(o) BY <1>2
  <2>2. events' = events + 1 /\ events' <= MaxEvents /\ UNCHANGED <<platform, revision, candidate, stranded>>
        /\ desired' = o /\ o # None /\ callers \in SUBSET Callers
    BY <2>1, LifecycleAssumption DEF Connect, Event, Shown, Opens
  <2>3. CASE Reopen(o, callers)
    BY <2>2, <2>3, ReopenHolds DEF Shown, platform
  <2>4. CASE UNCHANGED <<session, phase, generation, openings>>
    <3>1. Held' BY <2>2, <2>4, RetiredHolds DEF session
    <3>2. Opens' BY <2>2, <2>4 DEF Opens, Attempts, Callers, Keys, openings
    <3> QED BY <2>2, <2>4, <3>1, <3>2 DEF Shown, session, openings, platform
  <2> QED BY <2>1, <2>3, <2>4 DEF Connect
<1>3. CASE Disconnect
  <2>1. /\ events' = events + 1 /\ events' <= MaxEvents /\ UNCHANGED <<revision, candidate, stranded>>
        /\ desired' = None /\ phase' \in {"idle", "stopping"}
        /\ generation' = generation + 1 /\ opening' = None /\ UNCHANGED <<attempts, callers>>
        /\ active' = None /\ activeKey' = None /\ rank' = Closing(active)
    BY <1>3, LifecycleAssumption DEF Disconnect, Retire, NewGeneration, Event, Shown
  <2>2. Held' BY <2>1, RetiredHolds
  <2>3. Opens' BY <2>1 DEF Opens, Attempts, Callers, Keys
  <2> QED BY <2>1, <2>2, <2>3 DEF Shown, Phases
<1>4. CASE ConfigurationChanges
  <2>1. /\ events' = events + 1 /\ events' <= MaxEvents /\ revision' = revision + 1
        /\ UNCHANGED <<platform, desired, session, phase, generation, openings, candidate, stranded>>
    BY <1>4, LifecycleAssumption DEF ConfigurationChanges, Event, Shown
  <2>2. Keys \subseteq Keys'
    BY <2>1 DEF Keys, Shown
  <2>3. Held' BY <2>1, <2>2 DEF Held, NoSessionLeaks, session
  <2>4. Attempts \subseteq Attempts' BY <2>2 DEF Attempts
  <2>5. Opens' BY <2>1, <2>4 DEF Opens, openings, Callers
  <2> QED BY <2>1, <2>3, <2>5 DEF Shown, session, openings, platform
<1>5. CASE RefreshSession
  <2>1. UNCHANGED events /\ callers \in SUBSET Callers
    BY <1>5 DEF RefreshSession, Opens
  <2>2. CASE desired # None /\ EnsureSession(desired, callers)
    BY <2>1, <2>2, EnsureHolds DEF Shown, platform
  <2>3. CASE UNCHANGED <<platform, revision, desired, session, phase, generation, openings, candidate, stranded>>
    <3>1. Held' BY <2>3, RetiredHolds DEF session
    <3>2. Opens' BY <2>3 DEF Opens, Attempts, Callers, Keys, openings
    <3> QED BY <2>1, <2>3, <3>1, <3>2 DEF Shown, session, openings, platform
  <2> QED BY <1>5, <2>2, <2>3 DEF RefreshSession
<1>6. CASE \E c \in callers : Resume(c)
  <2>1. PICK c \in callers : Resume(c) BY <1>6
  <2>2. UNCHANGED events /\ callers \ {c} \in SUBSET Callers /\ c \in Callers
    BY <2>1 DEF Resume, Opens
  <2>3. CASE desired # None /\ EnsureSession(desired, callers \ {c})
    BY <2>2, <2>3, EnsureHolds DEF Shown, platform
  <2>4. CASE /\ desired # None /\ c.mine = generation
             /\ OpenDesired(c.mine, desired, callers \ {c}, Waiter(c.mine, desired), phase)
             /\ UNCHANGED <<platform, revision, desired, generation, candidate, stranded>>
    <3>1. c.mine \in Nat /\ desired \in Options /\ Waiter(c.mine, desired) \in SUBSET Callers
      BY <2>2, <2>4 DEF Callers, Shown, Waiter
    <3> QED BY <2>2, <2>4, <3>1, OpenDesiredHolds DEF Shown, platform
  <2>5. CASE /\ callers' = callers \ {c}
             /\ UNCHANGED <<platform, revision, desired, session, phase, generation, opening,
                            attempts, candidate, stranded>>
    <3>1. Held' BY <2>5, RetiredHolds DEF session
    <3>2. Opens' BY <2>5 DEF Opens, Attempts, Callers, Keys
    <3> QED BY <2>2, <2>5, <3>1, <3>2 DEF Shown, session, platform
  <2> QED BY <2>1, <2>3, <2>4, <2>5 DEF Resume
<1> QED BY <1>1, <1>2, <1>3, <1>4, <1>5, <1>6

\* An opening that settles is gone, and with it the one others may join.
LEMMA SettledHolds ==
  ASSUME Opens, NEW a \in attempts, attempts' = attempts \ {a}, opening' = Unopened(a),
         generation' = generation, callers' \subseteq callers, UNCHANGED revision
  PROVE  Opens' /\ (a.generation = generation \/ opening = None => opening' = None)
<1>1. \A b \in attempts : b.generation # a.generation => b \in attempts'
  OBVIOUS
<1>2. opening' # None => opening' = opening /\ opening # a.generation
  BY DEF Unopened
<1>3. Opens'
  BY <1>1, <1>2 DEF Opens, Attempts, Callers, Keys
<1> QED BY <1>2, <1>3 DEF Opens

\* An opening that gets its session, fails, or is begun by a retry.
LEMMA OpeningsHold ==
  ASSUME IInv,
         \/ \E a \in attempts : Open(a) \/ OpeningFails(a)
         \/ RetryFires
  PROVE  IInv'
<1> USE DEF IInv
<1>1. CASE \E a \in attempts : Open(a)
  <2>1. PICK a \in attempts, s \in Sessions, r \in 1 .. BestRank : Opened(a, s, r)
    BY <1>1 DEF Open
  <2>2. /\ UNCHANGED <<platform, revision, desired, generation, candidate, stranded, events>>
        /\ a \in Attempts /\ a.key \in Keys /\ a.key # None
    BY <2>1, LifecycleAssumption DEF Opened, Opens, Attempts, Keys, Shown
  <2>3. CASE /\ a.generation = generation /\ IsEligible
             /\ Activate(s, r) /\ activeKey' = a.key /\ phase' = "connected" /\ Settle(a)
    <3>1. Held' /\ active' # None
      BY <2>2, <2>3, ActivateHolds DEF Shown, Keys, Shut, BestRank
    <3>2. Opens' /\ opening' = None
      BY <2>2, <2>3, SettledHolds DEF Settle
    <3> QED BY <2>2, <2>3, <3>1, <3>2 DEF Shown, Phases, IsEligible, Eligible, platform
  <2>4. CASE Settle(a) /\ UNCHANGED <<session, phase>>
    <3>1. Held' BY <2>2, <2>4, RetiredHolds DEF session
    <3>2. Opens' /\ (opening = None => opening' = None)
      BY <2>2, <2>4, SettledHolds DEF Settle
    <3> QED BY <2>2, <2>4, <3>1, <3>2 DEF Shown, session, platform
  <2>5. CASE /\ LetGo(s, r) /\ UNCHANGED <<watched, opening, callers>>
             /\ attempts' = (attempts \ {a}) \cup {[a EXCEPT !.leaving = TRUE]}
    <3>1. Held' /\ (phase' = "idle" \/ (phase' = phase /\ active' = active))
      BY <2>2, <2>5, CloseHolds DEF LetGo
    <3>2. [a EXCEPT !.leaving = TRUE] \in Attempts
          /\ [a EXCEPT !.leaving = TRUE].generation = a.generation
      BY <2>2 DEF Attempts
    <3>3. Opens'
      BY <2>2, <2>5, <3>2 DEF Opens, Attempts, Callers, Keys
    <3> QED BY <2>2, <2>5, <3>1, <3>3 DEF Shown, Phases, platform
  <2> QED BY <2>1, <2>3, <2>4, <2>5 DEF Opened
<1>2. CASE \E a \in attempts : OpeningFails(a)
  <2>1. PICK a \in attempts : OpeningFails(a) BY <1>2
  <2>2. /\ UNCHANGED <<platform, revision, desired, session, generation, callers, candidate, stranded, events>>
        /\ attempts' = attempts \ {a} /\ opening' = Unopened(a) /\ phase' \in {phase, "waiting"}
    BY <2>1 DEF OpeningFails, ScheduleRetry
  <2>3. Held' BY <2>2, RetiredHolds DEF session
  <2>4. Opens' /\ (opening = None => opening' = None)
    BY <2>2, SettledHolds
  <2> QED BY <2>2, <2>3, <2>4 DEF Shown, Phases, session, platform
<1>3. CASE RetryFires
  <2>1. UNCHANGED <<platform, revision, desired, generation, candidate, stranded, events>>
    BY <1>3 DEF RetryFires
  <2>2. CASE IsEligible /\ OpenDesired(generation, desired, callers, {}, "reconnecting")
    <3>1. desired \in Options /\ generation \in Nat /\ callers \in SUBSET Callers
      BY <2>2 DEF IsEligible, Eligible, Shown, Opens
    <3> QED BY <2>1, <2>2, <3>1, OpenDesiredHolds DEF Shown, platform
  <2>3. CASE phase' \in {"reconnecting", phase} /\ UNCHANGED <<active, activeKey, rank, openings>>
    <3>1. Held' BY <2>1, <2>3, RetiredHolds
    <3>2. Opens' BY <2>1, <2>3 DEF Opens, Attempts, Callers, Keys, openings
    <3> QED BY <2>1, <2>3, <3>1, <3>2 DEF Shown, Phases, openings, platform
  <2> QED BY <1>3, <2>2, <2>3 DEF RetryFires
<1> QED BY <1>1, <1>2, <1>3

\* Sessions that arrive, are adopted, found by a probe, or lost.
LEMMA SessionsHold ==
  ASSUME IInv, Probing,
         \/ Incoming \/ Upgrades \/ DisconnectEnds
         \/ \E o \in Options : Adopt(o)
         \/ \E s \in Sessions : Lost(s)
  PROVE  IInv'
<1> USE DEF IInv
<1>1. CASE Incoming
  <2>1. PICK s \in Sessions, r \in 1 .. BestRank : Arrives(s, r)
    BY <1>1 DEF Incoming
  <2>2. /\ UNCHANGED <<platform, revision, desired, active, activeKey, phase, generation, openings, stranded, events>>
        /\ candidate = None /\ candidate' = s /\ rank' = [rank EXCEPT ![s] = r]
    BY <2>1 DEF Arrives
  <2>3. /\ rank' \in [Sessions -> Shut .. BestRank] /\ s # None
        /\ \A t \in Sessions : t # s => rank'[t] = rank[t]
    BY <2>2, LifecycleAssumption DEF Held, Shut, BestRank
  <2>4. NoSessionLeaks'
    BY <2>2, <2>3, LifecycleAssumption DEF Held, NoSessionLeaks
  <2>5. Held'
    BY <2>2, <2>3, <2>4 DEF Held, Keys
  <2>6. Opens' BY <2>2 DEF Opens, Attempts, Callers, Keys, openings
  <2> QED BY <2>2, <2>5, <2>6 DEF Shown, openings, platform
<1>2. CASE DisconnectEnds \/ UpgradeFires \/ \E p \in probes : ProbeFails(p)
  <2>1. /\ UNCHANGED <<platform, revision, desired, session, generation, openings, candidate, stranded, events>>
        /\ phase' \in {phase, "idle"}
    BY <1>2 DEF DisconnectEnds, UpgradeFires, ProbeFails
  <2>2. Held' BY <2>1, RetiredHolds DEF session
  <2>3. Opens' BY <2>1 DEF Opens, Attempts, Callers, Keys, openings
  <2> QED BY <2>1, <2>2, <2>3 DEF Shown, Phases, session, openings, platform
<1>3. CASE \E p \in probes, s \in Sessions, r \in 1 .. BestRank : Probed(p, s, r)
  <2>1. PICK p \in probes, s \in Sessions, r \in 1 .. BestRank : Probed(p, s, r) BY <1>3
  <2>2. UNCHANGED <<platform, revision, desired, generation, openings, candidate, stranded, events>>
    BY <2>1 DEF Probed
  <2>3. Opens' BY <2>2 DEF Opens, Attempts, Callers, Keys, openings
  <2>4. CASE IsTimely(p) /\ r > rank[active] /\ Activate(s, r) /\ UNCHANGED <<activeKey, phase>>
    <3>1. CASE active # None
      <4>1. activeKey' # None /\ activeKey' \in Keys
        BY <2>4, <3>1 DEF Held
      <4>2. Held' /\ active' # None
        BY <2>2, <2>4, <4>1, ActivateHolds DEF Shown, Shut, BestRank
      <4> QED BY <2>2, <2>3, <2>4, <4>2 DEF Shown, openings, platform
    <3>2. active # None
      BY <2>1, <2>4, LifecycleAssumption DEF Probing, IsTimely
    <3> QED BY <3>1, <3>2
  <2>5. CASE LetGo(s, r) /\ UNCHANGED watched
    <3>1. Held' /\ (phase' = "idle" \/ (phase' = phase /\ active' = active))
      BY <2>2, <2>5, CloseHolds DEF LetGo
    <3> QED BY <2>2, <2>3, <3>1 DEF Shown, Phases, openings, platform
  <2> QED BY <2>1, <2>4, <2>5 DEF Probed
<1>4. CASE \E o \in Options : Adopt(o)
  <2>1. PICK o \in Options : Adopt(o) BY <1>4
  <2>2. /\ UNCHANGED <<platform, revision, desired, attempts, callers, stranded, events>>
        /\ candidate \in Sessions /\ candidate' = None
    BY <2>1 DEF Adopt, Held
  <2>3. CASE /\ desired = o /\ IsEligible /\ IsOpen(candidate)
             /\ generation' = generation + 1 /\ Activate(candidate, rank[candidate])
             /\ activeKey' = Key(o) /\ phase' = "connected" /\ opening' = None
    <3>1. Key(o) \in Keys /\ Key(o) # None
      BY LifecycleAssumption DEF Key, Keys, Shown
    <3>2. Held' /\ active' # None
      BY <2>2, <2>3, <3>1, ActivateHolds DEF Shown, Held
    <3>3. Opens' BY <2>2, <2>3 DEF Opens, Attempts, Callers, Keys
    <3> QED BY <2>2, <2>3, <3>2, <3>3 DEF Shown, Phases, IsEligible, Eligible, platform
  <2>4. CASE Close(candidate) /\ UNCHANGED <<watched, generation, opening>>
    <3>1. Held' /\ (phase' = "idle" \/ (phase' = phase /\ active' = active))
      BY <2>2, <2>4, CloseHolds
    <3>2. Opens' BY <2>2, <2>4 DEF Opens, Attempts, Callers, Keys
    <3> QED BY <2>2, <2>4, <3>1, <3>2 DEF Shown, Phases, platform
  <2> QED BY <2>1, <2>3, <2>4 DEF Adopt, NewGeneration
<1>5. CASE \E s \in Sessions : Lost(s)
  <2>1. PICK s \in Sessions : Lost(s) BY <1>5
  <2>2. /\ UNCHANGED <<platform, revision, desired, generation, openings, candidate>>
        /\ events' = events + 1 /\ events' <= MaxEvents /\ s # None
        /\ stranded' = stranded \ {s}
        /\ rank' = [rank EXCEPT ![s] = Shut]
    BY <2>1, LifecycleAssumption DEF Lost, Event, Closing, Shown
  <2>3. \/ active = s /\ active' = None /\ activeKey' = None /\ ScheduleRetry
        \/ UNCHANGED <<active, activeKey, phase>>
    BY <2>1 DEF Lost
  <2>4. Held' BY <2>2, <2>3 DEF Held, NoSessionLeaks, Keys, Shut, BestRank
  <2>5. Opens' BY <2>2 DEF Opens, Attempts, Callers, Keys, openings
  <2>6. phase' = "connected" => phase = "connected" /\ (active' = active \/ ~IsEligible)
    BY <2>3 DEF ScheduleRetry
  <2>7. phase' \in Phases
    BY <2>3 DEF ScheduleRetry, Shown, Phases
  <2> QED BY <2>2, <2>4, <2>5, <2>6, <2>7 DEF Shown, IsEligible, Eligible, openings, platform
<1> QED BY <1>1, <1>2, <1>3, <1>4, <1>5 DEF Upgrades

\* A handoff that fails leaves its session to nobody.
LEMMA HandoffsHold == ASSUME IInv, Handoffs PROVE IInv'
<1> USE DEF IInv
<1>1. PICK s \in Sessions, r \in 1 .. BestRank :
         \/ \E a \in attempts : HandoffFails(a, s, r)
         \/ \E p \in probes : ProbeStrands(p, s, r)
  BY DEF Handoffs
<1>2. /\ Strands(s, r) /\ events' = events + 1 /\ events' <= MaxEvents
      /\ UNCHANGED <<platform, revision, desired, active, activeKey, generation, callers, candidate>>
  BY <1>1, LifecycleAssumption DEF HandoffFails, ProbeStrands, Event, Shown, openings
<1>3. rank' = [rank EXCEPT ![s] = r] /\ stranded' = stranded \cup {s}
  BY <1>2 DEF Strands
<1>4. /\ rank' \in [Sessions -> Shut .. BestRank]
      /\ \A t \in Sessions : t # s => rank'[t] = rank[t]
  BY <1>3 DEF Held, Shut, BestRank
<1>5. NoSessionLeaks' BY <1>2, <1>3, <1>4 DEF Held, NoSessionLeaks
<1>6. Held' BY <1>2, <1>3, <1>4, <1>5 DEF Held, Keys
<1>7. CASE \E a \in attempts : HandoffFails(a, s, r)
  <2>1. PICK a \in attempts : HandoffFails(a, s, r) BY <1>7
  <2>2. attempts' = attempts \ {a} /\ opening' = Unopened(a) /\ phase' \in {phase, "waiting"}
    BY <2>1 DEF HandoffFails, ScheduleRetry
  <2>3. Opens' /\ (opening = None => opening' = None)
    BY <1>2, <2>2, SettledHolds
  <2> QED BY <1>2, <1>6, <2>2, <2>3 DEF Shown, Phases, platform
<1>8. CASE \E p \in probes : ProbeStrands(p, s, r)
  <2>1. UNCHANGED <<openings, phase>>
    BY <1>8 DEF ProbeStrands
  <2>2. Opens' BY <1>2, <2>1 DEF Opens, Attempts, Callers, Keys, openings
  <2> QED BY <1>2, <1>6, <2>1, <2>2 DEF Shown, openings, platform
<1> QED BY <1>1, <1>7, <1>8

\* What the platform says: whether there is a network, the app is in front, and
\* transfers go on.
LEMMA PlatformHolds ==
  ASSUME IInv, NEW is \in BOOLEAN, SetOnline(is) \/ SetForeground(is) \/ SetTransferActive(is)
  PROVE  IInv'
<1> USE DEF IInv
<1>1. /\ UNCHANGED <<revision, desired, candidate, stranded>>
      /\ events' = events + 1 /\ events' <= MaxEvents
  <2>1. Event /\ UNCHANGED <<revision, desired, candidate, stranded>>
    BY DEF SetOnline, SetForeground, SetTransferActive
  <2> QED BY <2>1, LifecycleAssumption DEF Event, Shown
<1>2. CASE Retire("suspended")
  <2>1. /\ generation' = generation + 1 /\ opening' = None /\ UNCHANGED <<attempts, callers>>
        /\ active' = None /\ activeKey' = None /\ rank' = Closing(active) /\ phase' = "suspended"
    BY <1>2 DEF Retire, NewGeneration
  <2>2. Held' BY <1>1, <2>1, RetiredHolds
  <2>3. Opens' BY <1>1, <2>1 DEF Opens, Attempts, Callers, Keys
  <2> QED BY <1>1, <2>1, <2>2, <2>3 DEF Shown, Phases
<1>3. CASE /\ generation' = generation + 1 /\ ~IsOpen(active)
           /\ desired # None
           /\ OpenDesired(generation + 1, desired, callers, {}, phase)
  <2>1. desired \in Options /\ generation + 1 \in Nat /\ callers \in SUBSET Callers
    BY <1>3 DEF Shown, Opens
  <2>2. Held' /\ Opens'
    BY <1>1, <1>3, <2>1, OpenDesiredHolds
  <2>3. phase' \in {"connecting", "reconnecting"}
    BY <1>3 DEF OpenDesired, Serving
  <2> QED BY <1>1, <2>2, <2>3 DEF Shown, Phases
<1>4. CASE UNCHANGED <<session, phase, generation, openings>>
           /\ (phase = "connected" => /\ (foreground' \/ transfer')
                                      /\ active # None \/ ~online')
  <2>1. Held' BY <1>1, <1>4, RetiredHolds DEF session
  <2>2. Opens' BY <1>1, <1>4 DEF Opens, Attempts, Callers, Keys, openings
  <2> QED BY <1>1, <1>4, <2>1, <2>2 DEF Shown, session, openings
<1>5. CASE SetOnline(is)
  <2>1. CASE is /\ Eligible(is, foreground, transfer, desired) /\ ~IsOpen(active) /\ opening = None
    BY <1>3, <1>5, <2>1 DEF SetOnline, AttemptNow, NewGeneration, Eligible
  <2>2. CASE ~(is /\ Eligible(is, foreground, transfer, desired) /\ ~IsOpen(active) /\ opening = None)
    <3>1. UNCHANGED <<session, phase, generation, openings>> /\ online' = is
          /\ UNCHANGED <<foreground, transfer>>
      BY <1>5, <2>2 DEF SetOnline, AttemptNow, KeepSession
    <3>2. phase = "connected" => (foreground' \/ transfer') /\ (active # None \/ ~online')
      BY <2>2, <3>1 DEF Shown, Eligible, IsOpen
    <3> QED BY <1>4, <3>1, <3>2
  <2> QED BY <2>1, <2>2
<1>6. CASE SetForeground(is)
  <2>1. CASE is /\ Eligible(online, is, transfer, desired) /\ ~IsOpen(active) /\ opening = None
    BY <1>3, <1>6, <2>1 DEF SetForeground, AttemptNow, NewGeneration, Eligible
  <2>2. CASE ~is /\ ~transfer
    BY <1>2, <1>6, <2>2 DEF SetForeground
  <2>3. CASE /\ is \/ transfer
             /\ ~(is /\ Eligible(online, is, transfer, desired) /\ ~IsOpen(active) /\ opening = None)
    <3>1. UNCHANGED <<session, phase, generation, openings>> /\ foreground' = is
          /\ UNCHANGED <<online, transfer>>
      BY <1>6, <2>3 DEF SetForeground, AttemptNow, KeepSession
    <3>2. phase = "connected" => (foreground' \/ transfer') /\ (active # None \/ ~online')
      BY <2>3, <3>1 DEF Shown
    <3> QED BY <1>4, <3>1, <3>2
  <2> QED BY <2>1, <2>2, <2>3
<1>7. CASE SetTransferActive(is)
  <2>1. CASE is /\ Eligible(online, foreground, is, desired) /\ ~IsOpen(active) /\ opening = None
    BY <1>3, <1>7, <2>1 DEF SetTransferActive, AttemptNow, NewGeneration, Eligible
  <2>2. CASE ~is /\ ~foreground
    BY <1>2, <1>7, <2>2 DEF SetTransferActive
  <2>3. CASE /\ is \/ foreground
             /\ ~(is /\ Eligible(online, foreground, is, desired) /\ ~IsOpen(active) /\ opening = None)
    <3>1. UNCHANGED <<session, phase, generation, openings>> /\ transfer' = is
          /\ UNCHANGED <<online, foreground>>
      BY <1>7, <2>3 DEF SetTransferActive, AttemptNow, KeepSession
    <3>2. phase = "connected" => (foreground' \/ transfer') /\ (active # None \/ ~online')
      BY <2>3, <3>1 DEF Shown
    <3> QED BY <1>4, <3>1, <3>2
  <2> QED BY <2>1, <2>2, <2>3
<1> QED BY <1>5, <1>6, <1>7

\* A probe is begun only while a session is active.
LEMMA NextKeepsProbing == IInv /\ Probing /\ [Next]_vars => Probing'
<1> SUFFICES ASSUME IInv, Probing, [Next]_vars PROVE Probing' OBVIOUS
<1>1. probes' \subseteq probes \/ UpgradeFires
  BY DEF Next, Calls, Upgrades, Incoming, Open, vars, timers, Connect, Ensure, EnsureSession, Disconnect,
         SetOnline, SetForeground, SetTransferActive, ConfigurationChanges, RefreshSession,
         DisconnectEnds, Resume, Opened, OpeningFails, RetryFires, Probed, ProbeFails, Arrives,
         Adopt, Lost, Handoffs, HandoffFails, ProbeStrands
<1>2. CASE UpgradeFires
  <2>1. probes' \subseteq probes
        \/ (active # None /\ probes' = probes \cup {[generation |-> generation, previous |-> active]})
    BY <1>2 DEF UpgradeFires
  <2> QED BY <2>1 DEF Probing, IInv, Held
<1> QED BY <1>1, <1>2 DEF Probing

\* Every step keeps the invariant.
LEMMA NextKeepsInv == IInv /\ Probing /\ [Next]_vars => IInv'
<1> SUFFICES ASSUME IInv, Probing, [Next]_vars PROVE IInv' OBVIOUS
<1>1. CASE UNCHANGED vars
  <2>1. UNCHANGED <<platform, revision, desired, session, phase, generation, openings, candidate, stranded, events>>
    BY <1>1 DEF vars
  <2>2. Held' BY <2>1, RetiredHolds DEF IInv, session
  <2>3. Opens' BY <2>1 DEF IInv, Opens, Attempts, Callers, Keys, openings
  <2> QED BY <2>1, <2>2, <2>3 DEF IInv, Shown, session, openings, platform
<1> QED BY <1>1, CallsHold, OpeningsHold, SessionsHold, HandoffsHold, PlatformHolds DEF Next, Calls

\* The invariant holds throughout.
THEOREM InvHolds == Spec => []IInv
<1>1. Init => Probing
  BY DEF Init, Probing
<1> QED BY <1>1, InvInit, NextKeepsInv, NextKeepsProbing, PTL DEF Spec

\* At most one opening is open to be joined, it is one that has not settled, and
\* what the lifecycle holds are sessions, keys and generations.
THEOREM TypeCorrect == Spec => []TypeOK
<1>1. IInv => TypeOK
  <2> SUFFICES ASSUME IInv PROVE TypeOK OBVIOUS
  <2>1. 0 .. revision \subseteq 0 .. MaxEvents
    BY LifecycleAssumption DEF IInv, Shown
  <2>2. Keys \subseteq Options \X (0 .. MaxEvents)
    BY <2>1 DEF Keys
  <2> QED BY <2>2 DEF IInv, Held, Opens, Shown, TypeOK, Phases
<1> QED BY <1>1, InvHolds, PTL

\* Every session that is open is the active one, the one being offered, or one whose
\* handoff has failed: whoever overtakes whom, createConnectionLifecycle closes what
\* it is given and does not keep.
THEOREM SessionsDoNotLeak == Spec => []NoSessionLeaks
<1>1. IInv => NoSessionLeaks
  BY DEF IInv, Held
<1> QED BY <1>1, InvHolds, PTL

\* While the device is online, the state that subscribers see says "connected"
\* only when getSession has a session.
THEOREM ConnectedIsTrue == Spec => []ConnectedHasSession
<1>1. IInv => ConnectedHasSession
  BY DEF IInv, Shown, ConnectedHasSession
<1> QED BY <1>1, InvHolds, PTL
=============================================================================
