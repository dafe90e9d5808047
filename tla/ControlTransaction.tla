------------------------- MODULE ControlTransaction -------------------------
(***************************************************************************)
(* The transaction in which the node agent changes the settings of its     *)
(* host and undoes the change                                              *)
(* (services/node-agent/ecoroute_agent/controls/transaction.py), within    *)
(* the life of the agent process (real_main.py): it registers, restores    *)
(* what a crash left, applies profiles, restores on request or when it is  *)
(* stopped, and may die between any two steps.                             *)
(*                                                                         *)
(* What survives the process is the host and the snapshot file.            *)
(*                                                                         *)
(* A control is one setting: of the processes, devices or interfaces it is *)
(* about (controls/host.py) every one is treated alike, and one stands for *)
(* all.  What the agent tells of its transactions is the module AgentLoop. *)
(***************************************************************************)
EXTENDS Integers

CONSTANTS
    Controls,       \* the controls, numbered in the order _build_controls lists them
    Approvals,      \* the sets of controls a start of the agent may find approved
    KindOf,         \* how each of them applies, verifies and rolls back
    Profiles,       \* the profiles that are applied, rather than restored
    MaxCrashes,     \* bound: deaths of the process
    MaxFaults       \* bound: rollbacks that raise

ASSUME ControlsAssumption == Controls \subseteq Nat
ASSUME ApprovalsAssumption == Approvals \subseteq SUBSET Controls
ASSUME KindsAssumption ==
    KindOf \in [Controls -> {"volatile",     \* gateway_concurrency: lives in the agent
                             "exact",        \* cgroups_v2
                             "priority",     \* nice_ionice
                             "power",        \* nvml_power_limit
                             "scheduler",    \* sched_ext
                             "polling"}]     \* napi_netdev_genl
ASSUME ProfilesAssumption == Profiles = {"balanced", "eco"}
ASSUME BoundsAssumption == MaxCrashes \in Nat /\ MaxFaults \in Nat

VARIABLES
    host,           \* the profile each setting of the host stands at
    file,           \* the snapshot file: absent, torn or whole
    saved,          \* the snapshots a whole file holds
    approved,       \* the controls of this process
    shifted,        \* power limits that were not the original ones when it read them
    answered,       \* the profile the last transaction answered for, if it is known
    phase,          \* where the process is
    target,         \* the profile being applied
    snaps,          \* the snapshots apply() took
    todo,           \* controls still to apply, or to restore
    applied,        \* controls apply() has touched
    mine,           \* schedulers whose process this process holds
    passed,         \* no rollback of this restore() has raised
    after,          \* where restore() returns to
    crashes, faults

fileVars == <<file, saved>>
lifeVars == <<approved, shifted, after>>
boundVars == <<crashes, faults>>
vars == <<host, fileVars, answered, phase, target, snaps, todo, applied, mine, passed,
          lifeVars, boundVars>>

\* A setting stands at its original, at a profile, or elsewhere.
Settings == {"observe", "other"} \cup Profiles
Snapshots == UNION {[A -> Settings] : A \in SUBSET Controls}

TypeOK ==
    /\ host \in [Controls -> Settings]
    /\ file \in {"absent", "torn", "whole"}
    /\ saved \in Snapshots
    /\ approved \in SUBSET Controls
    /\ shifted \in SUBSET approved
    /\ answered \in {"observe", "unknown"} \cup Profiles
    /\ phase \in {"down", "idle", "writing", "applying", "undoing", "restoring"}
    /\ target \in {"observe"} \cup Profiles
    /\ snaps \in [approved -> Settings]
    /\ todo \in SUBSET approved
    /\ applied \in SUBSET approved
    /\ mine \in SUBSET approved
    /\ passed \in BOOLEAN
    /\ after \in {"idle", "down"}
    /\ crashes \in 0..MaxCrashes
    /\ faults \in 0..MaxFaults

Init ==
    /\ host = [c \in Controls |-> "observe"]
    /\ file = "absent"
    /\ saved = [c \in {} |-> "observe"]
    /\ approved \in Approvals
    /\ shifted = {}
    /\ answered = "observe"
    /\ phase = "down"
    /\ target = "observe"
    /\ snaps = [c \in approved |-> "observe"]
    /\ todo = {} /\ applied = {} /\ mine = {}
    /\ passed = TRUE
    /\ after = "down"
    /\ crashes = 0 /\ faults = 0

First(S, c) == c \in S /\ \A d \in S : c <= d
Last(S, c) == c \in S /\ \A d \in S : d <= c

IsA(kind) == {c \in Controls : KindOf[c] = kind}

\* What becomes of the host when the process is gone.
Deserted(h) == [c \in Controls |-> IF c \in IsA("volatile") THEN "observe" ELSE h[c]]

\* How far a profile saves energy; background processes are taken to start at
\* a priority above those of the profiles.
Rank == [observe |-> 0, balanced |-> 1, eco |-> 2, other |-> 3]

\* Where plan() and apply() take a control: a priority is only ever lowered, a
\* power limit is a share of the one the process found when it started, and
\* "balanced" does nothing to schedulers and to polling.
Reached(c) ==
    CASE KindOf[c] = "priority" -> IF Rank[host[c]] > Rank[target] THEN host[c] ELSE target
      [] KindOf[c] = "power" -> IF c \in shifted THEN "other" ELSE target
      [] KindOf[c] \in {"scheduler", "polling"} -> IF target = "eco" THEN target ELSE host[c]
      [] OTHER -> target

\* verify(), of a control that was taken there: only the scheduler's looks for
\* one that should not be running.
Verifies(c) == c \in IsA("scheduler") /\ target # "eco" => host[c] = "observe"

\* A scheduler is a process: another one started beside it fails to load, and
\* the first is forgotten.
Spawned(c) ==
    IF c \in IsA("scheduler") /\ target = "eco"
    THEN IF host[c] = "observe" THEN mine \cup {c} ELSE mine \ {c}
    ELSE mine

\* What rollback() makes of a control: a scheduler is ended, whatever the
\* snapshot says, if its process is held, and stays otherwise; the answer says
\* so, and the caller does not read it.
RolledBack(c, snapshot) ==
    IF c \notin IsA("scheduler") THEN snapshot
    ELSE IF c \in mine THEN "observe" ELSE host[c]
-----------------------------------------------------------------------------
(* The process.                                                            *)

\* restore() returns at once without a file; else it goes through the
\* controls, and fails beforehand if the file names others.
BeginRestore(A, next) ==
    IF file = "absent"
    THEN /\ phase' = next
         /\ answered' = "observe"
         /\ todo' = {}
         /\ UNCHANGED <<passed, after>>
    ELSE /\ phase' = "restoring"
         /\ todo' = A
         /\ passed' = (DOMAIN saved \subseteq A)
         /\ after' = next
         /\ UNCHANGED answered

\* Mutant: what a crash left is not restored.
StartAfresh(A) ==
    /\ phase = "down"
    /\ file # "torn"
    /\ approved' = A
    /\ snaps' = [c \in A |-> "observe"]
    /\ applied' = {}
    /\ mine' = {}
    /\ shifted' = {c \in A \cap IsA("power") : host[c] # "observe"}
    /\ answered' = "unknown"
    /\ phase' = "idle"
    /\ todo' = {}
    /\ UNCHANGED <<host, fileVars, target, passed, after, boundVars>>

\* The process registers, learns which controls are approved, reads the power
\* limits and restores; a file it cannot parse keeps it registering.
Start(A) ==
    /\ phase = "down"
    /\ file # "torn"
    /\ approved' = A
    /\ snaps' = [c \in A |-> "observe"]
    /\ applied' = {}
    /\ mine' = {}
    /\ shifted' = {c \in A \cap IsA("power") : host[c] # "observe"}
    /\ BeginRestore(A, "idle")
    /\ UNCHANGED <<host, fileVars, target, boundVars>>

\* It dies; the snapshot file is not written atomically.
Crash ==
    /\ phase # "down"
    /\ crashes < MaxCrashes
    /\ crashes' = crashes + 1
    /\ phase' = "down"
    /\ host' = Deserted(host)
    /\ file' \in IF phase = "writing" THEN {file, "torn"} ELSE {file}
    /\ UNCHANGED <<saved, answered, target, snaps, todo, applied, mine, passed, lifeVars,
                   faults>>
-----------------------------------------------------------------------------
(* apply().                                                                *)

\* Mutant: controls that are not approved are applied as well.
ApplyToAll(p) ==
    /\ phase = "idle"
    /\ target' = p
    /\ snaps' = [c \in Controls |-> host[c]]
    /\ todo' = Controls
    /\ applied' = {}
    /\ phase' = IF file = "absent" THEN "writing" ELSE "applying"
    /\ UNCHANGED <<host, fileVars, answered, mine, passed, lifeVars, boundVars>>

\* Mutant: every apply() records the settings it finds.
ApplyOverwriting(p) ==
    /\ phase = "idle"
    /\ target' = p
    /\ snaps' = [c \in approved |-> host[c]]
    /\ todo' = approved
    /\ applied' = {}
    /\ phase' = "writing"
    /\ UNCHANGED <<host, fileVars, answered, mine, passed, lifeVars, boundVars>>

\* The snapshots are taken; they are written to the file unless there is one.
Apply(p) ==
    /\ phase = "idle"
    /\ target' = p
    /\ snaps' = [c \in approved |-> host[c]]
    /\ todo' = approved
    /\ applied' = {}
    /\ phase' = IF file = "absent" THEN "writing" ELSE "applying"
    /\ UNCHANGED <<host, fileVars, answered, mine, passed, lifeVars, boundVars>>

WriteSnapshot ==
    /\ phase = "writing"
    /\ file' = "whole"
    /\ saved' = snaps
    /\ phase' = "applying"
    /\ UNCHANGED <<host, answered, target, snaps, todo, applied, mine, passed, lifeVars,
                   boundVars>>

\* The next control is applied and verified.
ApplyControl(c) ==
    /\ phase = "applying"
    /\ First(todo, c)
    /\ Verifies(c)
    /\ host' = [host EXCEPT ![c] = Reached(c)]
    /\ mine' = Spawned(c)
    /\ todo' = todo \ {c}
    /\ applied' = applied \cup {c}
    /\ UNCHANGED <<fileVars, answered, phase, target, snaps, passed, lifeVars, boundVars>>

\* Mutant: a control counts as applied only once apply() has returned.
ApplyControlFailsUntracked(c) ==
    /\ phase = "applying"
    /\ First(todo, c)
    /\ \E s \in {host[c], Reached(c)} : host' = [host EXCEPT ![c] = s]
    /\ mine' \in {mine, Spawned(c)}
    /\ phase' = "undoing"
    /\ UNCHANGED <<fileVars, answered, target, snaps, todo, applied, passed, lifeVars,
                   boundVars>>

\* It raises, half done or not, or does not verify.
ApplyControlFails(c) ==
    /\ phase = "applying"
    /\ First(todo, c)
    /\ \E s \in {host[c], Reached(c)} : host' = [host EXCEPT ![c] = s]
    /\ mine' \in {mine, Spawned(c)}
    /\ applied' = applied \cup {c}
    /\ phase' = "undoing"
    /\ UNCHANGED <<fileVars, answered, target, snaps, todo, passed, lifeVars, boundVars>>

ApplyPasses ==
    /\ phase = "applying"
    /\ todo = {}
    /\ answered' = target
    /\ phase' = "idle"
    /\ UNCHANGED <<host, fileVars, target, snaps, todo, applied, mine, passed, lifeVars,
                   boundVars>>

\* The controls touched are rolled back to their snapshots, last to first.
Undo(c) ==
    /\ phase = "undoing"
    /\ Last(applied, c)
    /\ host' = [host EXCEPT ![c] = RolledBack(c, snaps[c])]
    /\ mine' = mine \ {c}
    /\ applied' = applied \ {c}
    /\ UNCHANGED <<fileVars, answered, phase, target, snaps, todo, passed, lifeVars,
                   boundVars>>

\* A rollback that raises here, done or not, leaves the rest: it ends the agent,
\* by way of its last restore(), or the benchmark, whose restore() comes later.
UndoRaises(c) ==
    /\ phase = "undoing"
    /\ Last(applied, c)
    /\ faults < MaxFaults
    /\ faults' = faults + 1
    /\ \E s \in {host[c], RolledBack(c, snaps[c])} : host' = [host EXCEPT ![c] = s]
    /\ \/ BeginRestore(approved, "down")
       \/ /\ phase' = "idle"
          /\ answered' = "unknown"
          /\ UNCHANGED <<todo, passed, after>>
    /\ UNCHANGED <<fileVars, target, snaps, applied, mine, approved, shifted, crashes>>

\* The answer is that nothing has changed.
ApplyFails ==
    /\ phase = "undoing"
    /\ applied = {}
    /\ phase' = "idle"
    /\ UNCHANGED <<host, fileVars, answered, target, snaps, todo, applied, mine, passed,
                   lifeVars, boundVars>>
-----------------------------------------------------------------------------
(* restore().                                                              *)

\* The server wants "off" or "observe", a benchmark begins or ends, or the agent
\* sees a guardrail breached, its heartbeats unanswered for half a minute or its
\* GPU too hot.
Restore ==
    /\ phase = "idle"
    /\ BeginRestore(approved, "idle")
    /\ UNCHANGED <<host, fileVars, target, snaps, applied, mine, approved, shifted, boundVars>>

\* SIGTERM, or an error that ends the agent between transactions.
Stop ==
    /\ phase = "idle"
    /\ BeginRestore(approved, "down")
    /\ host' = IF file = "absent" THEN Deserted(host) ELSE host
    /\ UNCHANGED <<fileVars, target, snaps, applied, mine, approved, shifted, boundVars>>

\* The next control, last to first, is rolled back; one the file does not
\* know raises a KeyError.
RestoreControl(c) ==
    /\ phase = "restoring"
    /\ Last(todo, c)
    /\ todo' = todo \ {c}
    /\ IF c \in DOMAIN saved
       THEN /\ host' = [host EXCEPT ![c] = RolledBack(c, saved[c])]
            /\ mine' = mine \ {c}
            /\ UNCHANGED passed
       ELSE /\ passed' = FALSE
            /\ UNCHANGED <<host, mine>>
    /\ UNCHANGED <<fileVars, answered, phase, target, snaps, applied, lifeVars, boundVars>>

\* The rollback raises, done or not.
RestoreControlRaises(c) ==
    /\ phase = "restoring"
    /\ Last(todo, c)
    /\ c \in DOMAIN saved
    /\ faults < MaxFaults
    /\ faults' = faults + 1
    /\ \E s \in {host[c], RolledBack(c, saved[c])} : host' = [host EXCEPT ![c] = s]
    /\ todo' = todo \ {c}
    /\ passed' = FALSE
    /\ UNCHANGED <<fileVars, answered, phase, target, snaps, applied, mine, lifeVars, crashes>>

\* The file is removed if everything passed.
EndRestore ==
    /\ phase = "restoring"
    /\ todo = {}
    /\ file' = IF passed THEN "absent" ELSE file
    /\ answered' = IF passed THEN "observe" ELSE "unknown"
    /\ phase' = after
    /\ host' = IF after = "down" THEN Deserted(host) ELSE host
    /\ UNCHANGED <<saved, target, snaps, todo, applied, mine, passed, lifeVars, boundVars>>
-----------------------------------------------------------------------------
Applying ==
    \/ WriteSnapshot \/ ApplyPasses \/ ApplyFails
    \/ \E c \in Controls : ApplyControl(c) \/ ApplyControlFails(c) \/ Undo(c) \/ UndoRaises(c)

Restoring ==
    EndRestore \/ \E c \in Controls : RestoreControl(c) \/ RestoreControlRaises(c)

Next ==
    \/ \E A \in Approvals : Start(A)
    \/ Crash \/ Stop \/ Restore
    \/ \E p \in Profiles : Apply(p)
    \/ Applying \/ Restoring

Spec == Init /\ [][Next]_vars

\* The agent is started again, and the calls of a transaction return.
Fairness ==
    /\ WF_vars(\E A \in Approvals : Start(A))
    /\ WF_vars(Applying)
    /\ WF_vars(Restoring)

FairSpec == Spec /\ Fairness
-----------------------------------------------------------------------------
(* What the snapshot file takes for granted, and the code does not check.  *)

\* No control is approved that the file in use does not know.
FileCovers == file = "whole" /\ phase # "down" => approved \subseteq DOMAIN saved

\* The settings the agent can put back itself: a scheduler is undone only by the
\* process that loaded it, while that holds its process.
Held == Controls \ IsA("scheduler")
-----------------------------------------------------------------------------
(* Properties.                                                             *)

\* However the agent fails or dies, what it changed can be changed back: of
\* every setting that is not the original one, the file records the original.
OriginalIsKnown ==
    \A c \in Held : host[c] # "observe" =>
        /\ file = "whole"
        /\ c \in DOMAIN saved
        /\ saved[c] = "observe"

\* A control that stands at a setting keeps to a profile: exactly, or at a
\* priority no higher, or at a share of the power limit the agent found; only
\* "eco" says anything of polling.
KeepsTo(c, setting, profile) ==
    IF profile = "observe" THEN setting = "observe"
    ELSE CASE KindOf[c] = "priority" -> Rank[setting] >= Rank[profile]
           [] KindOf[c] = "power" -> setting = IF c \in shifted THEN "other" ELSE profile
           [] KindOf[c] = "polling" -> profile = "eco" => setting = "eco"
           [] OTHER -> setting = profile

\* "Transactional", all or nothing: between transactions every approved control
\* keeps to the profile the last answer was about: the one applied, the one
\* before when an application failed, or "observe" after a restoration.  After
\* one that did not pass nothing is claimed, until a transaction passes.
AnsweredIsApplied ==
    phase = "idle" /\ answered # "unknown" =>
        \A c \in approved \cap Held : KeepsTo(c, host[c], answered)

\* The host is back at its original settings some time after the agent ended
\* or died, unless a rollback has raised.
Restored == \A c \in Held : host[c] = "observe"
HostIsRestored == phase = "down" ~> (Restored \/ faults > 0)
=============================================================================
