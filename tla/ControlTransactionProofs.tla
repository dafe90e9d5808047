---------------------- MODULE ControlTransactionProofs ----------------------
(***************************************************************************)
(* Proofs about ControlTransaction, for any controls of any kinds, any     *)
(* approvals and bounds.                                                   *)
(***************************************************************************)
EXTENDS ControlTransaction, TLAPS

\* The agent finds the same controls approved whenever it starts.
SameApproval == \E A \in SUBSET Controls : Approvals = {A}

\* What the file and the host owe to each other, phase by phase.
FileFits ==
    /\ file = "whole" => \A c \in Held \cap DOMAIN saved : saved[c] = "observe"
    /\ file = "whole" => \A c \in Held \ DOMAIN saved : host[c] = "observe"
    /\ file # "whole" => Restored
    /\ phase = "writing" =>
          file = "absent" /\ \A c \in approved \cap Held : snaps[c] = "observe"
    /\ phase \in {"applying", "undoing", "restoring"} => file = "whole"
    /\ phase # "down" => file # "torn"
    /\ phase = "restoring" /\ passed =>
          /\ DOMAIN saved \subseteq approved
          /\ \A c \in (approved \cap Held) \ todo : host[c] = "observe"

\* Where the controls stand while a profile is applied and undone.
HostFits ==
    /\ AnsweredIsApplied
    /\ phase \in {"writing", "applying", "undoing"} =>
          /\ target \in Profiles
          /\ \A c \in approved \cap Held :
                answered # "unknown" => KeepsTo(c, snaps[c], answered)
    /\ phase \in {"writing", "applying"} =>
          /\ applied = approved \ todo
          /\ \A c \in todo : host[c] = snaps[c]
    /\ phase = "writing" => todo = approved
    /\ phase = "applying" => \A c \in (approved \cap Held) \ todo : KeepsTo(c, host[c], target)
    /\ phase = "undoing" => \A c \in (approved \cap Held) \ applied : host[c] = snaps[c]

-----------------------------------------------------------------------------
\* A control is taken to one of the settings.
LEMMA ReachedIsSetting ==
    ASSUME TypeOK, NEW c \in Controls
    PROVE  Reached(c) \in Settings
<1>1. host[c] \in Settings /\ target \in Settings
  BY DEF TypeOK, Settings
<1>2. QED
  BY <1>1 DEF Reached, Settings

\* Every step keeps the types.
LEMMA TypeStep ==
    ASSUME TypeOK, [Next]_vars
    PROVE  TypeOK'
<1>1. ASSUME NEW A \in Approvals, Start(A) PROVE TypeOK'
  BY <1>1, ApprovalsAssumption DEF Start, BeginRestore, TypeOK, Settings, boundVars,
      fileVars
<1>2. CASE Crash
  BY <1>2, KindsAssumption, BoundsAssumption
  DEF Crash, Deserted, TypeOK, Settings, lifeVars
<1>3. CASE Stop
  <2>1. Deserted(host) \in [Controls -> Settings]
    BY DEF Deserted, TypeOK, Settings
  <2>2. host' \in [Controls -> Settings]
    BY <1>3, <2>1 DEF Stop, TypeOK
  <2>3. QED
    BY <1>3, <2>2 DEF Stop, BeginRestore, TypeOK, Settings, boundVars, fileVars
<1>4. CASE Restore
  BY <1>4 DEF Restore, BeginRestore, TypeOK, Settings, boundVars, fileVars
<1>5. ASSUME NEW p \in Profiles, Apply(p) PROVE TypeOK'
  BY <1>5 DEF Apply, TypeOK, Settings, lifeVars, boundVars, fileVars
<1>6. CASE WriteSnapshot
  BY <1>6 DEF WriteSnapshot, TypeOK, Settings, Snapshots, lifeVars, boundVars
<1>7. CASE ApplyPasses
  <2>1. answered' \in {"observe", "unknown"} \cup Profiles
    BY <1>7 DEF ApplyPasses, TypeOK
  <2>2. QED
    BY <1>7, <2>1 DEF ApplyPasses, TypeOK, Settings, lifeVars, boundVars, fileVars
<1>8. CASE ApplyFails
  BY <1>8 DEF ApplyFails, TypeOK, Settings, lifeVars, boundVars, fileVars
<1>9. ASSUME NEW c \in Controls, ApplyControl(c) PROVE TypeOK'
  <2>1. host' \in [Controls -> Settings]
    BY <1>9, ReachedIsSetting DEF ApplyControl, TypeOK
  <2>2. c \in approved /\ mine' \in SUBSET approved
    BY <1>9 DEF ApplyControl, First, Spawned, TypeOK
  <2>3. QED
    BY <1>9, <2>1, <2>2 DEF ApplyControl, TypeOK, fileVars, lifeVars, boundVars
<1>10. ASSUME NEW c \in Controls, ApplyControlFails(c) PROVE TypeOK'
  <2>1. host' \in [Controls -> Settings]
    BY <1>10, ReachedIsSetting DEF ApplyControlFails, TypeOK
  <2>2. c \in approved /\ mine' \in SUBSET approved
    BY <1>10 DEF ApplyControlFails, First, Spawned, TypeOK
  <2>3. QED
    BY <1>10, <2>1, <2>2 DEF ApplyControlFails, TypeOK, fileVars, lifeVars, boundVars
<1>11. ASSUME NEW c \in Controls, Undo(c) PROVE TypeOK'
  <2>1. RolledBack(c, snaps[c]) \in Settings
    BY <1>11 DEF Undo, Last, RolledBack, TypeOK, Settings
  <2>2. QED
    BY <1>11, <2>1 DEF Undo, TypeOK, lifeVars, boundVars, fileVars
<1>12. ASSUME NEW c \in Controls, UndoRaises(c) PROVE TypeOK'
  <2>1. faults' \in 0..MaxFaults
    BY <1>12, BoundsAssumption DEF UndoRaises, TypeOK
  <2>2. RolledBack(c, snaps[c]) \in Settings
    BY <1>12 DEF UndoRaises, Last, RolledBack, TypeOK, Settings
  <2>3. host' \in [Controls -> Settings]
    BY <1>12, <2>2 DEF UndoRaises, TypeOK
  <2>4. QED
    BY <1>12, <2>1, <2>3 DEF UndoRaises, BeginRestore, TypeOK, fileVars
<1>13. CASE EndRestore
  <2>1. Deserted(host) \in [Controls -> Settings]
    BY DEF Deserted, TypeOK, Settings
  <2>2. host' \in [Controls -> Settings]
    BY <1>13, <2>1 DEF EndRestore, TypeOK
  <2>3. QED
    BY <1>13, <2>2 DEF EndRestore, TypeOK, lifeVars, boundVars
<1>14. ASSUME NEW c \in Controls, RestoreControl(c) PROVE TypeOK'
  <2>1. PICK A \in SUBSET Controls : saved \in [A -> Settings]
    BY DEF TypeOK, Snapshots
  <2>2. c \in DOMAIN saved => RolledBack(c, saved[c]) \in Settings
    BY <2>1 DEF RolledBack, TypeOK, Settings
  <2>3. host' \in [Controls -> Settings]
    BY <1>14, <2>2 DEF RestoreControl, TypeOK
  <2>4. mine' \in SUBSET approved
    BY <1>14 DEF RestoreControl, TypeOK
  <2>5. QED
    BY <1>14, <2>3, <2>4 DEF RestoreControl, TypeOK, lifeVars, boundVars, fileVars
<1>15. ASSUME NEW c \in Controls, RestoreControlRaises(c) PROVE TypeOK'
  <2>1. faults' \in 0..MaxFaults
    BY <1>15, BoundsAssumption DEF RestoreControlRaises, TypeOK
  <2>2. PICK A \in SUBSET Controls : saved \in [A -> Settings]
    BY DEF TypeOK, Snapshots
  <2>3. RolledBack(c, saved[c]) \in Settings
    BY <1>15, <2>2 DEF RestoreControlRaises, RolledBack, TypeOK, Settings
  <2>4. host' \in [Controls -> Settings]
    BY <1>15, <2>3 DEF RestoreControlRaises, TypeOK
  <2>5. QED
    BY <1>15, <2>1, <2>4 DEF RestoreControlRaises, TypeOK, fileVars, lifeVars
<1>16. CASE UNCHANGED vars
  BY <1>16 DEF vars, TypeOK, Settings, lifeVars, boundVars, fileVars
<1>17. QED
  BY <1>1, <1>2, <1>3, <1>4, <1>5, <1>6, <1>7, <1>8, <1>9, <1>10, <1>11, <1>12, <1>13,
      <1>14, <1>15, <1>16
  DEF Next, Applying, Restoring

\* Where a restoration begins, or ends at once.
LEMMA BeginIs ==
    ASSUME NEW A, NEW next, BeginRestore(A, next)
    PROVE  /\ file = "absent" => phase' = next /\ answered' = "observe"
           /\ file # "absent" => /\ phase' = "restoring" /\ todo' = A
                                /\ passed' = (DOMAIN saved \subseteq A)
  BY DEF BeginRestore

\* Every step keeps file and host in agreement.
LEMMA FileStep ==
    ASSUME TypeOK, FileFits, FileCovers, [Next]_vars
    PROVE  FileFits'
<1>0. /\ saved \in [DOMAIN saved -> Settings] /\ DOMAIN saved \subseteq Controls
      /\ Held \subseteq Controls
  BY DEF TypeOK, Snapshots, Held
<1>60. ASSUME host' = host \/ host' = Deserted(host)
       PROVE  \A c \in Held : host[c] = "observe" => host'[c] = "observe"
  BY <1>0, <1>60 DEF Deserted
<1>61. ASSUME NEW c \in Controls, file = "whole", c \in DOMAIN saved,
              \A d \in Controls \ {c} : host'[d] = host[d],
              UNCHANGED <<file, saved>>, phase' \in {"applying", "undoing", "idle"}
       PROVE  FileFits'
  BY <1>0, <1>61 DEF FileFits
<1>1. ASSUME NEW A \in Approvals, Start(A) PROVE FileFits'
  <2>1. /\ phase = "down" /\ file # "torn" /\ BeginRestore(A, "idle") /\ approved' = A
        /\ UNCHANGED <<host, file, saved>> /\ A \subseteq Controls
    BY <1>1, ApprovalsAssumption DEF Start, fileVars
  <2>2. CASE file = "absent"
    <3>1. phase' = "idle"
      BY <2>1, <2>2, BeginIs
    <3>2. QED
      BY <2>1, <2>2, <3>1 DEF FileFits, Restored
  <2>3. CASE file # "absent"
    <3>1. phase' = "restoring" /\ todo' = A /\ passed' = (DOMAIN saved \subseteq A)
      BY <2>1, <2>3, BeginIs
    <3>2. file = "whole"
      BY <2>1, <2>3 DEF TypeOK
    <3>3. QED
      BY <2>1, <3>1, <3>2 DEF FileFits
  <2>4. QED
    BY <2>2, <2>3
<1>2. CASE Crash
  <2>1. phase' = "down" /\ host' = Deserted(host) /\ saved' = saved
    BY <1>2 DEF Crash
  <2>2. file' = file \/ (file = "absent" /\ file' = "torn")
    BY <1>2 DEF Crash, FileFits
  <2>3. QED
    BY <1>0, <1>60, <2>1, <2>2 DEF FileFits, Restored
<1>3. ASSUME NEW next \in {"idle", "down"}, BeginRestore(approved, next), phase = "idle",
             host' = host \/ host' = Deserted(host), UNCHANGED <<file, saved, approved>>
      PROVE  FileFits'
  <2>1. CASE file = "absent"
    BY <1>0, <1>3, <1>60, <2>1, BeginIs DEF FileFits, Restored
  <2>2. CASE file # "absent"
    <3>1. /\ phase' = "restoring" /\ todo' = approved
          /\ passed' = (DOMAIN saved \subseteq approved)
      BY <1>3, <2>2, BeginIs
    <3>2. file = "whole"
      BY <1>3, <2>2 DEF TypeOK, FileFits
    <3>3. QED
      BY <1>0, <1>3, <1>60, <3>1, <3>2 DEF FileFits
  <2>3. QED
    BY <2>1, <2>2
<1>4. CASE Restore \/ Stop
  BY <1>3, <1>4 DEF Restore, Stop, fileVars
<1>5. ASSUME NEW p \in Profiles, Apply(p) PROVE FileFits'
  <2>1. /\ phase = "idle" /\ UNCHANGED <<host, file, saved, approved>>
        /\ snaps' = [c \in approved |-> host[c]]
        /\ phase' = IF file = "absent" THEN "writing" ELSE "applying"
    BY <1>5 DEF Apply, fileVars, lifeVars
  <2>2. \A c \in approved : snaps'[c] = host[c]
    BY <2>1
  <2>3. QED
    BY <1>0, <2>1, <2>2 DEF TypeOK, FileFits, Restored
<1>6. CASE WriteSnapshot
  <2>1. /\ phase = "writing" /\ phase' = "applying" /\ file' = "whole" /\ saved' = snaps
        /\ UNCHANGED <<host, approved, snaps>>
    BY <1>6 DEF WriteSnapshot, lifeVars
  <2>2. DOMAIN snaps = approved
    BY DEF TypeOK
  <2>3. QED
    BY <1>0, <2>1, <2>2 DEF FileFits, Restored
<1>7. CASE ApplyPasses \/ ApplyFails
  BY <1>0, <1>7 DEF ApplyPasses, ApplyFails, FileFits, Restored, lifeVars, fileVars
<1>8. ASSUME NEW c \in Controls, ApplyControl(c) \/ ApplyControlFails(c) \/ Undo(c)
      PROVE  FileFits'
  <2>1. phase \in {"applying", "undoing"} /\ c \in approved
    BY <1>8 DEF ApplyControl, ApplyControlFails, Undo, First, Last, TypeOK
  <2>2. file = "whole" /\ c \in DOMAIN saved
    BY <2>1 DEF FileFits, FileCovers
  <2>3. \A d \in Controls \ {c} : host'[d] = host[d]
    BY <1>8 DEF ApplyControl, ApplyControlFails, Undo, TypeOK
  <2>4. UNCHANGED <<file, saved>> /\ phase' \in {"applying", "undoing"}
    BY <1>8 DEF ApplyControl, ApplyControlFails, Undo, fileVars
  <2>5. QED
    BY <1>61, <2>2, <2>3, <2>4
<1>9. ASSUME NEW c \in Controls, UndoRaises(c) PROVE FileFits'
  <2>1. phase = "undoing" /\ c \in approved
    BY <1>9 DEF UndoRaises, Last, TypeOK
  <2>2. file = "whole" /\ c \in DOMAIN saved
    BY <2>1 DEF FileFits, FileCovers
  <2>3. \A d \in Controls \ {c} : host'[d] = host[d]
    BY <1>9 DEF UndoRaises, TypeOK
  <2>4. UNCHANGED <<file, saved, approved>>
    BY <1>9 DEF UndoRaises, fileVars
  <2>5. CASE BeginRestore(approved, "down")
    <3>1. /\ phase' = "restoring" /\ todo' = approved
          /\ passed' = (DOMAIN saved \subseteq approved)
      BY <2>2, <2>5, BeginIs
    <3>2. QED
      BY <1>0, <2>2, <2>3, <2>4, <3>1 DEF FileFits
  <2>6. CASE phase' = "idle"
    BY <1>61, <2>2, <2>3, <2>4, <2>6
  <2>7. QED
    BY <1>9, <2>5, <2>6 DEF UndoRaises
<1>13. CASE EndRestore
  <2>1. /\ phase = "restoring" /\ todo = {} /\ phase' \in {"idle", "down"} /\ saved' = saved
        /\ file' = IF passed THEN "absent" ELSE file
        /\ host' = host \/ host' = Deserted(host)
    BY <1>13 DEF EndRestore, TypeOK
  <2>2. passed => Restored
    BY <1>0, <2>1 DEF FileFits, Restored
  <2>3. QED
    BY <1>0, <1>60, <2>1, <2>2 DEF FileFits, Restored
<1>14. ASSUME NEW c \in Controls, RestoreControl(c) PROVE FileFits'
  <2>1. /\ phase = "restoring" /\ file = "whole" /\ c \in todo /\ todo' = todo \ {c}
        /\ UNCHANGED <<file, saved, approved, phase>>
    BY <1>14 DEF RestoreControl, Last, FileFits, fileVars, lifeVars
  <2>2. \A d \in Controls \ {c} : host'[d] = host[d]
    BY <1>14 DEF RestoreControl, TypeOK
  <2>3. CASE c \in DOMAIN saved
    <3>1. host'[c] = RolledBack(c, saved[c]) /\ passed' = passed
      BY <1>14, <2>3 DEF RestoreControl, TypeOK
    <3>2. c \in Held => host'[c] = "observe"
      BY <2>1, <2>3, <3>1 DEF RolledBack, Held, FileFits
    <3>3. QED
      BY <1>0, <2>1, <2>2, <2>3, <3>1, <3>2 DEF FileFits
  <2>4. CASE c \notin DOMAIN saved
    <3>1. host' = host /\ passed' = FALSE
      BY <1>14, <2>4 DEF RestoreControl
    <3>2. QED
      BY <2>1, <3>1 DEF FileFits
  <2>5. QED
    BY <2>3, <2>4
<1>15. ASSUME NEW c \in Controls, RestoreControlRaises(c) PROVE FileFits'
  <2>1. /\ phase = "restoring" /\ file = "whole" /\ c \in DOMAIN saved /\ passed' = FALSE
        /\ UNCHANGED <<file, saved, approved, phase>>
    BY <1>15 DEF RestoreControlRaises, FileFits, fileVars, lifeVars
  <2>2. \A d \in Controls \ {c} : host'[d] = host[d]
    BY <1>15 DEF RestoreControlRaises, TypeOK
  <2>3. QED
    BY <1>0, <2>1, <2>2 DEF FileFits
<1>16. CASE UNCHANGED vars
  BY <1>0, <1>16 DEF vars, FileFits, Restored, lifeVars, fileVars
<1>17. QED
  BY <1>1, <1>2, <1>4, <1>5, <1>6, <1>7, <1>8, <1>9, <1>13, <1>14, <1>15, <1>16
  DEF Next, Applying, Restoring

\* Every control keeps to its original, and one that was applied and verified
\* to the profile.
LEMMA ReachedKeepsTo ==
    ASSUME TypeOK, target \in Profiles, NEW c \in Held
    PROVE  KeepsTo(c, Reached(c), target)
<1>1. /\ host[c] \in Settings /\ target \in {"balanced", "eco"}
      /\ c \in Controls /\ KindOf[c] # "scheduler"
  BY ProfilesAssumption DEF TypeOK, Held, IsA
<1>2. CASE KindOf[c] = "priority"
  <2>1. Rank[host[c]] \in Nat /\ Rank[target] \in Nat
    BY <1>1, ProfilesAssumption DEF Rank, Settings
  <2>2. Reached(c) = IF Rank[host[c]] > Rank[target] THEN host[c] ELSE target
    BY <1>2 DEF Reached
  <2>3. QED
    BY <1>1, <1>2, <2>1, <2>2 DEF KeepsTo
<1>3. CASE KindOf[c] = "power"
  BY <1>1, <1>3 DEF KeepsTo, Reached
<1>4. CASE KindOf[c] = "polling"
  BY <1>1, <1>4 DEF KeepsTo, Reached
<1>5. CASE KindOf[c] \notin {"priority", "power", "polling", "scheduler"}
  BY <1>1, <1>5 DEF KeepsTo, Reached
<1>6. QED
  BY <1>1, <1>2, <1>3, <1>4, <1>5

LEMMA HostStep ==
    ASSUME TypeOK, FileFits, HostFits, FileCovers, FileCovers', [Next]_vars
    PROVE  HostFits'
<1>0. Held \subseteq Controls /\ approved \subseteq Controls /\ todo \subseteq approved
  BY DEF TypeOK, Held
<1>60. ASSUME phase' \in {"down", "restoring"} PROVE HostFits'
  BY <1>60 DEF HostFits, AnsweredIsApplied
<1>61. ASSUME Restored', phase' = "idle", answered' = "observe" PROVE HostFits'
  BY <1>61 DEF HostFits, AnsweredIsApplied, KeepsTo, Restored
<1>62. ASSUME shifted' = shifted, NEW c, NEW s, NEW p
       PROVE  KeepsTo(c, s, p) = KeepsTo(c, s, p)'
  BY <1>62 DEF KeepsTo
<1>1. ASSUME NEW A \in Approvals, Start(A) PROVE HostFits'
  <2>1. BeginRestore(A, "idle") /\ host' = host
    BY <1>1 DEF Start
  <2>2. CASE file = "absent"
    <3>1. Restored /\ phase' = "idle" /\ answered' = "observe"
      BY <2>1, <2>2, BeginIs DEF FileFits
    <3>2. QED
      BY <1>61, <2>1, <3>1 DEF Restored
  <2>3. CASE file # "absent"
    BY <1>60, <2>1, <2>3, BeginIs
  <2>4. QED
    BY <2>2, <2>3
<1>2. CASE Crash
  BY <1>2, <1>60 DEF Crash
<1>3. CASE Stop
  BY <1>3, <1>60, BeginIs DEF Stop
<1>4. CASE Restore
  <2>1. BeginRestore(approved, "idle") /\ host' = host
    BY <1>4 DEF Restore
  <2>2. CASE file = "absent"
    <3>1. Restored /\ phase' = "idle" /\ answered' = "observe"
      BY <2>1, <2>2, BeginIs DEF FileFits
    <3>2. QED
      BY <1>61, <2>1, <3>1 DEF Restored
  <2>3. CASE file # "absent"
    BY <1>60, <2>1, <2>3, BeginIs
  <2>4. QED
    BY <2>2, <2>3
<1>5. ASSUME NEW p \in Profiles, Apply(p) PROVE HostFits'
  <2>1. /\ phase = "idle" /\ phase' \in {"writing", "applying"} /\ target' = p
        /\ todo' = approved /\ applied' = {} /\ snaps' = [c \in approved |-> host[c]]
        /\ UNCHANGED <<host, answered, approved, shifted>>
    BY <1>5 DEF Apply, lifeVars
  <2>2. \A c \in approved : snaps'[c] = host[c]
    BY <2>1
  <2>3. QED
    BY <1>0, <1>62, <2>1, <2>2 DEF HostFits, AnsweredIsApplied
<1>6. CASE WriteSnapshot
  <2>1. /\ phase = "writing" /\ phase' = "applying"
        /\ UNCHANGED <<host, answered, target, snaps, todo, applied, approved, shifted>>
    BY <1>6 DEF WriteSnapshot, lifeVars
  <2>2. QED
    BY <1>62, <2>1 DEF HostFits, AnsweredIsApplied
<1>7. CASE ApplyPasses
  <2>1. /\ phase = "applying" /\ phase' = "idle" /\ todo = {} /\ answered' = target
        /\ UNCHANGED <<host, approved, shifted>>
    BY <1>7 DEF ApplyPasses, lifeVars
  <2>2. QED
    BY <1>62, <2>1 DEF HostFits, AnsweredIsApplied
<1>8. CASE ApplyFails
  <2>1. /\ phase = "undoing" /\ phase' = "idle" /\ applied = {}
        /\ UNCHANGED <<host, answered, approved, shifted>>
    BY <1>8 DEF ApplyFails, lifeVars
  <2>2. \A c \in approved \cap Held : host[c] = snaps[c]
    BY <2>1 DEF HostFits
  <2>3. QED
    BY <1>62, <2>1, <2>2 DEF HostFits, AnsweredIsApplied
<1>9. ASSUME NEW c \in Controls, ApplyControl(c) PROVE HostFits'
  <2>1. /\ phase = "applying" /\ phase' = "applying" /\ c \in todo /\ todo' = todo \ {c}
        /\ applied' = applied \cup {c}
        /\ UNCHANGED <<answered, target, snaps, approved, shifted>>
    BY <1>9 DEF ApplyControl, First, lifeVars
  <2>2. host'[c] = Reached(c) /\ \A d \in Controls \ {c} : host'[d] = host[d]
    BY <1>9 DEF ApplyControl, TypeOK
  <2>3. c \in Held => KeepsTo(c, Reached(c), target)
    BY <2>1, ReachedKeepsTo DEF HostFits
  <2>4. \A d \in (approved \cap Held) \ todo' : KeepsTo(d, host'[d], target)
    BY <1>0, <2>1, <2>2, <2>3 DEF HostFits
  <2>5. applied' = approved \ todo' /\ \A d \in todo' : host'[d] = snaps[d]
    BY <1>0, <2>1, <2>2 DEF HostFits
  <2>6. QED
    BY <1>62, <2>1, <2>4, <2>5 DEF HostFits, AnsweredIsApplied
<1>10. ASSUME NEW c \in Controls, ApplyControlFails(c) PROVE HostFits'
  <2>1. /\ phase = "applying" /\ phase' = "undoing" /\ applied' = applied \cup {c}
        /\ UNCHANGED <<answered, target, snaps, approved, shifted>>
    BY <1>10 DEF ApplyControlFails, lifeVars
  <2>2. \A d \in Controls \ {c} : host'[d] = host[d]
    BY <1>10 DEF ApplyControlFails, TypeOK
  <2>3. \A d \in approved \ applied' : host'[d] = snaps[d]
    BY <1>0, <2>1, <2>2 DEF HostFits
  <2>4. QED
    BY <1>62, <2>1, <2>3 DEF HostFits, AnsweredIsApplied
<1>11. ASSUME NEW c \in Controls, Undo(c) PROVE HostFits'
  <2>1. /\ phase = "undoing" /\ phase' = "undoing" /\ applied' = applied \ {c}
        /\ UNCHANGED <<answered, target, snaps, approved, shifted>>
    BY <1>11 DEF Undo, lifeVars
  <2>2. host'[c] = RolledBack(c, snaps[c]) /\ \A d \in Controls \ {c} : host'[d] = host[d]
    BY <1>11 DEF Undo, TypeOK
  <2>3. c \in Held => host'[c] = snaps[c]
    BY <2>2 DEF RolledBack, Held
  <2>4. \A d \in (approved \cap Held) \ applied' : host'[d] = snaps[d]
    BY <1>0, <2>1, <2>2, <2>3 DEF HostFits
  <2>5. QED
    BY <1>62, <2>1, <2>4 DEF HostFits, AnsweredIsApplied
<1>12. ASSUME NEW c \in Controls, UndoRaises(c) PROVE HostFits'
  <2>1. phase = "undoing" /\ file # "absent"
    BY <1>12 DEF UndoRaises, FileFits
  <2>2. CASE BeginRestore(approved, "down")
    BY <1>60, <2>1, <2>2, BeginIs
  <2>3. CASE phase' = "idle" /\ answered' = "unknown"
    BY <2>3 DEF HostFits, AnsweredIsApplied
  <2>4. QED
    BY <1>12, <2>2, <2>3 DEF UndoRaises
<1>13. CASE EndRestore
  <2>1. /\ phase = "restoring" /\ todo = {} /\ phase' = after /\ after \in {"idle", "down"}
        /\ answered' = IF passed THEN "observe" ELSE "unknown"
        /\ host' = (IF after = "down" THEN Deserted(host) ELSE host) /\ approved' = approved
    BY <1>13 DEF EndRestore, TypeOK, lifeVars
  <2>2. CASE after = "down"
    BY <1>60, <2>1, <2>2
  <2>3. CASE after = "idle" /\ passed
    <3>1. Restored
      BY <1>0, <2>1, <2>3 DEF FileFits, Restored
    <3>2. QED
      BY <1>61, <2>1, <2>3, <3>1 DEF Restored
  <2>4. CASE after = "idle" /\ ~passed
    BY <2>1, <2>4 DEF HostFits, AnsweredIsApplied
  <2>5. QED
    BY <2>1, <2>2, <2>3, <2>4 DEF TypeOK
<1>14. ASSUME NEW c \in Controls, RestoreControl(c) \/ RestoreControlRaises(c)
       PROVE  HostFits'
  BY <1>14, <1>60 DEF RestoreControl, RestoreControlRaises
<1>16. CASE UNCHANGED vars
  <2>1. UNCHANGED <<host, answered, phase, target, snaps, todo, applied, approved, shifted>>
    BY <1>16 DEF vars, lifeVars
  <2>2. QED
    BY <1>62, <2>1 DEF HostFits, AnsweredIsApplied
<1>17. QED
  BY <1>1, <1>2, <1>3, <1>4, <1>5, <1>6, <1>7, <1>8, <1>9, <1>10, <1>11, <1>12, <1>13,
      <1>14, <1>16
  DEF Next, Applying, Restoring

\* The initial state has all of it.
LEMMA Initially ==
    ASSUME Init
    PROVE  TypeOK /\ FileFits /\ HostFits
<1>1. approved \in SUBSET Controls
  BY ApprovalsAssumption DEF Init
<1>2. saved \in Snapshots
  <2>1. saved \in [{} -> Settings]
    BY DEF Init
  <2>2. QED
    BY <2>1 DEF Snapshots
<1>3. TypeOK
  BY <1>1, <1>2, BoundsAssumption DEF Init, TypeOK, Settings
<1>4. FileFits
  BY <1>1 DEF Init, FileFits, Restored, Held
<1>5. HostFits
  BY DEF Init, HostFits, AnsweredIsApplied
<1>6. QED
  BY <1>3, <1>4, <1>5
-----------------------------------------------------------------------------
\* The variables hold what they are meant to hold, whatever is approved.
THEOREM TypeCorrect == Spec => []TypeOK
<1>1. Init => TypeOK
  BY Initially
<1>2. TypeOK /\ [Next]_vars => TypeOK'
  BY TypeStep
<1>3. QED
  BY <1>1, <1>2, PTL DEF Spec

\* Whatever fails and whenever the agent dies, the snapshot file holds the
\* original of every setting that differs from it, schedulers aside, as long as
\* no control is approved that a file in use does not know.
THEOREM OriginalsAreKnown == Spec /\ []FileCovers => []OriginalIsKnown
<1> DEFINE IInv == TypeOK /\ FileFits
<1>1. Init => IInv
  BY Initially
<1>2. IInv /\ FileCovers /\ [Next]_vars => IInv'
  BY TypeStep, FileStep
<1>3. IInv => OriginalIsKnown
  <2> SUFFICES ASSUME IInv, NEW c \in Held, host[c] # "observe"
               PROVE  file = "whole" /\ c \in DOMAIN saved /\ saved[c] = "observe"
    BY DEF OriginalIsKnown
  <2>1. QED
    BY DEF FileFits, Restored
<1> HIDE DEF IInv
<1>4. QED
  BY <1>1, <1>2, <1>3, PTL DEF Spec

\* A transaction is all or nothing: between transactions every approved
\* control, schedulers aside, keeps to the profile the last answer was about,
\* whatever raised, as long as no control is approved that a file in use does
\* not know.
THEOREM TransactionsAreWhole == Spec /\ []FileCovers => []AnsweredIsApplied
<1> DEFINE IInv == TypeOK /\ FileFits /\ HostFits
<1>1. Init => IInv
  BY Initially
<1>2. IInv /\ FileCovers /\ FileCovers' /\ [Next]_vars => IInv'
  BY TypeStep, FileStep, HostStep
<1>3. IInv => AnsweredIsApplied
  BY DEF HostFits
<1> HIDE DEF IInv
<1>4. QED
  BY <1>1, <1>2, <1>3, PTL DEF Spec

\* What these two assume of the file holds of every behaviour of an agent
\* that finds the same controls approved whenever it starts.
THEOREM SameApprovalIsCurrent ==
    ASSUME SameApproval
    PROVE  Spec => []FileCovers
<1> DEFINE IInv == /\ TypeOK
                   /\ Approvals = {approved}
                   /\ file = "whole" => DOMAIN saved = approved
<1>1. Init => IInv
  BY SameApproval, Initially DEF Init, SameApproval
<1>2. IInv /\ [Next]_vars => IInv'
  <2> SUFFICES ASSUME IInv, [Next]_vars PROVE IInv'
    OBVIOUS
  <2>1. ASSUME NEW A \in Approvals, Start(A) PROVE approved' = approved
    BY <2>1 DEF Start
  <2>2. approved' = approved
    BY <2>1 DEF Next, Crash, Stop, Restore, Apply, Applying, Restoring, WriteSnapshot,
       ApplyPasses, ApplyFails, ApplyControl, ApplyControlFails, Undo, UndoRaises, EndRestore,
       RestoreControl, RestoreControlRaises, lifeVars, vars
  <2>3. CASE WriteSnapshot
    BY <2>2, <2>3, TypeStep DEF WriteSnapshot, TypeOK
  <2>4. CASE ~WriteSnapshot
    <3>1. saved' = saved
      BY <2>4 DEF Next, Start, Crash, Stop, Restore, Apply, Applying, Restoring, ApplyPasses,
         ApplyFails, ApplyControl, ApplyControlFails, Undo, UndoRaises, EndRestore,
         RestoreControl, RestoreControlRaises, fileVars, vars
    <3>2. file' = "whole" => file = "whole"
      BY <2>4 DEF Next, Start, Crash, Stop, Restore, Apply, Applying, Restoring, ApplyPasses,
         ApplyFails, ApplyControl, ApplyControlFails, Undo, UndoRaises, EndRestore,
         RestoreControl, RestoreControlRaises, fileVars, vars
    <3>3. QED
      BY <2>2, <3>1, <3>2, TypeStep
  <2>5. QED
    BY <2>3, <2>4
<1>3. IInv => FileCovers
  BY DEF FileCovers
<1> HIDE DEF IInv
<1>4. QED
  BY <1>1, <1>2, <1>3, PTL DEF Spec
=============================================================================
