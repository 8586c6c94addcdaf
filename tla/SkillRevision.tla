------------------------------ MODULE SkillRevision ----------------------------
(***************************************************************************)
(* PluginsService.writeSkillGuarded, revertSkill and writeSkillContent     *)
(* (plugins.service.ts): the body of one skill that the model may rewrite, *)
(* the bounded snapshots kept of it in the KV store, and the operator's    *)
(* revert.  The file and the snapshots are two stores, with an await       *)
(* between their writes, and the process can stop in between.              *)
(***************************************************************************)
EXTENDS Integers, FiniteSets, Sequences, SequencesExt

CONSTANTS
    SNAPSHOT_CAP,   \* snapshots kept, the oldest dropped first
    MaxBodies       \* bound: bodies the model comes up with

ASSUME SkillRevisionAssumption == SNAPSHOT_CAP \in Nat \ {0} /\ MaxBodies \in Nat

VARIABLES
    body,       \* what SKILL.md holds; 0 is the body it was installed with
    snapshots,  \* KV skill_snapshot:<name>
    writable,   \* manifest: llm_writable
    writer,     \* writeSkillGuarded() under way
    reverter,   \* revertSkill() under way
    bodies,     \* bodies written so far
    lossy       \* history: a write and a revert were under way together, a revert
                \* was cut off, or the cap has pushed the first body out

skillVars == <<body, snapshots, writable, writer, reverter, bodies, lossy>>

NoWriter == [pc |-> "none", old |-> 0, kept |-> <<>>]
NoReverter == [pc |-> "none", kept |-> <<>>, restores |-> 0]

SkillInit ==
    /\ body = 0 /\ snapshots = <<>> /\ writable = TRUE
    /\ writer = NoWriter /\ reverter = NoReverter
    /\ bodies = 0 /\ lossy = FALSE

\* Mutant: the cap is looked at before the new snapshot is there.
CappedLate(s) == SubSeq(s, Max({1, Len(s) - SNAPSHOT_CAP}), Len(s))

Capped(s) == SubSeq(s, Max({1, Len(s) - SNAPSHOT_CAP + 1}), Len(s))

Kept == Capped(Append(writer.kept, writer.old))

PushesOutTheFirst == Len(writer.kept) = SNAPSHOT_CAP /\ Head(writer.kept) = 0

\* Not writable, too short or too different: audited and refused, at the
\* first step.  The body is read after the manifest.
WriteStarts ==
    /\ writer.pc = "none" /\ bodies < MaxBodies /\ writable
    /\ writer' = [pc |-> "snapshot", old |-> body, kept |-> snapshots]
    /\ lossy' = (lossy \/ reverter.pc # "none")
    /\ UNCHANGED <<body, snapshots, writable, reverter, bodies>>

\* Mutant: the new body is written, and then the old one is kept.
WriteBodyFirst ==
    \/ /\ writer.pc = "snapshot"
       /\ body' = bodies + 1 /\ bodies' = bodies + 1
       /\ writer' = [writer EXCEPT !.pc = "write"]
       /\ UNCHANGED <<snapshots, lossy>>
    \/ /\ writer.pc = "write"
       /\ snapshots' = Kept /\ lossy' = (lossy \/ PushesOutTheFirst)
       /\ writer' = NoWriter
       /\ UNCHANGED <<body, bodies>>

SnapshotThenWrite ==
    \/ /\ writer.pc = "snapshot"
       /\ snapshots' = Kept /\ lossy' = (lossy \/ PushesOutTheFirst)
       /\ writer' = [writer EXCEPT !.pc = "write"]
       /\ UNCHANGED <<body, bodies>>
    \/ /\ writer.pc = "write"
       /\ body' = bodies + 1 /\ bodies' = bodies + 1
       /\ writer' = NoWriter
       /\ UNCHANGED <<snapshots, lossy>>

WriteGoesOn == SnapshotThenWrite /\ UNCHANGED <<writable, reverter>>

RevertReads ==
    /\ reverter.pc = "none" /\ writable /\ Len(snapshots) > 0
    /\ reverter' = [pc |-> "pop", kept |-> Front(snapshots), restores |-> Last(snapshots)]
    /\ lossy' = (lossy \/ writer.pc # "none")
    /\ UNCHANGED <<body, snapshots, writable, writer, bodies>>

RevertPops ==
    /\ reverter.pc = "pop"
    /\ snapshots' = reverter.kept
    /\ reverter' = [reverter EXCEPT !.pc = "write"]
    /\ UNCHANGED <<body, writable, writer, bodies, lossy>>

RevertWrites ==
    /\ reverter.pc = "write"
    /\ body' = reverter.restores
    /\ reverter' = NoReverter
    /\ UNCHANGED <<snapshots, writable, writer, bodies, lossy>>

ManifestChanges ==
    /\ writable' = ~writable
    /\ UNCHANGED <<body, snapshots, writer, reverter, bodies, lossy>>

SkillProcessStops ==
    /\ writer.pc # "none" \/ reverter.pc # "none"
    /\ lossy' = (lossy \/ reverter.pc = "write")
    /\ writer' = NoWriter /\ reverter' = NoReverter
    /\ UNCHANGED <<body, snapshots, writable, bodies>>

SkillNext ==
    \/ WriteStarts \/ WriteGoesOn \/ RevertReads \/ RevertPops \/ RevertWrites
    \/ ManifestChanges \/ SkillProcessStops

SkillSpec == SkillInit /\ [][SkillNext]_skillVars

-----------------------------------------------------------------------------
SkillTypeOK ==
    /\ body \in 0 .. MaxBodies /\ bodies \in 0 .. MaxBodies
    /\ Len(snapshots) <= SNAPSHOT_CAP /\ ToSet(snapshots) \subseteq 0 .. MaxBodies
    /\ {writable, lossy} \subseteq BOOLEAN
    /\ writer.pc \in {"none", "snapshot", "write"} /\ reverter.pc \in {"none", "pop", "write"}

\* Until the cap pushes it out, the body the skill was installed with can be
\* had back: it is in the file, in a snapshot, or on its way from one to the
\* other, wherever a write was cut off.  (A revert that is cut off between its
\* two writes, or that a write overlaps, does lose a body.)
InstalledBodyIsKept ==
    ~lossy =>
      \/ body = 0 \/ 0 \in ToSet(snapshots)
      \/ reverter.pc = "write" /\ reverter.restores = 0
=============================================================================
