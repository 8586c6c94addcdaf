------------------------------ MODULE KernelTools ------------------------------
(***************************************************************************)
(* The kernel tools a reflection turn runs (agents.service.ts) that change *)
(* stored state: create_pretest_variant, tune_plugin_param with its        *)
(* journal, and train_ml_model.  One call runs at a time, in steps between *)
(* its awaits; the operator edits the same state from the panel meanwhile, *)
(* and the process can stop between any two steps.                         *)
(***************************************************************************)
EXTENDS Integers, SequencesExt

CONSTANTS
    Values,       \* values of the parameter that is tuned
    LOCK_CYCLES,  \* lock_after_change_cycles, 3 by default
    MAX_CHANGES_PER_WEEK, \* max_changes_per_week of a plugin, 5 by default
    MAX_PRETEST_VARIANTS,
    MaxVariants,  \* bound: pretest portfolios
    MaxEdits      \* bound: edits of the operator, and crashes

ASSUME KernelToolsAssumption ==
    /\ {LOCK_CYCLES, MAX_CHANGES_PER_WEEK, MAX_PRETEST_VARIANTS, MaxVariants, MaxEdits}
         \subseteq Nat

VARIABLES
    tool,     \* the tool call under way, and what it has read
    settings, \* plugin.config: the tuned parameter and a field of the operator
    journal,  \* KV param:journal: the values written, with cycles_since
    variants, \* pretest portfolios: how many, and how many of the operator
    mlModel,  \* KV ml:model:current: a good model, or none
    edits,    \* edits of the operator so far
    tuned     \* history: how often a tune has written the configuration

toolVars == <<tool, settings, journal, variants, mlModel, edits, tuned>>

Untuned == "default"
NoTool == [pc |-> "idle", value |-> Untuned, journal |-> <<>>, settings |-> [param |-> Untuned, own |-> 0]]
AtTool(pc) == tool.pc = pc
ToolGoes(pc) == tool' = [tool EXCEPT !.pc = pc]
ToolEnds == tool' = NoTool

ToolsInit ==
    /\ tool = NoTool
    /\ settings = [param |-> Untuned, own |-> 0]
    /\ journal = <<>>
    /\ variants = [all |-> 0, own |-> 0]
    /\ mlModel = "none"
    /\ edits = 0
    /\ tuned = 0

-----------------------------------------------------------------------------
(* create_pretest_variant: a count, then a create *)

CheckVariantCap ==
    /\ AtTool("idle")
    /\ variants.all < MAX_PRETEST_VARIANTS /\ ToolGoes("create")
    /\ UNCHANGED <<settings, journal, variants, mlModel, edits, tuned>>

CreateVariant ==
    /\ AtTool("create") /\ variants.all < MaxVariants
    /\ variants' = [variants EXCEPT !.all = @ + 1]
    /\ ToolEnds
    /\ UNCHANGED <<settings, journal, mlModel, edits, tuned>>

-----------------------------------------------------------------------------
(* tune_plugin_param.  A value, a parameter or a plugin that is not fit to   *)
(* be tuned ends the call at once and is not followed.                       *)

LoadJournal ==
    /\ AtTool("idle")
    /\ \E v \in Values :
         tool' = [NoTool EXCEPT !.pc = "lock", !.value = v, !.journal = journal]
    /\ UNCHANGED <<settings, journal, variants, mlModel, edits, tuned>>

\* check_lock and journal_entry of param-discipline, on the journal read.
Locked(entries) == entries # <<>> /\ Last(entries).cycles < LOCK_CYCLES
WithinBudget(entries) == Len(entries) < MAX_CHANGES_PER_WEEK

AskDiscipline ==
    /\ AtTool("lock")
    /\ \/ ~Locked(tool.journal) /\ WithinBudget(tool.journal) /\ ToolGoes("persist")
       \/ ToolEnds
    /\ UNCHANGED <<settings, journal, variants, mlModel, edits, tuned>>

\* Mutant: the configuration is written before its journal entry.
PersistJournalLater ==
    /\ AtTool("persist")
    /\ tool' = [tool EXCEPT !.pc = "merge", !.settings = settings]
    /\ UNCHANGED <<settings, journal, variants, mlModel, edits, tuned>>

\* The journal first: a write that fails ends the call.
PersistJournal ==
    /\ AtTool("persist")
    /\ \/ journal' = Append(tool.journal, [value |-> tool.value, cycles |-> 0]) /\ ToolGoes("apply")
       \/ ToolEnds /\ UNCHANGED journal
    /\ UNCHANGED <<settings, variants, mlModel, edits, tuned>>

\* mergeConfig() reads the whole configuration, and writes it whole.
ReadSettings ==
    /\ AtTool("apply")
    /\ \/ tool' = [tool EXCEPT !.pc = "merge", !.settings = settings]
       \/ ToolEnds
    /\ UNCHANGED <<settings, journal, variants, mlModel, edits, tuned>>

MergeSettings ==
    /\ AtTool("merge")
    /\ settings' = [tool.settings EXCEPT !.param = tool.value]
    /\ tuned' = tuned + 1
    /\ ToolEnds
    /\ UNCHANGED <<journal, variants, mlModel, edits>>

-----------------------------------------------------------------------------
(* train_ml_model: too few labelled rows, one class of labels or a failure   *)
(* of the sandbox leave the stored model alone.                              *)

BeginTraining ==
    /\ AtTool("idle")
    /\ ToolGoes("train")
    /\ UNCHANGED <<settings, journal, variants, mlModel, edits, tuned>>

Train ==
    /\ AtTool("train")
    /\ ToolGoes("store") \/ ToolEnds
    /\ UNCHANGED <<settings, journal, variants, mlModel, edits, tuned>>

StoreModel ==
    /\ AtTool("store")
    /\ mlModel' = "trained"
    /\ ToolEnds
    /\ UNCHANGED <<settings, journal, variants, edits, tuned>>

-----------------------------------------------------------------------------
(* The operator and the process *)

OperatorEdits ==
    /\ edits < MaxEdits
    /\ edits' = edits + 1
    /\ \/ settings' = [settings EXCEPT !.own = edits + 1] /\ UNCHANGED variants
       \/ /\ variants.all < MaxVariants
          /\ variants' = [all |-> variants.all + 1, own |-> variants.own + 1]
          /\ UNCHANGED settings
    /\ UNCHANGED <<tool, journal, mlModel, tuned>>

ProcessStops ==
    /\ edits < MaxEdits /\ ~AtTool("idle")
    /\ edits' = edits + 1
    /\ ToolEnds
    /\ UNCHANGED <<settings, journal, variants, mlModel, tuned>>

ToolsNext ==
    \/ CheckVariantCap \/ CreateVariant
    \/ LoadJournal \/ AskDiscipline \/ PersistJournal \/ ReadSettings \/ MergeSettings
    \/ BeginTraining \/ Train \/ StoreModel
    \/ OperatorEdits \/ ProcessStops

ToolsSpec == ToolsInit /\ [][ToolsNext]_toolVars

-----------------------------------------------------------------------------
ToolsTypeOK ==
    /\ tool.pc \in {"idle", "create", "lock", "persist", "apply", "merge", "train", "store"}
    /\ settings.param \in Values \cup {Untuned} /\ settings.own \in 0 .. MaxEdits
    /\ \A k \in DOMAIN journal : journal[k].value \in Values /\ journal[k].cycles \in Nat
    /\ variants.own \in 0 .. variants.all /\ variants.all \in 0 .. MaxVariants
    /\ variants.all - variants.own <= MAX_PRETEST_VARIANTS
    /\ mlModel \in {"none", "trained"}
    /\ edits \in 0 .. MaxEdits /\ tuned \in Nat

\* No silent bypass of the discipline: the parameter has been written no more
\* often than the journal has entries, and the value it has is the journal's,
\* wherever the process stops and whatever the operator saves meanwhile.
TuneIsJournaled ==
    /\ tuned <= Len(journal)
    /\ settings.param # Untuned => \E k \in DOMAIN journal : journal[k].value = settings.param
=============================================================================
