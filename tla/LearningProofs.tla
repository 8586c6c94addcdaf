---------------------------- MODULE LearningProofs ----------------------------
(***************************************************************************)
(* Theorems about what the platform learns from, for every set of values,  *)
(* decisions and operators and every bound: the journal of the parameters  *)
(* a reflection tunes (KernelTools), the outcomes of the cycles and the    *)
(* rows a model is trained on (OutcomeLabels), and the verdicts on the     *)
(* decisions of the veto layer (VetoBackfill).                             *)
(***************************************************************************)
EXTENDS KernelTools, OutcomeLabels, VetoBackfill, SequenceTheorems, FiniteSetTheorems, TLAPS

-----------------------------------------------------------------------------
(* KernelTools                                                             *)

Tuned == Values \cup {Untuned}
Settings == [param : Tuned, own : Nat]
JournalRows == [value : Tuned, cycles : Nat]
ToolPlaces == {"idle", "create", "lock", "persist", "apply", "merge", "train", "store"}

\* The journal holds a value that is about to be written, once more than the
\* configuration was written; a call that has read the journal sees it as it is.
TuneInv ==
    /\ tool \in [pc : ToolPlaces, value : Tuned, journal : Seq(JournalRows), settings : Settings]
    /\ settings \in Settings /\ journal \in Seq(JournalRows) /\ tuned \in Nat /\ edits \in Nat
    /\ tool.pc \in {"lock", "persist"} => tool.journal = journal
    /\ tool.pc \in {"apply", "merge"} =>
         /\ tuned + 1 <= Len(journal)
         /\ \E k \in DOMAIN journal : journal[k].value = tool.value
    /\ TuneIsJournaled

LEMMA NoToolTyped ==
    /\ NoTool \in [pc : ToolPlaces, value : Tuned, journal : Seq(JournalRows), settings : Settings]
    /\ NoTool.pc = "idle"
    /\ [param |-> Untuned, own |-> 0] \in Settings
<1>1. [param |-> Untuned, own |-> 0] \in Settings
  BY DEF Settings, Tuned
<1>2. <<>> \in Seq(JournalRows)
  BY EmptySeq
<1> DEFINE start == [param |-> Untuned, own |-> 0]
<1>3. NoTool = [pc |-> "idle", value |-> Untuned, journal |-> <<>>, settings |-> start]
  BY DEF NoTool
<1> HIDE DEF start
<1>4. start \in Settings
  BY <1>1 DEF start
<1>5. NoTool \in [pc : ToolPlaces, value : Tuned, journal : Seq(JournalRows), settings : Settings]
      /\ NoTool.pc = "idle"
  BY <1>2, <1>3, <1>4 DEF ToolPlaces, Tuned
<1> QED BY <1>1, <1>5

LEMMA ToolsStart == ToolsInit => TuneInv
<1> SUFFICES ASSUME ToolsInit PROVE TuneInv OBVIOUS
<1>1. tool = NoTool /\ settings = [param |-> Untuned, own |-> 0] /\ journal = <<>> /\ tuned = 0
      /\ edits = 0
  BY DEF ToolsInit
<1>2. <<>> \in Seq(JournalRows) /\ Len(<<>>) = 0
  BY EmptySeq
<1>3. TuneIsJournaled
  BY <1>1, <1>2 DEF TuneIsJournaled
<1> QED BY <1>1, <1>2, <1>3, NoToolTyped DEF TuneInv

\* A step that leaves the journal and the tuned value alone keeps them so.
LEMMA ToolMovesOn ==
    ASSUME TuneInv, UNCHANGED <<journal, tuned>>,
           tool' \in [pc : ToolPlaces, value : Tuned, journal : Seq(JournalRows), settings : Settings],
           settings' \in Settings, settings'.param = settings.param, edits' \in Nat,
           tool'.pc \in {"lock", "persist"} => tool'.journal = journal,
           tool'.pc \in {"apply", "merge"} => tool.pc \in {"apply", "merge"} /\ tool'.value = tool.value
    PROVE  TuneInv'
<1>1. TuneIsJournaled'
  BY DEF TuneInv, TuneIsJournaled
<1> QED BY <1>1 DEF TuneInv

LEMMA ToolStepKeeps == TuneInv /\ [ToolsNext]_toolVars => TuneInv'
<1> SUFFICES ASSUME TuneInv, [ToolsNext]_toolVars PROVE TuneInv' OBVIOUS
<1> DEFINE Tools == [pc : ToolPlaces, value : Tuned, journal : Seq(JournalRows), settings : Settings]
<1>0. tool \in Tools /\ settings \in Settings /\ journal \in Seq(JournalRows) /\ tuned \in Nat /\ edits \in Nat
      /\ NoTool \in Tools /\ NoTool.pc = "idle"
  BY NoToolTyped DEF TuneInv
<1>1. ASSUME NEW pc \in ToolPlaces
      PROVE  /\ [tool EXCEPT !.pc = pc] \in Tools /\ [tool EXCEPT !.pc = pc].pc = pc
             /\ [tool EXCEPT !.pc = pc].value = tool.value
             /\ [tool EXCEPT !.pc = pc].journal = tool.journal
  BY <1>0
\* Calls that touch neither, a call that ends, an edit and a restart.
<1>2. CASE \/ CheckVariantCap \/ BeginTraining \/ Train
  <2>1. /\ tool' \in {NoTool, [tool EXCEPT !.pc = "create"], [tool EXCEPT !.pc = "train"],
                      [tool EXCEPT !.pc = "store"]}
        /\ UNCHANGED <<settings, journal, tuned, edits>>
    BY <1>2 DEF CheckVariantCap, BeginTraining, Train, ToolGoes, ToolEnds
  <2>2. tool' \in Tools /\ tool'.pc \in {"idle", "create", "train", "store"}
    BY <1>0, <1>1, <2>1 DEF ToolPlaces
  <2> QED BY <1>0, <2>1, <2>2, ToolMovesOn
<1>3. CASE \/ CreateVariant \/ StoreModel \/ ProcessStops
  <2>1. tool' = NoTool /\ UNCHANGED <<settings, journal, tuned>> /\ edits' \in {edits, edits + 1}
    BY <1>3 DEF CreateVariant, StoreModel, ProcessStops, ToolEnds
  <2> QED BY <1>0, <2>1, ToolMovesOn
<1>4. CASE OperatorEdits
  <2>1. UNCHANGED <<tool, journal, tuned>> /\ edits' = edits + 1
        /\ settings' \in {settings, [settings EXCEPT !.own = edits + 1]}
    BY <1>4 DEF OperatorEdits
  <2>2. settings' \in Settings /\ settings'.param = settings.param
    BY <1>0, <2>1 DEF Settings
  <2>3. tool.pc \in {"lock", "persist"} => tool.journal = journal
    BY DEF TuneInv
  <2> QED BY <1>0, <2>1, <2>2, <2>3, ToolMovesOn
<1>5. CASE LoadJournal
  <2>1. PICK v \in Values : tool' = [NoTool EXCEPT !.pc = "lock", !.value = v, !.journal = journal]
    BY <1>5 DEF LoadJournal
  <2>2. UNCHANGED <<settings, journal, tuned, edits>>
    BY <1>5 DEF LoadJournal
  <2>3. tool' \in Tools /\ tool'.pc = "lock" /\ tool'.journal = journal
    <3>1. v \in Tuned /\ "lock" \in ToolPlaces
      BY DEF Tuned, ToolPlaces
    <3> HIDE DEF Tuned
    <3> QED BY <1>0, <2>1, <3>1
  <2> QED BY <1>0, <2>2, <2>3, ToolMovesOn
<1>6. CASE AskDiscipline
  <2>1. /\ tool' \in {NoTool, [tool EXCEPT !.pc = "persist"]} /\ tool.pc = "lock"
        /\ UNCHANGED <<settings, journal, tuned, edits>>
    BY <1>6 DEF AskDiscipline, ToolGoes, ToolEnds, AtTool
  <2>2. tool' \in Tools /\ tool'.pc \in {"idle", "persist"}
        /\ (tool'.pc = "persist" => tool'.journal = tool.journal)
    BY <1>0, <1>1, <2>1 DEF ToolPlaces
  <2>3. tool.journal = journal
    BY <2>1 DEF TuneInv
  <2> QED BY <1>0, <2>1, <2>2, <2>3, ToolMovesOn
<1>7. CASE PersistJournal
  <2>1. tool.pc = "persist" /\ tool.journal = journal /\ UNCHANGED <<settings, tuned, edits>>
    BY <1>7 DEF PersistJournal, AtTool, TuneInv
  <2>2. CASE tool' = NoTool /\ UNCHANGED journal
    BY <1>0, <2>1, <2>2, ToolMovesOn
  <2>3. CASE journal' = Append(journal, [value |-> tool.value, cycles |-> 0])
             /\ tool' = [tool EXCEPT !.pc = "apply"]
    <3> DEFINE entry == [value |-> tool.value, cycles |-> 0]
    <3>1. entry \in JournalRows /\ entry.value = tool.value
      BY <1>0 DEF JournalRows
    <3>2. tool' \in Tools /\ tool'.pc = "apply" /\ tool'.value = tool.value
      BY <1>1, <2>3 DEF ToolPlaces
    <3>3. journal' = Append(journal, entry)
      BY <2>3
    <3> HIDE DEF entry, Tools
    <3>4. /\ journal' \in Seq(JournalRows) /\ Len(journal') = Len(journal) + 1
          /\ \A k \in 1 .. Len(journal) : journal'[k] = journal[k]
          /\ journal'[Len(journal) + 1] = entry
      BY <1>0, <3>1, <3>3, AppendProperties
    <3>5. Len(journal) \in Nat /\ DOMAIN journal = 1 .. Len(journal)
          /\ DOMAIN journal' = 1 .. Len(journal) + 1
      BY <1>0, <3>4, LenProperties
    <3>6. \E k \in DOMAIN journal' : journal'[k].value = tool'.value
      BY <3>1, <3>2, <3>4, <3>5
    <3>7. tuned <= Len(journal)
      BY DEF TuneInv, TuneIsJournaled
    <3>8. settings.param # Untuned => \E k \in DOMAIN journal : journal[k].value = settings.param
      BY DEF TuneInv, TuneIsJournaled
    <3>9. TuneIsJournaled'
      BY <1>0, <2>1, <3>4, <3>5, <3>7, <3>8 DEF TuneIsJournaled
    <3>10. tuned' + 1 <= Len(journal')
      BY <1>0, <2>1, <3>4, <3>5, <3>7
    <3> QED BY <1>0, <2>1, <3>2, <3>4, <3>6, <3>9, <3>10 DEF TuneInv, Tools
  <2> QED BY <1>7, <2>1, <2>2, <2>3 DEF PersistJournal, ToolGoes, ToolEnds
<1>8. CASE ReadSettings
  <2>1. tool.pc = "apply" /\ UNCHANGED <<settings, journal, tuned, edits>>
        /\ tool' \in {NoTool, [tool EXCEPT !.pc = "merge", !.settings = settings]}
    BY <1>8 DEF ReadSettings, AtTool, ToolEnds
  <2>2. tool' \in Tools /\ tool'.pc \in {"idle", "merge"}
        /\ (tool'.pc = "merge" => tool'.value = tool.value)
    <3>1. "merge" \in ToolPlaces
      BY DEF ToolPlaces
    <3> QED BY <1>0, <2>1, <3>1
  <2> QED BY <1>0, <2>1, <2>2, ToolMovesOn
<1>9. CASE MergeSettings
  <2>1. /\ tool.pc = "merge" /\ tool' = NoTool /\ UNCHANGED <<journal, edits>>
        /\ settings' = [tool.settings EXCEPT !.param = tool.value] /\ tuned' = tuned + 1
    BY <1>9 DEF MergeSettings, AtTool, ToolEnds
  <2>2. settings' \in Settings /\ settings'.param = tool.value
    <3>1. tool.settings \in Settings /\ tool.value \in Tuned
      BY <1>0
    <3> QED BY <2>1, <3>1 DEF Settings
  <2>3. tuned + 1 <= Len(journal) /\ \E k \in DOMAIN journal : journal[k].value = tool.value
    BY <2>1 DEF TuneInv
  <2>4. TuneIsJournaled'
    BY <2>1, <2>2, <2>3 DEF TuneIsJournaled
  <2> QED BY <1>0, <2>1, <2>2, <2>4 DEF TuneInv
<1>10. CASE UNCHANGED toolVars
  BY <1>10 DEF toolVars, TuneInv, TuneIsJournaled
<1> QED BY <1>2, <1>3, <1>4, <1>5, <1>6, <1>7, <1>8, <1>9, <1>10 DEF ToolsNext

\* tune_plugin_param: wherever the process stops and whatever the operator saves
\* between its steps, a parameter is written no more often than the journal that
\* the discipline asks says, and has a value of the journal.
THEOREM TunesAreJournaled == ToolsSpec => []TuneIsJournaled
<1>1. TuneInv => TuneIsJournaled
  BY DEF TuneInv
<1> QED BY <1>1, ToolsStart, ToolStepKeeps, PTL DEF ToolsSpec

\* What is edited is counted; what is tuned, and journaled, is a value of the
\* parameter; and a variant the cap has let pass has its place kept, for the
\* operator's own do not count against it.
EditsCounted ==
    /\ edits \in 0 .. MaxEdits /\ settings.own \in 0 .. MaxEdits
    /\ tool.settings.own \in 0 .. MaxEdits /\ mlModel \in {"none", "trained"}

ValuesJournaled ==
    /\ tool.pc \in {"lock", "persist", "apply", "merge"} => tool.value \in Values
    /\ \A k \in DOMAIN journal : journal[k].value \in Values

VariantsCapped ==
    /\ variants \in [all : 0 .. MaxVariants, own : Nat] /\ variants.own <= variants.all
    /\ variants.all - variants.own <= MAX_PRETEST_VARIANTS
    /\ tool.pc = "create" => variants.all - variants.own < MAX_PRETEST_VARIANTS

ToolBounds == EditsCounted /\ ValuesJournaled /\ VariantsCapped

LEMMA EditsStayCounted == ASSUME TuneInv, EditsCounted, ToolsNext PROVE EditsCounted'
<1>0. MaxEdits \in Nat /\ NoTool.settings.own = 0
  BY KernelToolsAssumption DEF NoTool
<1>1. mlModel' \in {"none", "trained"}
  BY DEF EditsCounted, ToolsNext, CheckVariantCap, CreateVariant, LoadJournal, AskDiscipline, PersistJournal,
         ReadSettings, MergeSettings, BeginTraining, Train, StoreModel, OperatorEdits, ProcessStops
<1>2. \/ edits' = edits
      \/ edits < MaxEdits /\ edits' = edits + 1
  BY DEF ToolsNext, CheckVariantCap, CreateVariant, LoadJournal, AskDiscipline, PersistJournal,
         ReadSettings, MergeSettings, BeginTraining, Train, StoreModel, OperatorEdits, ProcessStops
<1>3. edits' \in 0 .. MaxEdits
  BY <1>0, <1>2 DEF EditsCounted
<1>4. settings'.own \in {settings.own, tool.settings.own, edits'}
  <2>1. settings \in Settings /\ tool.settings \in Settings
    BY DEF TuneInv
  <2>2. CASE MergeSettings
    BY <2>1, <2>2 DEF MergeSettings, Settings
  <2>3. CASE OperatorEdits
    BY <2>1, <2>3 DEF OperatorEdits, Settings
  <2>4. CASE ~MergeSettings /\ ~OperatorEdits
    BY <2>4 DEF ToolsNext, CheckVariantCap, CreateVariant, LoadJournal, AskDiscipline, PersistJournal,
                ReadSettings, BeginTraining, Train, StoreModel, ProcessStops
  <2> QED BY <2>2, <2>3, <2>4
<1>5. tool'.settings.own \in {0, tool.settings.own, settings.own}
  <2>1. tool.settings \in Settings /\ DOMAIN tool = {"pc", "value", "journal", "settings"}
    BY DEF TuneInv
  <2>2. ASSUME NEW pc, ToolGoes(pc) PROVE tool'.settings = tool.settings
    BY <2>2 DEF ToolGoes, TuneInv
  <2>3. CASE CheckVariantCap \/ AskDiscipline \/ PersistJournal \/ BeginTraining \/ Train
    BY <1>0, <2>2, <2>3
       DEF CheckVariantCap, AskDiscipline, PersistJournal, BeginTraining, Train, ToolEnds
  <2>4. CASE ReadSettings
    <3>1. CASE tool' = [tool EXCEPT !.pc = "merge", !.settings = settings]
      BY <3>1 DEF TuneInv
    <3> QED BY <1>0, <2>4, <3>1 DEF ReadSettings, ToolEnds
  <2>5. CASE LoadJournal
    <3>1. PICK v \in Values : tool' = [NoTool EXCEPT !.pc = "lock", !.value = v, !.journal = journal]
      BY <2>5 DEF LoadJournal
    <3> QED BY <1>0, <3>1 DEF NoTool
  <2>6. CASE CreateVariant \/ MergeSettings \/ StoreModel \/ ProcessStops \/ OperatorEdits
    BY <1>0, <2>6 DEF CreateVariant, MergeSettings, StoreModel, ProcessStops, OperatorEdits, ToolEnds
  <2> QED BY <2>3, <2>4, <2>5, <2>6 DEF ToolsNext
<1> QED BY <1>0, <1>1, <1>3, <1>4, <1>5 DEF EditsCounted

LEMMA ValuesStayJournaled == ASSUME TuneInv, ValuesJournaled, ToolsNext PROVE ValuesJournaled'
<1>0. tool \in [pc : ToolPlaces, value : Tuned, journal : Seq(JournalRows), settings : Settings]
      /\ journal \in Seq(JournalRows) /\ NoTool.pc = "idle"
  BY NoToolTyped DEF TuneInv
<1>1. ASSUME NEW pc, ToolGoes(pc) PROVE tool'.value = tool.value /\ tool'.pc = pc
  BY <1>0, <1>1 DEF ToolGoes
<1>2. CASE PersistJournal
  <2>1. tool.pc = "persist" /\ tool.journal = journal /\ tool.value \in Values
    BY <1>2 DEF PersistJournal, AtTool, TuneInv, ValuesJournaled
  <2>2. CASE ToolEnds /\ UNCHANGED journal
    BY <1>0, <2>2 DEF ToolEnds, ValuesJournaled
  <2>3. CASE ToolGoes("apply") /\ journal' = Append(journal, [value |-> tool.value, cycles |-> 0])
    <3> DEFINE entry == [value |-> tool.value, cycles |-> 0]
    <3>1. entry \in JournalRows /\ entry.value \in Values
      BY <1>0, <2>1 DEF JournalRows
    <3> HIDE DEF entry
    <3>2. journal' = Append(journal, entry)
      BY <2>3 DEF entry
    <3>3. /\ journal' \in Seq(JournalRows) /\ Len(journal') = Len(journal) + 1
          /\ \A k \in 1 .. Len(journal) : journal'[k] = journal[k]
          /\ journal'[Len(journal) + 1] = entry
      BY <1>0, <3>1, <3>2, AppendProperties
    <3>4. Len(journal) \in Nat /\ DOMAIN journal = 1 .. Len(journal)
          /\ DOMAIN journal' = 1 .. Len(journal) + 1
      BY <1>0, <3>3, LenProperties
    <3>5. \A k \in DOMAIN journal' : journal'[k].value \in Values
      BY <3>1, <3>3, <3>4 DEF ValuesJournaled
    <3> QED BY <1>1, <2>1, <2>3, <3>5 DEF ValuesJournaled
  <2> QED BY <1>2, <2>1, <2>2, <2>3 DEF PersistJournal
<1>3. CASE LoadJournal
  <2>1. PICK v \in Values : tool' = [NoTool EXCEPT !.pc = "lock", !.value = v, !.journal = journal]
    BY <1>3 DEF LoadJournal
  <2>2. tool'.value = v /\ UNCHANGED journal
    BY <1>3, <2>1 DEF LoadJournal, NoTool
  <2> QED BY <2>2 DEF ValuesJournaled
<1>4. CASE AskDiscipline
  BY <1>0, <1>1, <1>4 DEF AskDiscipline, AtTool, ToolEnds, ValuesJournaled
<1>5. CASE ReadSettings
  <2>1. tool' = NoTool \/ tool'.value = tool.value
    BY <1>0, <1>5 DEF ReadSettings, ToolEnds
  <2>2. tool.pc = "apply" /\ UNCHANGED journal
    BY <1>5 DEF ReadSettings, AtTool
  <2> QED BY <1>0, <2>1, <2>2 DEF ValuesJournaled
<1>6. CASE CheckVariantCap \/ BeginTraining \/ Train
  BY <1>0, <1>1, <1>6 DEF CheckVariantCap, BeginTraining, Train, ToolEnds, ValuesJournaled
<1>7. CASE CreateVariant \/ MergeSettings \/ StoreModel \/ ProcessStops \/ OperatorEdits
  BY <1>0, <1>7
     DEF CreateVariant, MergeSettings, StoreModel, ProcessStops, OperatorEdits, ToolEnds, ValuesJournaled
<1> QED BY <1>2, <1>3, <1>4, <1>5, <1>6, <1>7 DEF ToolsNext

LEMMA VariantsStayCapped == ASSUME TuneInv, VariantsCapped, ToolsNext PROVE VariantsCapped'
<1>0. MaxVariants \in Nat /\ MAX_PRETEST_VARIANTS \in Nat /\ NoTool.pc = "idle"
      /\ variants \in [all : 0 .. MaxVariants, own : Nat] /\ variants.own <= variants.all
      /\ variants.all - variants.own <= MAX_PRETEST_VARIANTS
  BY KernelToolsAssumption, NoToolTyped DEF VariantsCapped
<1>1. CASE CheckVariantCap
  <2>1. variants.all < MAX_PRETEST_VARIANTS /\ UNCHANGED variants
    BY <1>1 DEF CheckVariantCap
  <2> QED BY <1>0, <2>1 DEF VariantsCapped
<1>2. CASE CreateVariant
  <2>1. /\ variants' = [variants EXCEPT !.all = @ + 1] /\ variants.all < MaxVariants /\ tool'.pc = "idle"
        /\ variants.all - variants.own < MAX_PRETEST_VARIANTS
    BY <1>0, <1>2 DEF CreateVariant, AtTool, ToolEnds, VariantsCapped
  <2>2. /\ variants' \in [all : 0 .. MaxVariants, own : Nat]
        /\ variants'.all = variants.all + 1 /\ variants'.own = variants.own
    BY <1>0, <2>1
  <2> QED BY <1>0, <2>1, <2>2 DEF VariantsCapped
<1>3. CASE OperatorEdits
  <2>1. UNCHANGED tool
        /\ \/ UNCHANGED variants
           \/ /\ variants.all < MaxVariants
              /\ variants' = [all |-> variants.all + 1, own |-> variants.own + 1]
    BY <1>3 DEF OperatorEdits
  <2> QED BY <1>0, <2>1 DEF VariantsCapped
<1>4. CASE ~CheckVariantCap /\ ~CreateVariant /\ ~OperatorEdits
  <2>1. UNCHANGED variants
    BY <1>4 DEF ToolsNext, LoadJournal, AskDiscipline, PersistJournal, ReadSettings, MergeSettings,
                BeginTraining, Train, StoreModel, ProcessStops
  <2>2. tool'.pc # "create"
    <3>1. \A pc : ToolGoes(pc) => tool'.pc = pc
      BY DEF ToolGoes, TuneInv
    <3>2. ASSUME LoadJournal PROVE tool'.pc = "lock"
      BY <3>2 DEF LoadJournal, NoTool
    <3>3. ASSUME ReadSettings PROVE tool'.pc \in {"merge", "idle"}
      BY <1>0, <3>3 DEF ReadSettings, ToolEnds, TuneInv
    <3> QED BY <1>0, <1>4, <3>1, <3>2, <3>3
            DEF ToolsNext, AskDiscipline, PersistJournal, MergeSettings,
                BeginTraining, Train, StoreModel, ProcessStops, ToolEnds
  <2> QED BY <1>0, <2>1, <2>2 DEF VariantsCapped
<1> QED BY <1>1, <1>2, <1>3, <1>4

\* The types of what the kernel tools write: the cap on the variants a
\* reflection makes holds however many the operator adds in between.
THEOREM ToolsKeepTypes == ToolsSpec => []ToolsTypeOK
<1>1. ToolsInit => ToolBounds
  <2> SUFFICES ASSUME ToolsInit PROVE ToolBounds OBVIOUS
  <2>1. MaxEdits \in Nat /\ MaxVariants \in Nat /\ MAX_PRETEST_VARIANTS \in Nat
    BY KernelToolsAssumption
  <2>2. EditsCounted
    BY <2>1 DEF ToolsInit, EditsCounted, NoTool
  <2>3. ValuesJournaled
    BY DEF ToolsInit, ValuesJournaled, NoTool
  <2>4. VariantsCapped
    BY <2>1 DEF ToolsInit, VariantsCapped, NoTool
  <2> QED BY <2>2, <2>3, <2>4 DEF ToolBounds
<1>2. TuneInv /\ ToolBounds /\ [ToolsNext]_toolVars => ToolBounds'
  <2> SUFFICES ASSUME TuneInv, ToolBounds, [ToolsNext]_toolVars PROVE ToolBounds' OBVIOUS
  <2>1. CASE ToolsNext
    BY <2>1, EditsStayCounted, ValuesStayJournaled, VariantsStayCapped DEF ToolBounds
  <2>2. CASE UNCHANGED toolVars
    BY <2>2 DEF toolVars, ToolBounds, EditsCounted, ValuesJournaled, VariantsCapped
  <2> QED BY <2>1, <2>2
<1>3. TuneInv /\ ToolBounds => ToolsTypeOK
  <2> SUFFICES ASSUME TuneInv, ToolBounds PROVE ToolsTypeOK OBVIOUS
  <2>1. settings \in Settings /\ journal \in Seq(JournalRows) /\ tuned \in Nat /\ tool.pc \in ToolPlaces
    BY DEF TuneInv
  <2>2. \A k \in DOMAIN journal : journal[k].cycles \in Nat
    <3>1. DOMAIN journal = 1 .. Len(journal)
      BY <2>1, LenProperties
    <3>2. \A k \in DOMAIN journal : journal[k] \in JournalRows
      BY <2>1, <3>1, ElementOfSeq
    <3> QED BY <3>2 DEF JournalRows
  <2>3. variants.own \in 0 .. variants.all /\ variants.all \in 0 .. MaxVariants
    BY KernelToolsAssumption DEF ToolBounds, VariantsCapped
  <2> QED BY <2>1, <2>2, <2>3 DEF ToolBounds, EditsCounted, ValuesJournaled, VariantsCapped, ToolsTypeOK,
                                  Settings, Tuned, ToolPlaces
<1> QED BY <1>1, <1>2, <1>3, ToolsStart, ToolStepKeeps, PTL DEF ToolsSpec

-----------------------------------------------------------------------------
(* OutcomeLabels                                                           *)

TurnPlaces == {"idle", "episode", "capture", "snapshot", "labelEpisode", "labelMl"}

\* A cycle that is still to be snapshotted.
Ahead(c) == c > ending.id \/ (c = ending.id /\ TurnAt("episode"))
            \/ (c = ending.id /\ TurnAt("capture")) \/ (c = ending.id /\ TurnAt("snapshot"))

\* No row has an outcome before its cycle has a snapshot, and the outcome the
\* cycle hands to its rows is its own snapshot's.
OutcomeInv ==
    /\ prices \in Nat /\ wallet \in Nat \cup {None}
    /\ ending \in [pc : TurnPlaces, id : Nat, pnl : Int, signalled : BOOLEAN]
    /\ nav \in [LabelCycles -> Nat \cup {None}]
    /\ episodes \in [LabelCycles -> Int] /\ mlRows \in [LabelCycles -> Int]
    /\ trainedOn \subseteq LabelCycles
    /\ ~TurnAt("idle") => ending.id \in LabelCycles
    /\ \A c \in LabelCycles : Ahead(c) => nav[c] = None
    /\ ending.pc \in {"labelEpisode", "labelMl"} =>
         ending.pnl = nav[ending.id] /\ nav[ending.id] # None
    /\ \A c \in LabelCycles : /\ episodes[c] >= 0 => episodes[c] = nav[c]
                              /\ mlRows[c] >= 0 => mlRows[c] = nav[c]
    /\ \A c \in trainedOn : nav[c] # None

LEMMA OutcomeStarts == OutcomeInit => OutcomeInv
<1> SUFFICES ASSUME OutcomeInit PROVE OutcomeInv OBVIOUS
<1>1. ending = [pc |-> "idle", id |-> 0, pnl |-> -1, signalled |-> FALSE]
  BY DEF OutcomeInit, NoEnding, None
<1>2. ending \in [pc : TurnPlaces, id : Nat, pnl : Int, signalled : BOOLEAN]
  BY <1>1 DEF TurnPlaces
<1> QED BY <1>1, <1>2 DEF OutcomeInit, OutcomeInv, None, TurnAt

\* A turn that moves on keeps its cycle and the outcome it has.
LEMMA EndingTyped ==
    ASSUME OutcomeInv, NEW pc \in TurnPlaces, TurnGoes(pc)
    PROVE  /\ ending' \in [pc : TurnPlaces, id : Nat, pnl : Int, signalled : BOOLEAN]
           /\ ending'.pc = pc /\ ending'.id = ending.id /\ ending'.pnl = ending.pnl
<1>1. ending \in [pc : TurnPlaces, id : Nat, pnl : Int, signalled : BOOLEAN]
  BY DEF OutcomeInv
<1> QED BY <1>1 DEF TurnGoes

\* Steps that give no snapshot and no outcome.
LEMMA RowsWaitOn ==
    ASSUME OutcomeInv, UNCHANGED <<prices, wallet, nav, lessons, trainedOn>>,
           NEW pc \in TurnPlaces, TurnGoes(pc),
           Ahead(ending.id)' => Ahead(ending.id), ending.pc # "idle",
           pc \in {"labelEpisode", "labelMl"} => ending.pc \in {"labelEpisode", "labelMl"},
           episodes' \in [LabelCycles -> Int], mlRows' \in [LabelCycles -> Int],
           \A c \in LabelCycles : /\ episodes'[c] >= 0 => episodes'[c] = nav[c]
                                  /\ mlRows'[c] >= 0 => mlRows'[c] = nav[c]
    PROVE  OutcomeInv'
<1>1. /\ ending' \in [pc : TurnPlaces, id : Nat, pnl : Int, signalled : BOOLEAN]
      /\ ending'.pc = pc /\ ending'.id = ending.id /\ ending'.pnl = ending.pnl
  BY EndingTyped
<1>2. \A c \in LabelCycles : Ahead(c)' => nav[c] = None
  BY <1>1 DEF OutcomeInv, Ahead, TurnAt
<1>3. ending.id \in LabelCycles
  BY DEF OutcomeInv, TurnAt
<1>4. ending'.pc \in {"labelEpisode", "labelMl"} =>
        ending'.pnl = nav[ending'.id] /\ nav[ending'.id] # None
  BY <1>1 DEF OutcomeInv
<1> QED BY <1>1, <1>2, <1>3, <1>4 DEF OutcomeInv, TurnAt

\* A row of this cycle is written without an outcome, and labelled with its own.
LEMMA RowsWritten ==
    ASSUME OutcomeInv, ending.pc # "idle"
    PROVE  /\ EpisodeRow \in [LabelCycles -> Int] /\ SignalRows \in [LabelCycles -> Int]
           /\ \A c \in LabelCycles : /\ EpisodeRow[c] >= 0 => EpisodeRow[c] = nav[c]
                                     /\ SignalRows[c] >= 0 => SignalRows[c] = nav[c]
           /\ ending.pc \in {"labelEpisode", "labelMl"} =>
                /\ OutcomeFor(episodes) \in [LabelCycles -> Int]
                /\ OutcomeFor(mlRows) \in [LabelCycles -> Int]
                /\ \A c \in LabelCycles :
                     /\ OutcomeFor(episodes)[c] >= 0 => OutcomeFor(episodes)[c] = nav[c]
                     /\ OutcomeFor(mlRows)[c] >= 0 => OutcomeFor(mlRows)[c] = nav[c]
<1>1. /\ episodes \in [LabelCycles -> Int] /\ mlRows \in [LabelCycles -> Int]
      /\ nav \in [LabelCycles -> Nat \cup {None}] /\ ending.pnl \in Int
      /\ \A c \in LabelCycles : /\ episodes[c] >= 0 => episodes[c] = nav[c]
                                /\ mlRows[c] >= 0 => mlRows[c] = nav[c]
  BY DEF OutcomeInv
<1>2. /\ EpisodeRow \in [LabelCycles -> Int] /\ SignalRows \in [LabelCycles -> Int]
      /\ \A c \in LabelCycles : /\ EpisodeRow[c] >= 0 => EpisodeRow[c] = nav[c]
                                /\ SignalRows[c] >= 0 => SignalRows[c] = nav[c]
  <2>1. ASSUME NEW rows \in [LabelCycles -> Int], NEW gone \in Int, gone < 0,
               \A c \in LabelCycles : rows[c] >= 0 => rows[c] = nav[c]
        PROVE  /\ [rows EXCEPT ![ending.id] = gone] \in [LabelCycles -> Int]
               /\ \A c \in LabelCycles : [rows EXCEPT ![ending.id] = gone][c] >= 0 =>
                                           [rows EXCEPT ![ending.id] = gone][c] = nav[c]
    <3> DEFINE id == ending.id
               new == [rows EXCEPT ![id] = gone]
    <3> HIDE DEF id
    <3>1. new \in [LabelCycles -> Int]
      BY <2>1
    <3>2. ASSUME NEW c \in LabelCycles PROVE new[c] = rows[c] \/ new[c] = gone
      BY <2>1
    <3>3. \A c \in LabelCycles : rows[c] \in Int
      BY <2>1
    <3> HIDE DEF new
    <3>4. \A c \in LabelCycles : new[c] >= 0 => new[c] = nav[c]
      BY <2>1, <3>2, <3>3
    <3> QED BY <3>1, <3>4 DEF new, id
  <2>2. Unknown \in Int /\ Unknown < 0
    BY DEF Unknown
  <2>3. /\ EpisodeRow \in [LabelCycles -> Int]
        /\ \A c \in LabelCycles : EpisodeRow[c] >= 0 => EpisodeRow[c] = nav[c]
    BY <1>1, <2>1, <2>2 DEF EpisodeRow
  <2>4. /\ SignalRows \in [LabelCycles -> Int]
        /\ \A c \in LabelCycles : SignalRows[c] >= 0 => SignalRows[c] = nav[c]
    BY <1>1, <2>1, <2>2 DEF SignalRows
  <2> QED BY <2>3, <2>4
<1>3. ASSUME ending.pc \in {"labelEpisode", "labelMl"}
      PROVE  ending.pnl = nav[ending.id]
  BY <1>3 DEF OutcomeInv
<1>4. ASSUME ending.pc \in {"labelEpisode", "labelMl"}, NEW rows \in [LabelCycles -> Int],
             \A c \in LabelCycles : rows[c] >= 0 => rows[c] = nav[c]
      PROVE  /\ OutcomeFor(rows) \in [LabelCycles -> Int]
             /\ \A c \in LabelCycles : OutcomeFor(rows)[c] >= 0 => OutcomeFor(rows)[c] = nav[c]
  BY <1>1, <1>3, <1>4 DEF OutcomeFor, None
<1> QED BY <1>1, <1>2, <1>4

LEMMA OutcomeStepKeeps == OutcomeInv /\ [OutcomeNext]_outcomeVars => OutcomeInv'
<1> SUFFICES ASSUME OutcomeInv, [OutcomeNext]_outcomeVars PROVE OutcomeInv' OBVIOUS
<1>0. /\ ending \in [pc : TurnPlaces, id : Nat, pnl : Int, signalled : BOOLEAN]
      /\ nav \in [LabelCycles -> Nat \cup {None}] /\ wallet \in Nat \cup {None} /\ prices \in Nat
      /\ episodes \in [LabelCycles -> Int] /\ mlRows \in [LabelCycles -> Int]
      /\ \A c \in LabelCycles : /\ episodes[c] >= 0 => episodes[c] = nav[c]
                                /\ mlRows[c] >= 0 => mlRows[c] = nav[c]
  BY DEF OutcomeInv
<1>1. CASE PricesMove
  <2>1. prices' = prices + 1
        /\ UNCHANGED <<wallet, ending, nav, episodes, mlRows, trainedOn>>
    BY <1>1 DEF PricesMove
  <2> QED BY <2>1 DEF OutcomeInv, Ahead, TurnAt
<1>2. CASE TurnDecides
  <2>1. PICK id \in LabelCycles, signalled, priced \in BOOLEAN :
         /\ id = ending.id + 1
         /\ ending' = [pc |-> "episode", id |-> id, pnl |-> None, signalled |-> signalled]
         /\ wallet' = IF signalled /\ priced THEN prices ELSE wallet
    BY <1>2 DEF TurnDecides
  <2>2. ending.pc = "idle" /\ UNCHANGED <<prices, nav, episodes, mlRows, trainedOn>>
    BY <1>2 DEF TurnDecides, TurnAt
  <2>3. /\ ending' \in [pc : TurnPlaces, id : Nat, pnl : Int, signalled : BOOLEAN]
        /\ ending'.pc = "episode" /\ ending'.id = id /\ id \in Nat
    BY <2>1 DEF TurnPlaces, None, LabelCycles
  <2>4. \A c \in LabelCycles : Ahead(c)' => Ahead(c)
    BY <1>0, <2>1, <2>2, <2>3, OutcomeAssumption DEF Ahead, TurnAt, LabelCycles
  <2>5. \A c \in LabelCycles : Ahead(c)' => nav[c] = None
    BY <2>4 DEF OutcomeInv
  <2>6. wallet' \in Nat \cup {None}
    BY <1>0, <2>1
  <2> QED BY <2>2, <2>3, <2>5, <2>6 DEF OutcomeInv, TurnAt
<1>3. CASE RecordEpisode
  <2>1. /\ ending.pc = "episode" /\ TurnGoes("capture") /\ episodes' \in {episodes, EpisodeRow}
        /\ UNCHANGED <<prices, wallet, nav, mlRows, lessons, trainedOn>>
    BY <1>3 DEF RecordEpisode, TurnAt
  <2>2. "capture" \in TurnPlaces /\ (Ahead(ending.id)' => Ahead(ending.id))
    BY <2>1 DEF TurnPlaces, Ahead, TurnAt
  <2>3. /\ episodes' \in [LabelCycles -> Int]
        /\ \A c \in LabelCycles : episodes'[c] >= 0 => episodes'[c] = nav[c]
    BY <1>0, <2>1, RowsWritten
  <2> QED BY <1>0, <2>1, <2>2, <2>3, RowsWaitOn
<1>4. CASE CaptureSignals
  <2>1. /\ ending.pc = "capture" /\ TurnGoes("snapshot") /\ mlRows' \in {mlRows, SignalRows}
        /\ UNCHANGED <<prices, wallet, nav, episodes, lessons, trainedOn>>
    BY <1>4 DEF CaptureSignals, TurnAt
  <2>2. "snapshot" \in TurnPlaces /\ (Ahead(ending.id)' => Ahead(ending.id))
    BY <2>1 DEF TurnPlaces, Ahead, TurnAt
  <2>3. /\ mlRows' \in [LabelCycles -> Int]
        /\ \A c \in LabelCycles : mlRows'[c] >= 0 => mlRows'[c] = nav[c]
    BY <1>0, <2>1, RowsWritten
  <2> QED BY <1>0, <2>1, <2>2, <2>3, RowsWaitOn
<1>5. CASE UpdateOutcome \/ UpdateOutcomeAggregate
  <2>1. /\ ending.pc \in {"labelEpisode", "labelMl"}
        /\ TurnGoes("labelMl") \/ TurnGoes("idle")
        /\ episodes' \in {episodes, OutcomeFor(episodes)} /\ mlRows' \in {mlRows, OutcomeFor(mlRows)}
        /\ UNCHANGED <<prices, wallet, nav, lessons, trainedOn>>
    BY <1>5 DEF UpdateOutcome, UpdateOutcomeAggregate, TurnAt
  <2>2. /\ episodes' \in [LabelCycles -> Int] /\ mlRows' \in [LabelCycles -> Int]
        /\ \A c \in LabelCycles : /\ episodes'[c] >= 0 => episodes'[c] = nav[c]
                                  /\ mlRows'[c] >= 0 => mlRows'[c] = nav[c]
    BY <1>0, <2>1, RowsWritten
  <2>3. ASSUME NEW pc \in {"labelMl", "idle"}, TurnGoes(pc) PROVE OutcomeInv'
    <3>1. pc \in TurnPlaces
      BY DEF TurnPlaces
    <3>2. ending'.pc = pc /\ ending'.id = ending.id
      BY <2>3, <3>1, EndingTyped
    <3>3. ~Ahead(ending.id)'
      <4>1. ending.id \in Nat
        BY <1>0
      <4> QED BY <2>3, <3>2, <4>1 DEF Ahead, TurnAt
    <3> QED BY <2>1, <2>2, <2>3, <3>1, <3>3, RowsWaitOn
  <2> QED BY <2>1, <2>3
<1>6. CASE TakeSnapshot
  <2>1. ending.pc = "snapshot" /\ UNCHANGED <<prices, wallet, episodes, mlRows, lessons, trainedOn>>
    BY <1>6 DEF TakeSnapshot, TurnAt
  <2>2. CASE TurnGoes("idle") /\ UNCHANGED nav
    <3>1. "idle" \in TurnPlaces
      BY DEF TurnPlaces
    <3>2. ending'.pc = "idle" /\ ending'.id = ending.id
      BY <2>2, <3>1, EndingTyped
    <3>3. ~Ahead(ending.id)'
      <4>1. ending.id \in Nat
        BY <1>0
      <4> QED BY <3>2, <4>1 DEF Ahead, TurnAt
    <3> QED BY <1>0, <2>1, <2>2, <3>1, <3>3, RowsWaitOn
  <2>3. CASE /\ wallet # None /\ nav' = [nav EXCEPT ![ending.id] = wallet]
             /\ ending' = [ending EXCEPT !.pc = "labelEpisode", !.pnl = wallet]
    <3>1. ending.id \in LabelCycles /\ nav[ending.id] = None
      BY <2>1 DEF OutcomeInv, TurnAt, Ahead
    <3>2. wallet \in Nat
      BY <1>0, <2>3
    <3>3. /\ ending' \in [pc : TurnPlaces, id : Nat, pnl : Int, signalled : BOOLEAN]
          /\ ending'.pc = "labelEpisode" /\ ending'.id = ending.id /\ ending'.pnl = wallet
      <4>1. "labelEpisode" \in TurnPlaces /\ wallet \in Int
        BY <3>2 DEF TurnPlaces
      <4> QED BY <1>0, <2>3, <4>1
    <3>4. /\ nav' \in [LabelCycles -> Nat \cup {None}] /\ nav'[ending.id] = wallet
          /\ \A c \in LabelCycles : c # ending.id => nav'[c] = nav[c]
      BY <1>0, <2>3, <3>1, <3>2
    <3>5. \A c \in LabelCycles : Ahead(c)' => c # ending.id /\ Ahead(c)
      BY <1>0, <3>1, <3>3 DEF Ahead, TurnAt, LabelCycles
    <3>6. \A c \in LabelCycles : Ahead(c)' => nav'[c] = None
      BY <3>4, <3>5 DEF OutcomeInv
    <3>7. \A c \in LabelCycles : nav[c] # None => nav'[c] = nav[c]
      BY <3>1, <3>4
    <3>8. \A c \in LabelCycles : /\ episodes[c] >= 0 => episodes[c] = nav'[c]
                                 /\ mlRows[c] >= 0 => mlRows[c] = nav'[c]
      BY <1>0, <3>7 DEF None
    <3>9. \A c \in trainedOn : nav'[c] # None
      BY <3>7 DEF OutcomeInv
    <3>10. wallet # None /\ ending'.pnl = nav'[ending'.id] /\ nav'[ending'.id] # None
      BY <2>3, <3>3, <3>4
    <3> QED BY <1>0, <2>1, <3>1, <3>3, <3>4, <3>6, <3>8, <3>9, <3>10 DEF OutcomeInv, TurnAt
  <2> QED BY <1>6, <2>2, <2>3 DEF TakeSnapshot
<1>7. CASE TurnBreaksOff
  <2>1. ending.pc # "idle" /\ TurnGoes("idle")
        /\ UNCHANGED <<prices, wallet, nav, episodes, mlRows, lessons, trainedOn>>
    BY <1>7 DEF TurnBreaksOff, TurnAt
  <2>2. "idle" \in TurnPlaces
    BY DEF TurnPlaces
  <2>3. ending'.pc = "idle" /\ ending'.id = ending.id
    BY <2>1, <2>2, EndingTyped
  <2>4. ~Ahead(ending.id)'
    <3>1. ending.id \in Nat
      BY <1>0
    <3> QED BY <2>3, <3>1 DEF Ahead, TurnAt
  <2> QED BY <1>0, <2>1, <2>2, <2>4, RowsWaitOn
<1>8. CASE RecordLesson \/ GivesTrainingData
  <2>1. UNCHANGED <<prices, wallet, ending, nav, episodes, mlRows>>
        /\ trainedOn' \in {trainedOn, TrainingRows}
    BY <1>8 DEF RecordLesson, GivesTrainingData
  <2>2. \A c \in TrainingRows : c \in LabelCycles /\ nav[c] # None
    BY <1>0 DEF TrainingRows, None
  <2>3. trainedOn' \subseteq LabelCycles /\ \A c \in trainedOn' : nav[c] # None
    BY <2>1, <2>2 DEF OutcomeInv
  <2> QED BY <2>1, <2>3 DEF OutcomeInv, Ahead, TurnAt
<1>9. CASE UNCHANGED outcomeVars
  BY <1>9 DEF outcomeVars, OutcomeInv, Ahead, TurnAt
<1> QED BY <1>1, <1>2, <1>3, <1>4, <1>5, <1>6, <1>7, <1>8, <1>9 DEF OutcomeNext

\* takeSnapshot() and its backfills: for any number of cycles, wherever one
\* breaks off and whichever write fails, the outcome of a row is its own cycle's,
\* and a model is trained on no row whose cycle has none.
THEOREM OutcomesAreOwn == OutcomeSpec => []OutcomeIsItsCycles
<1>1. OutcomeInv => OutcomeIsItsCycles
  BY DEF OutcomeInv, OutcomeIsItsCycles
<1> QED BY <1>1, OutcomeStarts, OutcomeStepKeeps, PTL DEF OutcomeSpec

\* The prices and the lessons are counted, no row has an outcome of prices that
\* are still to come, and no more lessons are kept than the cap.
PricesCounted ==
    /\ prices \in 0 .. MaxPrices /\ wallet \in {None} \cup 0 .. MaxPrices
    /\ nav \in [LabelCycles -> {None} \cup 0 .. MaxPrices]
    /\ decidedAt \in [LabelCycles -> 0 .. MaxPrices]

RowOutcomes == {None, Unknown} \cup 0 .. MaxPrices

RowsCounted ==
    /\ episodes \in [LabelCycles -> RowOutcomes] /\ mlRows \in [LabelCycles -> RowOutcomes]

LessonsCapped ==
    /\ lessons \in Seq(Nat) /\ Len(lessons) <= MAX_LESSON_ROWS
    /\ lessonsMade \in 0 .. MaxLessons

LEMMA OutcomeCounts ==
    /\ MaxPrices \in Nat /\ MaxLessons \in Nat /\ MAX_LESSON_ROWS \in Nat /\ MAX_LESSON_ROWS > 0
BY OutcomeAssumption

LEMMA PricesStayCounted ==
    ASSUME OutcomeInv, PricesCounted, OutcomeNext
    PROVE  PricesCounted'
<1>0. prices \in 0 .. MaxPrices /\ wallet \in {None} \cup 0 .. MaxPrices /\ MaxPrices \in Nat
      /\ nav \in [LabelCycles -> {None} \cup 0 .. MaxPrices]
      /\ decidedAt \in [LabelCycles -> 0 .. MaxPrices]
  BY OutcomeCounts DEF PricesCounted
<1>1. CASE PricesMove
  <2>1. prices < MaxPrices /\ prices' = prices + 1 /\ UNCHANGED <<wallet, nav, decidedAt>>
    BY <1>1 DEF PricesMove
  <2>2. prices' \in 0 .. MaxPrices
    BY <1>0, <2>1
  <2> QED BY <1>0, <2>1, <2>2 DEF PricesCounted
<1>2. CASE TurnDecides
  <2>1. PICK id \in LabelCycles : decidedAt' = [decidedAt EXCEPT ![id] = prices]
    BY <1>2 DEF TurnDecides
  <2>2. wallet' \in {wallet, prices} /\ UNCHANGED <<prices, nav>>
    BY <1>2 DEF TurnDecides
  <2> QED BY <1>0, <2>1, <2>2 DEF PricesCounted
<1>3. CASE TakeSnapshot
  <2>1. UNCHANGED <<prices, wallet, decidedAt>>
        /\ nav' \in {nav, [nav EXCEPT ![ending.id] = wallet]}
    BY <1>3 DEF TakeSnapshot
  <2> QED BY <1>0, <2>1 DEF PricesCounted
<1>4. CASE \/ RecordEpisode \/ CaptureSignals \/ UpdateOutcome \/ UpdateOutcomeAggregate
           \/ TurnBreaksOff \/ RecordLesson \/ GivesTrainingData
  <2>1. UNCHANGED <<prices, wallet, nav, decidedAt>>
    BY <1>4 DEF RecordEpisode, CaptureSignals, UpdateOutcome, UpdateOutcomeAggregate, TurnBreaksOff,
                RecordLesson, GivesTrainingData
  <2> QED BY <1>0, <2>1 DEF PricesCounted
<1> QED BY <1>1, <1>2, <1>3, <1>4 DEF OutcomeNext

LEMMA RowsStayCounted ==
    ASSUME OutcomeInv, PricesCounted, RowsCounted, OutcomeNext
    PROVE  RowsCounted'
<1>0. /\ episodes \in [LabelCycles -> RowOutcomes] /\ mlRows \in [LabelCycles -> RowOutcomes]
      /\ Unknown \in RowOutcomes
  BY DEF RowsCounted, RowOutcomes
<1>1. ASSUME NEW rows \in [LabelCycles -> RowOutcomes], ~TurnAt("idle"),
             ending.pc \in {"labelEpisode", "labelMl"}
      PROVE  OutcomeFor(rows) \in [LabelCycles -> RowOutcomes]
  <2>1. ending.id \in LabelCycles /\ ending.pnl = nav[ending.id]
    BY <1>1 DEF OutcomeInv
  <2>2. ending.pnl \in RowOutcomes
    BY <2>1 DEF PricesCounted, RowOutcomes
  <2> QED BY <1>1, <2>2 DEF OutcomeFor
<1>2. EpisodeRow \in [LabelCycles -> RowOutcomes] /\ SignalRows \in [LabelCycles -> RowOutcomes]
  BY <1>0 DEF EpisodeRow, SignalRows
<1>3. CASE RecordEpisode \/ CaptureSignals
  BY <1>0, <1>2, <1>3 DEF RecordEpisode, CaptureSignals, RowsCounted
<1>4. CASE UpdateOutcome
  <2>1. OutcomeFor(episodes) \in [LabelCycles -> RowOutcomes]
    BY <1>0, <1>1, <1>4 DEF UpdateOutcome, TurnAt
  <2> QED BY <1>0, <1>4, <2>1 DEF UpdateOutcome, RowsCounted
<1>5. CASE UpdateOutcomeAggregate
  <2>1. OutcomeFor(mlRows) \in [LabelCycles -> RowOutcomes]
    BY <1>0, <1>1, <1>5 DEF UpdateOutcomeAggregate, TurnAt
  <2> QED BY <1>0, <1>5, <2>1 DEF UpdateOutcomeAggregate, RowsCounted
<1>6. CASE \/ PricesMove \/ TurnDecides \/ TakeSnapshot \/ TurnBreaksOff \/ RecordLesson
           \/ GivesTrainingData
  <2>1. UNCHANGED <<episodes, mlRows>>
    BY <1>6 DEF PricesMove, TurnDecides, TakeSnapshot, TurnBreaksOff, RecordLesson, GivesTrainingData
  <2> QED BY <2>1 DEF RowsCounted
<1> QED BY <1>3, <1>4, <1>5, <1>6 DEF OutcomeNext

\* promote() adds one lesson, and takes the oldest away when there are too many.
LEMMA PromotedFits ==
    ASSUME LessonsCapped, NEW lesson \in Nat
    PROVE  Promoted(lesson) \in Seq(Nat) /\ Len(Promoted(lesson)) <= MAX_LESSON_ROWS
<1> DEFINE more == Append(lessons, lesson)
<1>1. more \in Seq(Nat) /\ Len(more) = Len(lessons) + 1 /\ more # <<>> /\ Len(lessons) \in Nat
  BY AppendProperties, LenProperties DEF LessonsCapped
<1>2. Len(lessons) <= MAX_LESSON_ROWS /\ MAX_LESSON_ROWS \in Nat
  BY OutcomeCounts DEF LessonsCapped
<1> HIDE DEF more
<1>3. Tail(more) \in Seq(Nat) /\ Len(Tail(more)) = Len(more) - 1
  BY <1>1, HeadTailProperties
<1>4. Promoted(lesson) = IF Len(lessons) < MAX_LESSON_ROWS THEN more ELSE Tail(more)
  BY DEF Promoted, more
<1> QED BY <1>1, <1>2, <1>3, <1>4

LEMMA LessonsStayCapped == ASSUME LessonsCapped, OutcomeNext PROVE LessonsCapped'
<1>1. CASE RecordLesson
  <2>1. lessonsMade < MaxLessons /\ lessonsMade' = lessonsMade + 1
        /\ lessons' \in {lessons, Promoted(lessonsMade + 1)}
    BY <1>1 DEF RecordLesson
  <2>2. lessonsMade + 1 \in Nat /\ lessonsMade' \in 0 .. MaxLessons
    BY <2>1, OutcomeCounts DEF LessonsCapped
  <2> QED BY <2>1, <2>2, PromotedFits DEF LessonsCapped
<1>2. CASE ~RecordLesson
  <2>1. UNCHANGED <<lessons, lessonsMade>>
    BY <1>2 DEF OutcomeNext, PricesMove, TurnDecides, RecordEpisode, CaptureSignals, TakeSnapshot,
                UpdateOutcome, UpdateOutcomeAggregate, TurnBreaksOff, GivesTrainingData
  <2> QED BY <2>1 DEF LessonsCapped
<1> QED BY <1>1, <1>2

\* The types of what a cycle leaves to learn from: an outcome is of prices there
\* have been, and the lessons stay within their cap.
THEOREM OutcomesKeepTypes == OutcomeSpec => []OutcomeTypeOK
<1>1. OutcomeInit => PricesCounted /\ RowsCounted /\ LessonsCapped
  <2> SUFFICES ASSUME OutcomeInit PROVE PricesCounted /\ RowsCounted /\ LessonsCapped OBVIOUS
  <2>1. 0 \in 0 .. MaxPrices /\ 0 \in 0 .. MaxLessons /\ 0 <= MAX_LESSON_ROWS
        /\ <<>> \in Seq(Nat) /\ Len(<<>>) = 0
    BY OutcomeCounts, EmptySeq
  <2>2. PricesCounted
    BY <2>1 DEF OutcomeInit, PricesCounted
  <2>3. RowsCounted
    BY DEF OutcomeInit, RowsCounted, RowOutcomes
  <2>4. LessonsCapped
    BY <2>1 DEF OutcomeInit, LessonsCapped
  <2> QED BY <2>2, <2>3, <2>4
<1>2. OutcomeInv /\ PricesCounted /\ RowsCounted /\ LessonsCapped /\ [OutcomeNext]_outcomeVars
        => (PricesCounted /\ RowsCounted /\ LessonsCapped)'
  <2> SUFFICES ASSUME OutcomeInv, PricesCounted, RowsCounted, LessonsCapped, [OutcomeNext]_outcomeVars
               PROVE  PricesCounted' /\ RowsCounted' /\ LessonsCapped'
    OBVIOUS
  <2>1. CASE OutcomeNext
    BY <2>1, PricesStayCounted, RowsStayCounted, LessonsStayCapped
  <2>2. CASE UNCHANGED outcomeVars
    BY <2>2 DEF outcomeVars, PricesCounted, RowsCounted, LessonsCapped
  <2> QED BY <2>1, <2>2
<1>3. OutcomeInv /\ PricesCounted /\ RowsCounted /\ LessonsCapped => OutcomeTypeOK
  BY DEF OutcomeInv, PricesCounted, RowsCounted, LessonsCapped, OutcomeTypeOK, RowOutcomes, TurnPlaces
<1> QED BY <1>1, <1>2, <1>3, OutcomeStarts, OutcomeStepKeeps, PTL DEF OutcomeSpec

-----------------------------------------------------------------------------
(* VetoBackfill                                                            *)

Judgements == [made : Int, method : Methods, on : Nat, mark : Int]
Sweeps == [busy : BOOLEAN, rows : SUBSET Decisions, fetching : Decisions \cup {NoDecision}, since : Nat]
Sweeping == Sweepers \cup {Timer}

VetoTypes ==
    /\ day \in Nat
    /\ verdicts \in [Decisions -> Judgements]
    /\ sweeps \in [Sweeping -> Sweeps]

\* A sweep has only rows of decisions that were made, and asks for the bars of
\* one whose horizon has passed.
SweepsKnow ==
    \A s \in Sweeping :
      /\ \A d \in sweeps[s].rows : Made(d)
      /\ sweeps[s].fetching # NoDecision =>
           /\ Made(sweeps[s].fetching)
           /\ sweeps[s].since >= verdicts[sweeps[s].fetching].made + HORIZON
           /\ sweeps[s].since <= day

UnmadeIsUnjudged == \A d \in Decisions : ~Made(d) => verdicts[d].method = "none"

BackfillInv == VetoTypes /\ SweepsKnow /\ UnmadeIsUnjudged /\ JudgedAtItsHorizon

\* Of a row of bars without a gap, the one that has HORIZON bars up to itself.
LEMMA MarkOfBars ==
    ASSUME NEW lo \in Int, NEW hi \in Int, Cardinality(lo .. hi) >= HORIZON
    PROVE  LocateMarkBar(lo .. hi) = lo + HORIZON - 1 /\ lo + HORIZON - 1 <= hi
<1>1. HORIZON \in Nat /\ HORIZON > 0
  BY VetoAssumption
<1>2. lo <= hi /\ hi - lo + 1 >= HORIZON
  BY <1>1, FS_Interval
<1>3. ASSUME NEW b \in lo .. hi
      PROVE  Cardinality({c \in lo .. hi : c <= b}) = b - lo + 1
  <2>1. {c \in lo .. hi : c <= b} = lo .. b
    OBVIOUS
  <2>2. Cardinality(lo .. b) = b - lo + 1
    BY FS_Interval
  <2> QED BY <2>1, <2>2
<1> DEFINE mark == lo + HORIZON - 1
<1>4. mark \in lo .. hi /\ mark - lo + 1 = HORIZON
  BY <1>1, <1>2
<1>5. \A b \in lo .. hi : Cardinality({c \in lo .. hi : c <= b}) = HORIZON => b = mark
  <2> SUFFICES ASSUME NEW b \in lo .. hi, Cardinality({c \in lo .. hi : c <= b}) = HORIZON
               PROVE  b = mark
    OBVIOUS
  <2>1. b - lo + 1 = HORIZON
    BY <1>3
  <2> QED BY <1>1, <2>1
<1>6. Cardinality({c \in lo .. hi : c <= mark}) = HORIZON
  BY <1>3, <1>4
<1> HIDE DEF mark
<1>7. LocateMarkBar(lo .. hi) = mark
  BY <1>4, <1>5, <1>6 DEF LocateMarkBar
<1>8. mark <= hi
  BY <1>4
<1> QED BY <1>7, <1>8 DEF mark

\* The bars of an answer that come after a decision.
LEMMA BarsAfter ==
    ASSUME VetoTypes, NEW d \in Decisions, NEW asked \in Nat, Made(d), NEW bars \in BarAnswers(asked),
           Cardinality(After(bars, d)) >= HORIZON
    PROVE  /\ LocateMarkBar(After(bars, d)) <= asked
           /\ LocateMarkBar(After(bars, d)) >= verdicts[d].made + HORIZON
           /\ asked - verdicts[d].made < MAX_FETCH_LIMIT =>
                LocateMarkBar(After(bars, d)) = verdicts[d].made + HORIZON
           /\ LocateMarkBar(After(bars, d)) \in Int
<1> DEFINE made == verdicts[d].made
           lo == IF Reach(asked) > made THEN Reach(asked) ELSE made + 1
<1>1. made \in Int /\ made >= 0 /\ HORIZON \in Nat /\ HORIZON > 0 /\ MAX_FETCH_LIMIT \in Nat
      /\ MAX_FETCH_LIMIT > 0
  BY VetoAssumption DEF VetoTypes, Judgements, Made
<1>2. Reach(asked) \in Int /\ (asked - made < MAX_FETCH_LIMIT => Reach(asked) <= made + 1)
  BY <1>1 DEF Reach
<1>3. lo \in Int /\ lo >= made + 1 /\ (asked - made < MAX_FETCH_LIMIT => lo = made + 1)
  BY <1>1, <1>2
<1>4. After(bars, d) = lo .. asked
  <2>1. bars # {}
    <3> SUFFICES ASSUME bars = {} PROVE FALSE OBVIOUS
    <3>1. After(bars, d) = {}
      BY DEF After
    <3>2. Cardinality({}) = 0
      BY FS_EmptySet
    <3> QED BY <1>1, <3>1, <3>2
  <2>2. bars = Reach(asked) .. asked
    BY <2>1 DEF BarAnswers
  <2>3. {b \in Reach(asked) .. asked : b > made} = lo .. asked
    BY <1>1, <1>2, <1>3
  <2> QED BY <2>2, <2>3 DEF After
<1> HIDE DEF lo
<1>5. LocateMarkBar(lo .. asked) = lo + HORIZON - 1 /\ lo + HORIZON - 1 <= asked
  BY <1>3, <1>4, MarkOfBars
<1> QED BY <1>1, <1>3, <1>4, <1>5

LEMMA BackfillStarts == VetoInit => BackfillInv
<1> SUFFICES ASSUME VetoInit PROVE BackfillInv OBVIOUS
<1>1. Asleep \in Sweeps /\ Asleep.rows = {} /\ Asleep.fetching = NoDecision
  BY DEF Asleep, Sweeps, NoDecision
<1>2. \A d \in Decisions : /\ verdicts[d] = [made |-> -1, method |-> "none", on |-> 0, mark |-> 0]
                           /\ verdicts[d] \in Judgements
  BY DEF VetoInit, Judgements, Methods
<1>3. VetoTypes
  BY <1>1, <1>2 DEF VetoInit, VetoTypes, Sweeping
<1>4. SweepsKnow
  BY <1>1 DEF VetoInit, SweepsKnow, Sweeping
<1> QED BY <1>2, <1>3, <1>4 DEF BackfillInv, UnmadeIsUnjudged, JudgedAtItsHorizon

\* The clock may go on and sweeps may begin, take a row or end, as long as what
\* they have are rows of decisions that were made.
LEMMA SweepMovesOn ==
    ASSUME BackfillInv, UNCHANGED verdicts, day' \in Nat, day' >= day,
           sweeps' \in [Sweeping -> Sweeps],
           \A s \in Sweeping :
             /\ \A d \in sweeps'[s].rows : Made(d)
             /\ \/ sweeps'[s].fetching = NoDecision
                \/ sweeps'[s].fetching = sweeps[s].fetching /\ sweeps'[s].since = sweeps[s].since
                \/ /\ Made(sweeps'[s].fetching)
                   /\ sweeps'[s].since >= verdicts[sweeps'[s].fetching].made + HORIZON
                   /\ sweeps'[s].since <= day
    PROVE  BackfillInv'
<1>1. day \in Nat /\ \A s \in Sweeping : sweeps[s].since \in Nat /\ sweeps'[s].since \in Nat
  BY DEF BackfillInv, VetoTypes, Sweeps
<1>2. ASSUME NEW s \in Sweeping
      PROVE  /\ \A d \in sweeps'[s].rows : Made(d)'
             /\ sweeps'[s].fetching # NoDecision =>
                  /\ Made(sweeps'[s].fetching)
                  /\ sweeps'[s].since >= verdicts[sweeps'[s].fetching].made + HORIZON
                  /\ sweeps'[s].since <= day'
  <2>1. \A d \in sweeps'[s].rows : Made(d)'
    BY DEF Made
  <2>2. CASE sweeps'[s].fetching = NoDecision
    BY <2>1, <2>2
  <2>3. CASE sweeps'[s].fetching = sweeps[s].fetching /\ sweeps'[s].since = sweeps[s].since
    BY <1>1, <2>1, <2>3 DEF BackfillInv, SweepsKnow
  <2>4. CASE /\ Made(sweeps'[s].fetching)
             /\ sweeps'[s].since >= verdicts[sweeps'[s].fetching].made + HORIZON
             /\ sweeps'[s].since <= day
    BY <1>1, <2>1, <2>4
  <2> QED BY <2>2, <2>3, <2>4
<1>3. SweepsKnow'
  BY <1>2 DEF SweepsKnow, Made
<1>4. VetoTypes' /\ UnmadeIsUnjudged' /\ JudgedAtItsHorizon'
  BY DEF BackfillInv, VetoTypes, UnmadeIsUnjudged, JudgedAtItsHorizon, Made
<1> QED BY <1>3, <1>4 DEF BackfillInv

\* A verdict that is written keeps when the decision was made.
LEMMA JudgeTyped ==
    ASSUME BackfillInv, NEW d \in Decisions, NEW method \in Methods, NEW mark \in Int,
           Made(d), Judge(d, method, mark),
           method = "insufficient_data" => day >= verdicts[d].made + HORIZON,
           method = "fixed_horizon" =>
             /\ mark <= day /\ mark >= verdicts[d].made + HORIZON
             /\ day - verdicts[d].made < MAX_FETCH_LIMIT => mark = verdicts[d].made + HORIZON
    PROVE  /\ verdicts' \in [Decisions -> Judgements]
           /\ \A e \in Decisions : verdicts'[e].made = verdicts[e].made
           /\ UnmadeIsUnjudged' /\ JudgedAtItsHorizon'
<1> DEFINE judged == [verdicts[d] EXCEPT !.method = method, !.on = day, !.mark = mark]
<1>1. verdicts \in [Decisions -> Judgements] /\ day \in Nat /\ verdicts[d] \in Judgements
  BY DEF BackfillInv, VetoTypes
<1>2. /\ judged \in Judgements /\ judged.made = verdicts[d].made /\ judged.method = method
      /\ judged.on = day /\ judged.mark = mark
  BY <1>1 DEF Judgements
<1>3. verdicts' = [verdicts EXCEPT ![d] = judged]
  BY <1>1 DEF Judge
<1> HIDE DEF judged
<1>4. /\ verdicts' \in [Decisions -> Judgements] /\ verdicts'[d] = judged
      /\ \A e \in Decisions : e # d => verdicts'[e] = verdicts[e]
  BY <1>1, <1>2, <1>3
<1>5. \A e \in Decisions : verdicts'[e].made = verdicts[e].made
  BY <1>2, <1>4
<1>6. UnmadeIsUnjudged'
  <2> SUFFICES ASSUME NEW e \in Decisions, ~(verdicts'[e].made >= 0)
               PROVE  verdicts'[e].method = "none"
    BY DEF UnmadeIsUnjudged, Made
  <2>1. ~Made(e) /\ e # d
    BY <1>5 DEF Made
  <2> QED BY <1>4, <2>1 DEF BackfillInv, UnmadeIsUnjudged
<1>7. ASSUME NEW e \in Decisions
      PROVE  /\ verdicts'[e].method = "insufficient_data" => verdicts'[e].on >= verdicts'[e].made + HORIZON
             /\ verdicts'[e].method = "fixed_horizon" =>
                  /\ verdicts'[e].mark <= verdicts'[e].on
                  /\ verdicts'[e].mark >= verdicts'[e].made + HORIZON
                  /\ verdicts'[e].on - verdicts'[e].made < MAX_FETCH_LIMIT =>
                       verdicts'[e].mark = verdicts'[e].made + HORIZON
  <2>1. CASE e = d
    BY <1>2, <1>4, <2>1
  <2>2. CASE e # d
    <3>1. verdicts'[e] = verdicts[e]
      BY <1>4, <2>2
    <3> QED BY <3>1 DEF BackfillInv, JudgedAtItsHorizon
  <2> QED BY <2>1, <2>2
<1>8. JudgedAtItsHorizon'
  BY <1>7 DEF JudgedAtItsHorizon
<1> QED BY <1>4, <1>5, <1>6, <1>8

\* A sweep writes a verdict, and goes on with what it had or without the row.
LEMMA VerdictKeeps ==
    ASSUME BackfillInv, UNCHANGED day, NEW s \in Sweeping, NEW d \in Decisions,
           NEW method \in Methods, NEW mark \in Int, Made(d), Judge(d, method, mark),
           method = "insufficient_data" => day >= verdicts[d].made + HORIZON,
           method = "fixed_horizon" =>
             /\ mark <= day /\ mark >= verdicts[d].made + HORIZON
             /\ day - verdicts[d].made < MAX_FETCH_LIMIT => mark = verdicts[d].made + HORIZON,
           sweeps' \in [Sweeping -> Sweeps],
           \A t \in Sweeping :
             /\ sweeps'[t].rows \subseteq sweeps[t].rows
             /\ \/ sweeps'[t].fetching = NoDecision
                \/ sweeps'[t].fetching = sweeps[t].fetching /\ sweeps'[t].since = sweeps[t].since
    PROVE  BackfillInv'
<1>1. /\ verdicts' \in [Decisions -> Judgements]
      /\ \A e \in Decisions : verdicts'[e].made = verdicts[e].made
      /\ UnmadeIsUnjudged' /\ JudgedAtItsHorizon'
  BY JudgeTyped
<1>2. \A t \in Sweeping : sweeps[t] \in Sweeps
  BY DEF BackfillInv, VetoTypes
<1>3. ASSUME NEW t \in Sweeping
      PROVE  /\ \A e \in sweeps'[t].rows : verdicts'[e].made >= 0
             /\ sweeps'[t].fetching # NoDecision =>
                  /\ verdicts'[sweeps'[t].fetching].made >= 0
                  /\ sweeps'[t].since >= verdicts'[sweeps'[t].fetching].made + HORIZON
                  /\ sweeps'[t].since <= day
  <2>1. ASSUME NEW e \in sweeps'[t].rows PROVE verdicts'[e].made >= 0
    <3>1. e \in sweeps[t].rows /\ e \in Decisions
      BY <1>2 DEF Sweeps
    <3> QED BY <1>1, <3>1 DEF BackfillInv, SweepsKnow, Made
  <2>2. ASSUME sweeps'[t].fetching # NoDecision
        PROVE  /\ verdicts'[sweeps'[t].fetching].made >= 0
               /\ sweeps'[t].since >= verdicts'[sweeps'[t].fetching].made + HORIZON
               /\ sweeps'[t].since <= day
    <3>1. sweeps'[t].fetching = sweeps[t].fetching /\ sweeps'[t].since = sweeps[t].since
      BY <2>2
    <3>2. sweeps[t].fetching \in Decisions
      BY <1>2, <2>2, <3>1 DEF Sweeps
    <3>3. /\ verdicts[sweeps[t].fetching].made >= 0
          /\ sweeps[t].since >= verdicts[sweeps[t].fetching].made + HORIZON
          /\ sweeps[t].since <= day
      BY <2>2, <3>1 DEF BackfillInv, SweepsKnow, Made
    <3>4. verdicts'[sweeps[t].fetching].made = verdicts[sweeps[t].fetching].made
      BY <1>1, <3>2
    <3> QED BY <3>1, <3>3, <3>4
  <2> QED BY <2>1, <2>2
<1>4. SweepsKnow'
  BY <1>3 DEF SweepsKnow, Made
<1> QED BY <1>1, <1>4 DEF BackfillInv, VetoTypes

\* What changes of one sweep changes of no other.
LEMMA SweepTyped ==
    ASSUME VetoTypes, NEW s \in Sweeping, NEW sweep \in Sweeps, sweeps' = [sweeps EXCEPT ![s] = sweep]
    PROVE  /\ sweeps' \in [Sweeping -> Sweeps] /\ sweeps'[s] = sweep
           /\ \A t \in Sweeping : t # s => sweeps'[t] = sweeps[t]
BY DEF VetoTypes

LEMMA SweepStepKeeps ==
    ASSUME BackfillInv, NEW s \in Sweeping,
           \/ BackfillRequested(s) \/ EvaluateRow(s) \/ RowFails(s) \/ EndSweep(s)
           \/ \E d \in Decisions : MarkUnresolvable(s, d) \/ LeavePending(s, d) \/ FetchBars(s, d)
           \/ s = Timer /\ BackfillTick
    PROVE  BackfillInv'
<1>0. /\ VetoTypes /\ day \in Nat /\ sweeps[s] \in Sweeps
      /\ Asleep \in Sweeps /\ Asleep.rows = {} /\ Asleep.fetching = NoDecision
  <2>1. Asleep \in Sweeps /\ Asleep.rows = {} /\ Asleep.fetching = NoDecision
    BY DEF Asleep, Sweeps, NoDecision
  <2> QED BY <2>1 DEF BackfillInv, VetoTypes
<1>n. \A d \in Decisions : d # NoDecision
  BY VetoAssumption DEF NoDecision
\* A sweep that takes no verdict.
<1>q. ASSUME NEW sweep \in Sweeps, sweeps' = [sweeps EXCEPT ![s] = sweep], UNCHANGED <<day, verdicts>>,
             \A d \in sweep.rows : Made(d),
             \/ sweep.fetching = NoDecision
             \/ sweep.fetching = sweeps[s].fetching /\ sweep.since = sweeps[s].since
             \/ /\ Made(sweep.fetching)
                /\ sweep.since >= verdicts[sweep.fetching].made + HORIZON
                /\ sweep.since <= day
      PROVE  BackfillInv'
  <2>1. /\ sweeps' \in [Sweeping -> Sweeps] /\ sweeps'[s] = sweep
        /\ \A t \in Sweeping : t # s => sweeps'[t] = sweeps[t]
    BY <1>0, <1>q, SweepTyped
  <2>2. ASSUME NEW t \in Sweeping
        PROVE  /\ \A d \in sweeps'[t].rows : Made(d)
               /\ \/ sweeps'[t].fetching = NoDecision
                  \/ sweeps'[t].fetching = sweeps[t].fetching /\ sweeps'[t].since = sweeps[t].since
                  \/ /\ Made(sweeps'[t].fetching)
                     /\ sweeps'[t].since >= verdicts[sweeps'[t].fetching].made + HORIZON
                     /\ sweeps'[t].since <= day
    <3>1. CASE t = s
      BY <1>q, <2>1, <3>1
    <3>2. CASE t # s
      <4>1. sweeps'[t] = sweeps[t] /\ \A d \in sweeps[t].rows : Made(d)
        BY <2>1, <3>2 DEF BackfillInv, SweepsKnow
      <4> QED BY <4>1
    <3> QED BY <3>1, <3>2
  <2>3. day' \in Nat /\ day' >= day
    BY <1>0, <1>q
  <2> QED BY <1>q, <2>1, <2>2, <2>3, SweepMovesOn
<1>1. ASSUME NEW reprocess \in BOOLEAN, StartSweep(s, reprocess) PROVE BackfillInv'
  <2> DEFINE sweep == [Asleep EXCEPT !.busy = TRUE, !.rows = Selected(reprocess)]
  <2>1. sweeps' = [sweeps EXCEPT ![s] = sweep] /\ UNCHANGED <<day, verdicts>>
    BY <1>1 DEF StartSweep
  <2>2. Selected(reprocess) \subseteq Decisions /\ \A d \in Selected(reprocess) : Made(d)
    BY DEF Selected
  <2>3. sweep \in Sweeps /\ sweep.rows = Selected(reprocess) /\ sweep.fetching = NoDecision
    BY <2>2 DEF Asleep, Sweeps
  <2> HIDE DEF sweep
  <2> QED BY <1>q, <2>1, <2>2, <2>3
<1>2. ASSUME NEW d \in Decisions, MarkUnresolvable(s, d) PROVE BackfillInv'
  <2> DEFINE sweep == [sweeps[s] EXCEPT !.rows = @ \ {d}]
  <2>1. /\ d \in sweeps[s].rows /\ Judge(d, Terminal[Proposal[d]], 0) /\ UNCHANGED day
        /\ sweeps' = [sweeps EXCEPT ![s] = sweep] /\ Proposal[d] \in DOMAIN Terminal
    BY <1>2 DEF MarkUnresolvable
  <2>2. Terminal[Proposal[d]] \in {"unsupported_action", "invalid_ref_price"}
    <3>1. Proposal[d] \in {"trade", "unsupported", "unpriced"}
      BY VetoAssumption
    <3> QED BY <2>1, <3>1 DEF Terminal
  <2>3. Terminal[Proposal[d]] \in Methods
        /\ Terminal[Proposal[d]] # "insufficient_data" /\ Terminal[Proposal[d]] # "fixed_horizon"
    BY <2>2 DEF Methods
  <2>4. Made(d)
    BY <2>1 DEF BackfillInv, SweepsKnow
  <2>5. sweep \in Sweeps /\ sweep.rows = sweeps[s].rows \ {d} /\ sweep.fetching = sweeps[s].fetching
        /\ sweep.since = sweeps[s].since
    BY <1>0 DEF Sweeps
  <2> HIDE DEF sweep
  <2>6. /\ sweeps' \in [Sweeping -> Sweeps] /\ sweeps'[s] = sweep
        /\ \A t \in Sweeping : t # s => sweeps'[t] = sweeps[t]
    BY <1>0, <2>1, <2>5, SweepTyped
  <2>7. \A t \in Sweeping : /\ sweeps'[t].rows \subseteq sweeps[t].rows
                            /\ sweeps'[t].fetching = sweeps[t].fetching
                            /\ sweeps'[t].since = sweeps[t].since
    BY <2>5, <2>6
  <2> HIDE DEF Terminal
  <2> QED BY <2>1, <2>3, <2>4, <2>6, <2>7, VerdictKeeps
<1>3. ASSUME NEW d \in Decisions, LeavePending(s, d) PROVE BackfillInv'
  <2> DEFINE sweep == [sweeps[s] EXCEPT !.rows = @ \ {d}]
  <2>1. sweeps' = [sweeps EXCEPT ![s] = sweep] /\ UNCHANGED <<day, verdicts>>
    BY <1>3 DEF LeavePending
  <2>2. sweep \in Sweeps /\ sweep.rows = sweeps[s].rows \ {d} /\ sweep.fetching = sweeps[s].fetching
        /\ sweep.since = sweeps[s].since
    BY <1>0 DEF Sweeps
  <2>3. \A e \in sweeps[s].rows : Made(e)
    BY DEF BackfillInv, SweepsKnow
  <2> HIDE DEF sweep
  <2> QED BY <1>q, <2>1, <2>2, <2>3
<1>4. ASSUME NEW d \in Decisions, FetchBars(s, d) PROVE BackfillInv'
  <2> DEFINE sweep == [sweeps[s] EXCEPT !.rows = @ \ {d}, !.fetching = d, !.since = day]
  <2>1. sweeps' = [sweeps EXCEPT ![s] = sweep] /\ UNCHANGED <<day, verdicts>>
        /\ d \in sweeps[s].rows /\ day >= verdicts[d].made + HORIZON
    BY <1>0, <1>4 DEF FetchBars, IsMature
  <2>2. sweep \in Sweeps /\ sweep.rows = sweeps[s].rows \ {d} /\ sweep.fetching = d
        /\ sweep.since = day
    BY <1>0 DEF Sweeps
  <2>3. \A e \in sweeps[s].rows : Made(e)
    BY DEF BackfillInv, SweepsKnow
  <2> HIDE DEF sweep
  <2>4. /\ Made(sweep.fetching) /\ sweep.since >= verdicts[sweep.fetching].made + HORIZON
        /\ sweep.since <= day
    <3>1. verdicts[d].made >= 0
      BY <2>1, <2>3 DEF Made
    <3> QED BY <1>0, <2>1, <2>2, <3>1 DEF Made
  <2>5. \A e \in sweep.rows : Made(e)
    BY <2>2, <2>3
  <2> QED BY <1>q, <2>1, <2>2, <2>4, <2>5
<1>5. ASSUME EvaluateRow(s) PROVE BackfillInv'
  <2> DEFINE d == sweeps[s].fetching
             sweep == [sweeps[s] EXCEPT !.fetching = NoDecision]
  <2>1. PICK bars \in BarAnswers(sweeps[s].since) :
          IF Cardinality(After(bars, d)) < HORIZON
          THEN Judge(d, "insufficient_data", 0)
          ELSE Judge(d, "fixed_horizon", LocateMarkBar(After(bars, d)))
    BY <1>5 DEF EvaluateRow
  <2>2. d # NoDecision /\ sweeps' = [sweeps EXCEPT ![s] = sweep] /\ UNCHANGED day
    BY <1>5 DEF EvaluateRow
  <2>3. d \in Decisions /\ sweeps[s].since \in Nat
    BY <1>0, <2>2 DEF Sweeps
  <2>4. Made(d) /\ sweeps[s].since >= verdicts[d].made + HORIZON /\ sweeps[s].since <= day
    BY <2>2 DEF BackfillInv, SweepsKnow
  <2>5. sweep \in Sweeps /\ sweep.rows = sweeps[s].rows /\ sweep.fetching = NoDecision
    BY <1>0 DEF Sweeps
  <2> HIDE DEF sweep
  <2>6. /\ sweeps' \in [Sweeping -> Sweeps] /\ sweeps'[s] = sweep
        /\ \A t \in Sweeping : t # s => sweeps'[t] = sweeps[t]
    BY <1>0, <2>2, <2>5, SweepTyped
  <2>7. \A t \in Sweeping :
          /\ sweeps'[t].rows \subseteq sweeps[t].rows
          /\ \/ sweeps'[t].fetching = NoDecision
             \/ sweeps'[t].fetching = sweeps[t].fetching /\ sweeps'[t].since = sweeps[t].since
    BY <2>5, <2>6
  <2>8. verdicts[d].made \in Int /\ MAX_FETCH_LIMIT \in Int /\ HORIZON \in Int
    BY <1>0, <2>3, VetoAssumption DEF VetoTypes, Judgements
  <2>9. CASE Judge(d, "insufficient_data", 0)
    <3>1. "insufficient_data" \in Methods /\ 0 \in Int /\ day >= verdicts[d].made + HORIZON
      BY <1>0, <2>3, <2>4, <2>8 DEF Methods
    <3> HIDE DEF d
    <3> QED BY <2>2, <2>3, <2>4, <2>6, <2>7, <2>9, <3>1, VerdictKeeps
  <2>10. CASE /\ ~(Cardinality(After(bars, d)) < HORIZON)
              /\ Judge(d, "fixed_horizon", LocateMarkBar(After(bars, d)))
    <3> DEFINE mark == LocateMarkBar(After(bars, d))
    <3>1. Cardinality(After(bars, d)) >= HORIZON
      <4>1. IsFiniteSet(After(bars, d)) /\ Cardinality(After(bars, d)) \in Nat
        <5>1. Reach(sweeps[s].since) \in Int
          BY <2>3, <2>8 DEF Reach
        <5>2. IsFiniteSet(bars)
          <6>1. IsFiniteSet(Reach(sweeps[s].since) .. sweeps[s].since) /\ IsFiniteSet({})
            BY <2>3, <5>1, FS_Interval, FS_EmptySet
          <6>2. bars \in {{}, Reach(sweeps[s].since) .. sweeps[s].since}
            BY DEF BarAnswers
          <6> QED BY <6>1, <6>2
        <5>3. After(bars, d) \subseteq bars
          BY DEF After
        <5> QED BY <5>2, <5>3, FS_Subset, FS_CardinalityType
      <4> QED BY <2>8, <2>10, <4>1
    <3>2. /\ mark <= sweeps[s].since /\ mark >= verdicts[d].made + HORIZON /\ mark \in Int
          /\ sweeps[s].since - verdicts[d].made < MAX_FETCH_LIMIT => mark = verdicts[d].made + HORIZON
      BY <1>0, <2>1, <2>3, <2>4, <3>1, BarsAfter
    <3>3. Judge(d, "fixed_horizon", mark) /\ "fixed_horizon" \in Methods
      BY <2>10 DEF Methods
    <3> HIDE DEF d, mark
    <3>4. /\ mark <= day /\ mark >= verdicts[d].made + HORIZON
          /\ day - verdicts[d].made < MAX_FETCH_LIMIT => mark = verdicts[d].made + HORIZON
      BY <1>0, <2>3, <2>4, <2>8, <3>2
    <3> QED BY <2>2, <2>3, <2>4, <2>6, <2>7, <3>2, <3>3, <3>4, VerdictKeeps
  <2> QED BY <2>1, <2>9, <2>10
<1>6. ASSUME RowFails(s) PROVE BackfillInv'
  <2> DEFINE sweep == [sweeps[s] EXCEPT !.fetching = NoDecision]
  <2>1. sweeps' = [sweeps EXCEPT ![s] = sweep] /\ UNCHANGED <<day, verdicts>>
    BY <1>6 DEF RowFails
  <2>2. sweep \in Sweeps /\ sweep.rows = sweeps[s].rows /\ sweep.fetching = NoDecision
    BY <1>0 DEF Sweeps
  <2>3. \A e \in sweeps[s].rows : Made(e)
    BY DEF BackfillInv, SweepsKnow
  <2> HIDE DEF sweep
  <2> QED BY <1>q, <2>1, <2>2, <2>3
<1>7. ASSUME EndSweep(s) PROVE BackfillInv'
  <2>1. sweeps' = [sweeps EXCEPT ![s] = Asleep] /\ UNCHANGED <<day, verdicts>>
    BY <1>7 DEF EndSweep
  <2> QED BY <1>0, <1>q, <2>1
<1> QED BY <1>1, <1>2, <1>3, <1>4, <1>5, <1>6, <1>7 DEF BackfillRequested, BackfillTick

LEMMA BackfillStepKeeps == BackfillInv /\ [VetoNext]_vetoVars => BackfillInv'
<1> SUFFICES ASSUME BackfillInv, [VetoNext]_vetoVars PROVE BackfillInv' OBVIOUS
<1>0. VetoTypes /\ DOMAIN sweeps = Sweeping /\ Timer \in Sweeping /\ day \in Nat
  BY DEF BackfillInv, VetoTypes, Sweeping
<1>1. CASE NextBar
  <2>1. day' = day + 1 /\ UNCHANGED <<verdicts, sweeps>>
    BY <1>1 DEF NextBar
  <2>2. sweeps' \in [Sweeping -> Sweeps] /\ day' \in Nat /\ day' >= day
    BY <1>0, <2>1 DEF VetoTypes
  <2>3. \A s \in Sweeping : \A d \in sweeps'[s].rows : Made(d)
    BY <2>1 DEF BackfillInv, SweepsKnow
  <2> QED BY <2>1, <2>2, <2>3, SweepMovesOn
<1>2. CASE RestartAnalyzer
  <2>1. sweeps' = [s \in Sweeping |-> Asleep] /\ UNCHANGED <<day, verdicts>>
    BY <1>0, <1>2 DEF RestartAnalyzer
  <2>2. Asleep \in Sweeps /\ Asleep.rows = {} /\ Asleep.fetching = NoDecision
    BY DEF Asleep, Sweeps, NoDecision
  <2>3. sweeps' \in [Sweeping -> Sweeps]
        /\ \A s \in Sweeping : sweeps'[s].rows = {} /\ sweeps'[s].fetching = NoDecision
    BY <2>1, <2>2
  <2>4. day' \in Nat /\ day' >= day
    BY <1>0, <2>1
  <2> QED BY <2>1, <2>3, <2>4, SweepMovesOn
<1>3. ASSUME NEW d \in Decisions, RecordVeto(d) PROVE BackfillInv'
  <2> DEFINE row == [verdicts[d] EXCEPT !.made = day]
  <2>1. ~Made(d) /\ verdicts' = [verdicts EXCEPT ![d] = row] /\ UNCHANGED <<day, sweeps>>
    BY <1>3 DEF RecordVeto
  <2>2. verdicts[d] \in Judgements /\ verdicts[d].method = "none"
    BY <2>1 DEF BackfillInv, VetoTypes, UnmadeIsUnjudged
  <2>3. row \in Judgements /\ row.made = day /\ row.method = "none"
    BY <1>0, <2>2 DEF Judgements
  <2> HIDE DEF row
  <2>4. /\ verdicts' \in [Decisions -> Judgements] /\ verdicts'[d] = row
        /\ \A e \in Decisions : e # d => verdicts'[e] = verdicts[e]
    BY <1>0, <2>1, <2>3 DEF VetoTypes
  <2>5. \A e \in Decisions : verdicts'[e].method = "none" \/ verdicts'[e] = verdicts[e]
    BY <2>3, <2>4
  <2>6. JudgedAtItsHorizon'
    BY <2>5 DEF BackfillInv, JudgedAtItsHorizon
  <2>7. UnmadeIsUnjudged'
    BY <2>5 DEF BackfillInv, UnmadeIsUnjudged, Made
  <2>8. \A e \in Decisions : Made(e) => verdicts'[e] = verdicts[e]
    BY <2>1, <2>4
  <2>9. SweepsKnow'
    <3> SUFFICES ASSUME NEW s \in Sweeping
                 PROVE  /\ \A e \in sweeps[s].rows : verdicts'[e].made >= 0
                        /\ sweeps[s].fetching # NoDecision =>
                             /\ verdicts'[sweeps[s].fetching].made >= 0
                             /\ sweeps[s].since >= verdicts'[sweeps[s].fetching].made + HORIZON
                             /\ sweeps[s].since <= day
      BY <2>1 DEF SweepsKnow, Made
    <3>1. sweeps[s].rows \subseteq Decisions /\ sweeps[s].fetching \in Decisions \cup {NoDecision}
      BY <1>0 DEF VetoTypes, Sweeps
    <3>2. \A e \in sweeps[s].rows : Made(e)
      BY DEF BackfillInv, SweepsKnow
    <3>3. ASSUME sweeps[s].fetching # NoDecision
          PROVE  /\ Made(sweeps[s].fetching)
                 /\ sweeps[s].since >= verdicts[sweeps[s].fetching].made + HORIZON
                 /\ sweeps[s].since <= day
      BY <3>3 DEF BackfillInv, SweepsKnow
    <3>4. \A e \in sweeps[s].rows : verdicts'[e].made >= 0
      BY <2>8, <3>1, <3>2 DEF Made
    <3> QED BY <2>8, <3>1, <3>3, <3>4 DEF Made
  <2> QED BY <1>0, <2>1, <2>4, <2>6, <2>7, <2>9 DEF BackfillInv, VetoTypes
<1>4. CASE UNCHANGED vetoVars
  BY <1>4 DEF vetoVars, BackfillInv, VetoTypes, SweepsKnow, UnmadeIsUnjudged, JudgedAtItsHorizon, Made
<1> QED BY <1>0, <1>1, <1>2, <1>3, <1>4, SweepStepKeeps DEF VetoNext

\* VetoAnalyzerService.backfill(): for any number of decisions and of sweeps
\* that overlap, fail or are cut off, a decision is judged by the bar its
\* horizon names, or condemned only once that horizon has passed.
THEOREM VerdictsAreTimely == VetoSpec => []JudgedAtItsHorizon
<1>1. BackfillInv => JudgedAtItsHorizon
  BY DEF BackfillInv
<1> QED BY <1>1, BackfillStarts, BackfillStepKeeps, PTL DEF VetoSpec
=============================================================================
