---------------------------- MODULE RuntimeSyncProofs ----------------------------
(***************************************************************************)
(* RuntimeTypeOK, PolicyIsBacked and PolicySyncKeepsChanges hold of        *)
(* RuntimeSpec for any commands, histories and artifacts.  PolicyIsBacked  *)
(* is not inductive: a command decides on its policy long before it saves  *)
(* it.  What makes the decision last is that evidence only grows, so that  *)
(* whatever a command has verified by one stage is still there at the next *)
(* (Progress).                                                             *)
(***************************************************************************)
EXTENDS RuntimeSync, TLAPS

\* A published version is complete: its row was stored after its artifacts.
HistoriesComplete == \A v \in histories : {v} \X Part \subseteq artifacts

\* The policy c is about to save names observations that are all there.
ObservationsReady(c) ==
  command[c].next # NoPolicy => observations[command[c].next.dataset] = Row

\* What a command has established by the stage it is in.
Progress(c) ==
  /\ command[c].stage \in {"upload", "publish", "load"} =>
       /\ command[c].version \in Version
       /\ ObservationsReady(c)
       /\ command[c].next # NoPolicy => command[c].next.hybrid = command[c].version
  /\ command[c].stage = "check" =>
       command[c].next # NoPolicy /\ ObservationsReady(c)
  /\ command[c].stage \in {"compare", "save"} =>
       command[c].next # NoPolicy /\ Backed(command[c].next)
  /\ command[c].stage \in {"rows", "count"} =>
       /\ command[c].next # NoPolicy
       /\ command[c].next.dataset = command[c].dataset
       /\ UsesHybrid(command[c].next) => command[c].next.hybrid \in histories

RuntimeInv ==
  /\ RuntimeTypeOK
  /\ HistoriesComplete
  /\ PolicyIsBacked
  /\ \A c \in Command : Progress(c)

EvidenceGrows ==
  /\ \A d \in Dataset : observations[d] = Row => observations'[d] = Row
  /\ artifacts \subseteq artifacts'
  /\ histories \subseteq histories'

----------------------------------------------------------------------------
\* A command that rests, or was just begun, is in a state commands may be in.
LEMMA StartType ==
  ASSUME NEW stage \in {"done", "upload", "check", "rows"}
  PROVE  Start(stage) \in CommandState
  BY DEF Start, CommandState

\* Every action leaves the variables in their types; an upload does because a
\* command that uploads has a version.
LEMMA TypeStep == RuntimeInv /\ [RuntimeNext]_RuntimeVars => RuntimeTypeOK'
<1> SUFFICES ASSUME RuntimeInv, [RuntimeNext]_RuntimeVars PROVE RuntimeTypeOK'
  OBVIOUS
<1> RuntimeTypeOK
  BY DEF RuntimeInv
<1> USE DEF RuntimeTypeOK
<1>1. CASE UNCHANGED RuntimeVars
  BY <1>1 DEF RuntimeVars
<1>2. ASSUME NEW c \in Command, NEW v \in Version, BeginHybrid(c, v) PROVE RuntimeTypeOK'
  <2>1. [Start("upload") EXCEPT !.version = v] \in CommandState
    BY DEF Start, CommandState
  <2>2. active # NoPolicy =>
          [Start("upload") EXCEPT !.version = v, !.base = active,
             !.next = [active EXCEPT !.hybrid = v, !.shadow = TRUE]] \in CommandState
    BY DEF Start, CommandState, Policy
  <2>3. QED
    BY <1>2, <2>1, <2>2 DEF BeginHybrid, Begun
<1>3. ASSUME NEW c \in Command, NEW d \in Dataset, BeginData(c, d) PROVE RuntimeTypeOK'
  <2>1. PICK next \in Policy :
          \/ active # NoPolicy /\ Begun(c, [Start("rows") EXCEPT !.dataset = d, !.base = active,
                                              !.next = Preserved(next)])
          \/ Begun(c, [Start("rows") EXCEPT !.dataset = d, !.base = active, !.next = next])
    BY <1>3 DEF BeginData
  <2>2. [Start("rows") EXCEPT !.dataset = d, !.base = active, !.next = next] \in CommandState
    BY DEF Start, CommandState
  <2>3. active # NoPolicy => Preserved(next) \in Policy
    BY DEF Preserved, Policy
  <2>4. active # NoPolicy =>
          [Start("rows") EXCEPT !.dataset = d, !.base = active, !.next = Preserved(next)]
            \in CommandState
    BY <2>3 DEF Start, CommandState
  <2>5. QED
    BY <2>1, <2>2, <2>4 DEF Begun
<1>4. ASSUME NEW c \in Command, BeginPolicy(c) PROVE RuntimeTypeOK'
  <2>1. PICK next \in Policy :
          Begun(c, [Start("check") EXCEPT !.base = active, !.next = next])
    BY <1>4 DEF BeginPolicy
  <2>2. [Start("check") EXCEPT !.base = active, !.next = next] \in CommandState
    BY DEF Start, CommandState
  <2>3. QED
    BY <2>1, <2>2 DEF Begun
<1>5. ASSUME NEW c \in Command,
             Upload(c) \/ PublishHistory(c) \/ LoadHistory(c) \/ CheckPolicy(c)
               \/ ComparePolicy(c) \/ UploadRow(c) \/ CountRows(c)
      PROVE  RuntimeTypeOK'
  <2>1. command[c].stage \in {"upload", "publish"} => command[c].version \in Version
    BY DEF RuntimeInv, Progress
  <2>2. ASSUME NEW stage \in {"done", "publish", "load", "count", "compare", "save"}
        PROVE  [command EXCEPT ![c].stage = stage] \in [Command -> CommandState]
    BY DEF CommandState
  <2>3. command' \in [Command -> CommandState]
    BY <1>5, <2>2 DEF Upload, PublishHistory, LoadHistory, CheckPolicy, ComparePolicy,
                      UploadRow, CountRows, To
  <2>4. CASE Upload(c)
    BY <2>3, <2>4, <2>1 DEF Upload, To
  <2>5. CASE PublishHistory(c)
    BY <2>3, <2>5, <2>1 DEF PublishHistory, To
  <2>6. CASE UploadRow(c)
    BY <2>3, <2>6 DEF UploadRow, To
  <2>7. QED
    BY <1>5, <2>3, <2>4, <2>5, <2>6 DEF LoadHistory, CheckPolicy, ComparePolicy, CountRows
<1>6. ASSUME NEW c \in Command, SavePolicy(c) PROVE RuntimeTypeOK'
  <2>1. command[c].next \in Policy \cup {NoPolicy}
    BY DEF CommandState
  <2>2. ASSUME NEW o \in Command
        PROVE  [command[o] EXCEPT !.moved = @ \/ command[o].stage = "save"] \in CommandState
    BY DEF CommandState
  <2>3. command' \in [Command -> CommandState]
    BY <1>6, <2>2, StartType DEF SavePolicy, Idling
  <2>4. QED
    BY <1>6, <2>1, <2>3 DEF SavePolicy
<1>7. ASSUME NEW c \in Command, Abandon(c) PROVE RuntimeTypeOK'
  BY <1>7, StartType DEF Abandon, Idling
<1>8. QED
  BY <1>1, <1>2, <1>3, <1>4, <1>5, <1>6, <1>7 DEF RuntimeNext

----------------------------------------------------------------------------
\* What a command has established survives whatever adds evidence.
LEMMA ProgressLasts ==
  ASSUME RuntimeInv, EvidenceGrows, NEW o \in Command,
         command'[o].stage = command[o].stage, command'[o].next = command[o].next,
         command'[o].version = command[o].version, command'[o].dataset = command[o].dataset
  PROVE  Progress(o)'
<1>1. command[o].next \in Policy \cup {NoPolicy}
  BY DEF RuntimeInv, RuntimeTypeOK, CommandState
<1>2. command[o].next # NoPolicy => command[o].next.dataset \in Dataset
  BY <1>1 DEF Policy
<1>3. ObservationsReady(o) => ObservationsReady(o)'
  BY <1>2 DEF ObservationsReady, EvidenceGrows
<1>4. command[o].next # NoPolicy /\ Backed(command[o].next)
        => Backed(command[o].next)'
  BY <1>2 DEF Backed, UsesHybrid, EvidenceGrows
<1>5. Progress(o)
  BY DEF RuntimeInv
<1>6. QED
  BY <1>3, <1>4, <1>5 DEF Progress, EvidenceGrows, Backed, UsesHybrid

\* A step of c that adds evidence and leaves the active policy alone.
LEMMA OrdinaryStep ==
  ASSUME RuntimeInv, RuntimeTypeOK', EvidenceGrows, HistoriesComplete', active' = active,
         NEW c \in Command, \A o \in Command \ {c} : command'[o] = command[o],
         Progress(c)'
  PROVE  RuntimeInv'
<1>1. PolicyIsBacked'
  <2>1. active # NoPolicy => active.dataset \in Dataset
    BY DEF RuntimeInv, RuntimeTypeOK, Policy
  <2>2. QED
    BY <2>1 DEF RuntimeInv, PolicyIsBacked, Backed, UsesHybrid, EvidenceGrows
<1>2. \A o \in Command : Progress(o)'
  BY ProgressLasts
<1>3. QED
  BY <1>1, <1>2 DEF RuntimeInv

----------------------------------------------------------------------------
\* What holds of every command in a step that only moves one of them.
LEMMA BeginStep ==
  ASSUME RuntimeInv, RuntimeTypeOK', NEW c \in Command, NEW state, Begun(c, state),
         Progress(c)'
  PROVE  RuntimeInv'
<1>1. EvidenceGrows /\ HistoriesComplete'
  BY DEF Begun, EvidenceGrows, RuntimeInv, HistoriesComplete
<1>2. \A o \in Command \ {c} : command'[o] = command[o]
  BY DEF Begun, RuntimeInv, RuntimeTypeOK
<1>3. QED
  BY <1>1, <1>2, OrdinaryStep DEF Begun

LEMMA HybridStep ==
  ASSUME RuntimeInv, RuntimeTypeOK', NEW c \in Command,
         \/ \E v \in Version : BeginHybrid(c, v)
         \/ Upload(c) \/ PublishHistory(c) \/ LoadHistory(c)
  PROVE  RuntimeInv'
<1> USE DEF RuntimeInv, RuntimeTypeOK
<1>0. Progress(c)
  OBVIOUS
<1>1. ASSUME NEW v \in Version, BeginHybrid(c, v) PROVE RuntimeInv'
  <2>1. CASE Begun(c, [Start("upload") EXCEPT !.version = v])
    <3>1. command'[c] = [Start("upload") EXCEPT !.version = v]
      BY <2>1 DEF Begun
    <3>2. Progress(c)'
      BY <3>1 DEF Progress, ObservationsReady, Start
    <3>3. QED
      BY <2>1, <3>2, BeginStep
  <2>2. ASSUME active # NoPolicy,
               Begun(c, [Start("upload") EXCEPT !.version = v, !.base = active,
                           !.next = [active EXCEPT !.hybrid = v, !.shadow = TRUE]])
        PROVE  RuntimeInv'
    <3> DEFINE next == [active EXCEPT !.hybrid = v, !.shadow = TRUE]
    <3>1. /\ command'[c].stage = "upload" /\ command'[c].version = v
          /\ command'[c].next = next
      BY <2>2 DEF Begun, Start
    <3>2. next.dataset = active.dataset /\ next.hybrid = v
      BY <2>2 DEF Policy
    <3>3. observations' = observations /\ observations[active.dataset] = Row
      BY <2>2 DEF Begun, PolicyIsBacked, Backed
    <3>4. Progress(c)'
      BY <3>1, <3>2, <3>3 DEF Progress, ObservationsReady
    <3>5. QED
      BY <2>2, <3>4, BeginStep
  <2>3. QED
    BY <1>1, <2>1, <2>2 DEF BeginHybrid
<1>2. CASE Upload(c)
  <2>1. EvidenceGrows /\ HistoriesComplete'
    BY <1>2 DEF Upload, EvidenceGrows, HistoriesComplete
  <2>2. /\ \A o \in Command \ {c} : command'[o] = command[o]
        /\ command'[c].stage \in {"upload", "publish"}
        /\ command'[c].next = command[c].next
        /\ command'[c].version = command[c].version
    BY <1>2 DEF Upload, To, CommandState
  <2>3. Progress(c)'
    BY <1>0, <1>2, <2>2 DEF Progress, ObservationsReady, Upload
  <2>4. QED
    BY <1>2, <2>1, <2>2, <2>3, OrdinaryStep DEF Upload
<1>3. CASE PublishHistory(c)
  <2>1. EvidenceGrows /\ HistoriesComplete'
    BY <1>3 DEF PublishHistory, EvidenceGrows, HistoriesComplete
  <2>2. /\ \A o \in Command \ {c} : command'[o] = command[o]
        /\ command'[c].stage = "load"
        /\ command'[c].next = command[c].next
        /\ command'[c].version = command[c].version
    BY <1>3 DEF PublishHistory, To, CommandState
  <2>3. Progress(c)'
    BY <1>0, <1>3, <2>2 DEF Progress, ObservationsReady, PublishHistory
  <2>4. QED
    BY <1>3, <2>1, <2>2, <2>3, OrdinaryStep DEF PublishHistory
<1>4. CASE LoadHistory(c)
  <2>1. EvidenceGrows /\ HistoriesComplete'
    BY <1>4 DEF LoadHistory, EvidenceGrows, HistoriesComplete
  <2>2. /\ \A o \in Command \ {c} : command'[o] = command[o]
        /\ command'[c].stage \in {"done", "save"}
        /\ command'[c].stage = "save" => command[c].next # NoPolicy
        /\ command'[c].next = command[c].next
    BY <1>4 DEF LoadHistory, To, CommandState
  <2>3. command[c].next # NoPolicy => Backed(command[c].next)
    BY <1>0, <1>4 DEF LoadHistory, Loadable, Progress, ObservationsReady, Backed,
                      HistoriesComplete
  <2>4. Progress(c)'
    BY <1>4, <2>2, <2>3 DEF Progress, Backed, LoadHistory
  <2>5. QED
    BY <1>4, <2>1, <2>2, <2>4, OrdinaryStep DEF LoadHistory
<1>5. QED
  BY <1>1, <1>2, <1>3, <1>4

LEMMA PolicyStep ==
  ASSUME RuntimeInv, RuntimeTypeOK', NEW c \in Command,
         BeginPolicy(c) \/ CheckPolicy(c) \/ ComparePolicy(c)
  PROVE  RuntimeInv'
<1> USE DEF RuntimeInv, RuntimeTypeOK
<1>0. Progress(c)
  OBVIOUS
<1>1. CASE BeginPolicy(c)
  <2>1. PICK next \in Policy :
          /\ next.dataset = active.dataset
          /\ Begun(c, [Start("check") EXCEPT !.base = active, !.next = next])
    BY <1>1 DEF BeginPolicy
  <2>2. command'[c].stage = "check" /\ command'[c].next = next
    BY <2>1 DEF Begun, Start
  <2>3. observations' = observations /\ observations[next.dataset] = Row
    BY <1>1, <2>1 DEF BeginPolicy, Begun, PolicyIsBacked, Backed
  <2>4. Progress(c)'
    BY <2>2, <2>3, NoPolicyAssumption DEF Progress, ObservationsReady
  <2>5. QED
    BY <2>1, <2>4, BeginStep
<1>2. ASSUME CheckPolicy(c) \/ ComparePolicy(c) PROVE RuntimeInv'
  <2>1. /\ EvidenceGrows /\ HistoriesComplete'
        /\ observations' = observations /\ artifacts' = artifacts /\ histories' = histories
    BY <1>2 DEF CheckPolicy, ComparePolicy, EvidenceGrows, HistoriesComplete
  <2>2. /\ \A o \in Command \ {c} : command'[o] = command[o]
        /\ command'[c].stage \in {"compare", "save", "done"}
        /\ command'[c].next = command[c].next
    BY <1>2 DEF CheckPolicy, ComparePolicy, To, CommandState
  <2>3. command[c].next # NoPolicy /\ Backed(command[c].next)
    BY <1>0, <1>2 DEF CheckPolicy, ComparePolicy, Loadable, Progress, ObservationsReady,
                      Backed, HistoriesComplete
  <2>4. Progress(c)'
    BY <2>1, <2>2, <2>3 DEF Progress, Backed
  <2>5. QED
    BY <1>2, <2>1, <2>2, <2>4, OrdinaryStep DEF CheckPolicy, ComparePolicy
<1>3. QED
  BY <1>1, <1>2

LEMMA DataStep ==
  ASSUME RuntimeInv, RuntimeTypeOK', NEW c \in Command,
         (\E d \in Dataset : BeginData(c, d)) \/ UploadRow(c) \/ CountRows(c)
  PROVE  RuntimeInv'
<1> USE DEF RuntimeInv, RuntimeTypeOK
<1>0. Progress(c)
  OBVIOUS
<1>1. ASSUME NEW d \in Dataset, BeginData(c, d) PROVE RuntimeInv'
  <2>1. ASSUME NEW next \in Policy, next.dataset = d,
               UsesHybrid(next) => next.hybrid \in histories,
               Begun(c, [Start("rows") EXCEPT !.dataset = d, !.base = active, !.next = next])
        PROVE  RuntimeInv'
    <3>1. /\ command'[c].stage = "rows" /\ command'[c].next = next
          /\ command'[c].dataset = d
      BY <2>1 DEF Begun, Start
    <3>2. Progress(c)'
      BY <2>1, <3>1, NoPolicyAssumption DEF Progress, Begun
    <3>3. QED
      BY <2>1, <3>2, BeginStep
  <2>2. ASSUME NEW next \in Policy, next.dataset = d, active # NoPolicy,
               Begun(c, [Start("rows") EXCEPT !.dataset = d, !.base = active,
                           !.next = Preserved(next)])
        PROVE  RuntimeInv'
    <3>1. Preserved(next) \in Policy /\ Preserved(next).dataset = d
      BY <2>2 DEF Preserved, Policy
    <3>2. UsesHybrid(Preserved(next)) => Preserved(next).hybrid \in histories
      BY <2>2 DEF Preserved, Policy, UsesHybrid, PolicyIsBacked, Backed
    <3>3. QED
      BY <2>1, <2>2, <3>1, <3>2
  <2>3. QED
    BY <1>1, <2>1, <2>2 DEF BeginData, Loadable
<1>2. CASE UploadRow(c)
  <2>1. EvidenceGrows /\ HistoriesComplete'
    BY <1>2 DEF UploadRow, EvidenceGrows, HistoriesComplete
  <2>2. /\ \A o \in Command \ {c} : command'[o] = command[o]
        /\ command'[c].stage \in {"rows", "count"}
        /\ command'[c].next = command[c].next
        /\ command'[c].dataset = command[c].dataset
    BY <1>2 DEF UploadRow, To, CommandState
  <2>3. Progress(c)'
    BY <1>0, <1>2, <2>2 DEF Progress, UploadRow
  <2>4. QED
    BY <1>2, <2>1, <2>2, <2>3, OrdinaryStep DEF UploadRow
<1>3. CASE CountRows(c)
  <2>1. EvidenceGrows /\ HistoriesComplete'
    BY <1>3 DEF CountRows, EvidenceGrows, HistoriesComplete
  <2>2. /\ \A o \in Command \ {c} : command'[o] = command[o]
        /\ command'[c].stage = "save"
        /\ command'[c].next = command[c].next
    BY <1>3 DEF CountRows, To, CommandState
  <2>3. command[c].next # NoPolicy /\ Backed(command[c].next)
    BY <1>0, <1>3 DEF CountRows, Progress, Backed, HistoriesComplete
  <2>4. Progress(c)'
    BY <1>3, <2>2, <2>3 DEF Progress, Backed, CountRows
  <2>5. QED
    BY <1>3, <2>1, <2>2, <2>4, OrdinaryStep DEF CountRows
<1>4. QED
  BY <1>1, <1>2, <1>3

LEMMA SaveStep ==
  ASSUME RuntimeInv, RuntimeTypeOK', NEW c \in Command, SavePolicy(c)
  PROVE  RuntimeInv'
<1> USE DEF RuntimeInv, RuntimeTypeOK
<1>1. EvidenceGrows /\ HistoriesComplete'
  BY DEF SavePolicy, EvidenceGrows, HistoriesComplete
<1>2. PolicyIsBacked'
  <2>1. Backed(command[c].next)
    BY DEF SavePolicy, Progress
  <2>2. QED
    BY <2>1 DEF SavePolicy, PolicyIsBacked, Backed
<1>3. ASSUME NEW o \in Command PROVE Progress(o)'
  <2>1. CASE o = c
    <3>1. command'[c] = Idling
      BY DEF SavePolicy
    <3>2. QED
      BY <2>1, <3>1 DEF Progress, Idling, Start
  <2>2. CASE o # c
    <3>1. command'[o] = [command[o] EXCEPT !.moved = command[o].moved \/ command[o].stage = "save"]
      BY <2>2 DEF SavePolicy
    <3>2. /\ command'[o].stage = command[o].stage /\ command'[o].next = command[o].next
          /\ command'[o].version = command[o].version
          /\ command'[o].dataset = command[o].dataset
      BY <3>1 DEF CommandState
    <3>3. QED
      BY <1>1, <3>2, ProgressLasts
  <2>3. QED
    BY <2>1, <2>2
<1>4. QED
  BY <1>1, <1>2, <1>3

LEMMA AbandonStep ==
  ASSUME RuntimeInv, RuntimeTypeOK', NEW c \in Command, Abandon(c)
  PROVE  RuntimeInv'
<1> USE DEF RuntimeInv, RuntimeTypeOK
<1>1. EvidenceGrows /\ HistoriesComplete'
  BY DEF Abandon, EvidenceGrows, HistoriesComplete
<1>2. (\A o \in Command \ {c} : command'[o] = command[o]) /\ command'[c] = Idling
  BY DEF Abandon
<1>3. Progress(c)'
  BY <1>2 DEF Progress, Idling, Start
<1>4. QED
  BY <1>1, <1>2, <1>3, OrdinaryStep DEF Abandon

----------------------------------------------------------------------------
LEMMA RuntimeStart == RuntimeInit => RuntimeInv
<1> SUFFICES ASSUME RuntimeInit PROVE RuntimeInv
  OBVIOUS
<1>1. RuntimeTypeOK
  BY StartType DEF RuntimeInit, RuntimeTypeOK, Idling
<1>2. \A c \in Command : Progress(c)
  BY DEF RuntimeInit, Progress, Idling, Start
<1>3. QED
  BY <1>1, <1>2 DEF RuntimeInit, RuntimeInv, HistoriesComplete, PolicyIsBacked

LEMMA RuntimeStep == RuntimeInv /\ [RuntimeNext]_RuntimeVars => RuntimeInv'
<1> SUFFICES ASSUME RuntimeInv, [RuntimeNext]_RuntimeVars PROVE RuntimeInv'
  OBVIOUS
<1>0. RuntimeTypeOK'
  BY TypeStep
<1>1. CASE UNCHANGED RuntimeVars
  BY <1>0, <1>1 DEF RuntimeVars, RuntimeInv, HistoriesComplete, PolicyIsBacked, Progress,
                    ObservationsReady, Backed, UsesHybrid
<1>2. CASE RuntimeNext
  <2>1. PICK c \in Command :
          \/ \E v \in Version : BeginHybrid(c, v)
          \/ \E d \in Dataset : BeginData(c, d)
          \/ Upload(c) \/ PublishHistory(c) \/ LoadHistory(c)
          \/ BeginPolicy(c) \/ CheckPolicy(c) \/ ComparePolicy(c)
          \/ UploadRow(c) \/ CountRows(c) \/ SavePolicy(c) \/ Abandon(c)
    BY <1>2 DEF RuntimeNext
  <2>2. QED
    BY <1>0, <2>1, HybridStep, PolicyStep, DataStep, SaveStep, AbandonStep
<1>3. QED
  BY <1>1, <1>2

----------------------------------------------------------------------------
\* Only the sync of the policy alone gets to its save without a version and
\* without a dataset, through a comparison; whatever is saved after that
\* comparison leaves its mark.
Compared(c) ==
  /\ command[c].stage \in {"rows", "count"} => command[c].dataset # NoPolicy
  /\ command[c].stage = "save" /\ command[c].version = NoVersion /\ command[c].dataset = NoPolicy
       => active = command[c].base \/ command[c].moved

\* A step that leaves the policy alone and moves a command leaves the others compared.
LEMMA ComparedElsewhere ==
  ASSUME \A o \in Command : Compared(o), active' = active, NEW c \in Command,
         \A o \in Command \ {c} : command'[o] = command[o], Compared(c)'
  PROVE  \A o \in Command : Compared(o)'
  BY DEF Compared

LEMMA ComparedStart == RuntimeInit => \A c \in Command : Compared(c)
<1> SUFFICES ASSUME RuntimeInit, NEW c \in Command PROVE Compared(c)
  OBVIOUS
<1>1. command[c].stage = "done"
  BY DEF RuntimeInit, Idling, Start
<1>2. QED
  BY <1>1 DEF Compared

LEMMA ComparedStep ==
  RuntimeInv /\ (\A c \in Command : Compared(c)) /\ [RuntimeNext]_RuntimeVars
    => \A c \in Command : Compared(c)'
<1> SUFFICES ASSUME RuntimeInv, \A c \in Command : Compared(c), [RuntimeNext]_RuntimeVars
             PROVE  \A c \in Command : Compared(c)'
  OBVIOUS
<1> USE DEF RuntimeInv, RuntimeTypeOK
<1>1. CASE UNCHANGED RuntimeVars
  BY <1>1 DEF RuntimeVars, Compared
<1>2. ASSUME NEW c \in Command,
             (\E v \in Version : BeginHybrid(c, v)) \/ (\E d \in Dataset : BeginData(c, d))
               \/ BeginPolicy(c)
      PROVE  \A o \in Command : Compared(o)'
  <2>1. ASSUME NEW state, Begun(c, state),
               \/ state.stage \in {"upload", "check"}
               \/ state.stage = "rows" /\ state.dataset \in Dataset
        PROVE  \A o \in Command : Compared(o)'
    <3>1. command'[c] = state /\ \A o \in Command \ {c} : command'[o] = command[o]
      BY <2>1 DEF Begun
    <3>2. Compared(c)'
      BY <2>1, <3>1, NoPolicyAssumption DEF Compared
    <3>3. QED
      BY <2>1, <3>1, <3>2, ComparedElsewhere DEF Begun
  <2>2. CASE \E v \in Version : BeginHybrid(c, v)
    BY <2>1, <2>2 DEF BeginHybrid, Start
  <2>3. ASSUME NEW d \in Dataset, BeginData(c, d) PROVE \A o \in Command : Compared(o)'
    <3>1. PICK next \in Policy :
            \/ Begun(c, [Start("rows") EXCEPT !.dataset = d, !.base = active,
                           !.next = Preserved(next)])
            \/ Begun(c, [Start("rows") EXCEPT !.dataset = d, !.base = active, !.next = next])
      BY <2>3 DEF BeginData
    <3>2. QED
      BY <2>1, <3>1 DEF Start
  <2>4. CASE BeginPolicy(c)
    BY <2>1, <2>4 DEF BeginPolicy, Start
  <2>5. QED
    BY <1>2, <2>2, <2>3, <2>4
<1>3. ASSUME NEW c \in Command,
             Upload(c) \/ PublishHistory(c) \/ LoadHistory(c) \/ CheckPolicy(c)
               \/ ComparePolicy(c) \/ UploadRow(c) \/ CountRows(c)
      PROVE  \A o \in Command : Compared(o)'
  <2>1. command[c] \in CommandState /\ Compared(c) /\ Progress(c)
    OBVIOUS
  <2>2. PICK stage : command' = [command EXCEPT ![c].stage = stage]
    <3>1. command' = command => command' = [command EXCEPT ![c].stage = command[c].stage]
      BY <2>1 DEF CommandState
    <3>2. QED
      BY <1>3, <3>1 DEF Upload, PublishHistory, LoadHistory, CheckPolicy, ComparePolicy,
                        UploadRow, CountRows, To
  <2>3. /\ \A o \in Command \ {c} : command'[o] = command[o]
        /\ command'[c] = [command[c] EXCEPT !.stage = stage]
    BY <2>2
  <2>4. /\ command'[c].base = command[c].base /\ command'[c].moved = command[c].moved
        /\ command'[c].version = command[c].version
        /\ command'[c].dataset = command[c].dataset
    BY <2>1, <2>3 DEF CommandState
  <2>5. active' = active
    BY <1>3 DEF Upload, PublishHistory, LoadHistory, CheckPolicy, ComparePolicy, UploadRow,
                CountRows
  <2>6. Compared(c)'
    <3>1. CASE Upload(c) \/ PublishHistory(c)
      BY <2>1, <2>4, <2>5, <3>1 DEF Upload, PublishHistory, To, Compared, CommandState
    <3>2. CASE LoadHistory(c)
      <4>1. command[c].version # NoVersion
        BY <2>1, <3>2, RuntimeAssumption DEF LoadHistory, Progress
      <4>2. command'[c].stage \in {"done", "save"}
        BY <2>1, <3>2 DEF LoadHistory, To, CommandState
      <4>3. QED
        BY <2>4, <4>1, <4>2 DEF Compared
    <3>3. CASE CheckPolicy(c)
      BY <2>1, <2>4, <2>5, <3>3 DEF CheckPolicy, To, Compared, CommandState
    <3>4. CASE ComparePolicy(c)
      BY <2>1, <2>4, <2>5, <3>4 DEF ComparePolicy, To, Compared, CommandState
    <3>5. CASE UploadRow(c) \/ CountRows(c)
      <4>1. command[c].dataset # NoPolicy
        BY <2>1, <3>5 DEF UploadRow, CountRows, Compared
      <4>2. QED
        BY <2>4, <4>1 DEF Compared
    <3>6. QED
      BY <1>3, <3>1, <3>2, <3>3, <3>4, <3>5
  <2>7. QED
    BY <2>3, <2>5, <2>6, ComparedElsewhere
<1>4. ASSUME NEW c \in Command, SavePolicy(c) PROVE \A o \in Command : Compared(o)'
  <2>1. command'[c] = Idling
    BY <1>4 DEF SavePolicy
  <2>2. ASSUME NEW o \in Command, o # c PROVE Compared(o)'
    <3>1. command'[o] = [command[o] EXCEPT !.moved = command[o].moved \/ command[o].stage = "save"]
      BY <1>4, <2>2 DEF SavePolicy
    <3>2. /\ command'[o].stage = command[o].stage /\ command'[o].dataset = command[o].dataset
          /\ command'[o].moved = (command[o].moved \/ command[o].stage = "save")
      BY <3>1 DEF CommandState
    <3>3. Compared(o)
      OBVIOUS
    <3>4. QED
      BY <3>2, <3>3 DEF Compared
  <2>3. Compared(c)'
    BY <2>1 DEF Compared, Idling, Start
  <2>4. QED
    BY <2>2, <2>3
<1>5. ASSUME NEW c \in Command, Abandon(c) PROVE \A o \in Command : Compared(o)'
  <2>1. (\A o \in Command \ {c} : command'[o] = command[o]) /\ command'[c] = Idling
    BY <1>5 DEF Abandon
  <2>2. Compared(c)'
    BY <2>1 DEF Compared, Idling, Start
  <2>3. QED
    BY <1>5, <2>1, <2>2, ComparedElsewhere DEF Abandon
<1>6. QED
  BY <1>1, <1>2, <1>3, <1>4, <1>5 DEF RuntimeNext

----------------------------------------------------------------------------
\* Whatever commands run, are interrupted, repeated or interleaved, and however
\* large the histories are, the policy in force names complete evidence.
THEOREM PolicyBacked == RuntimeSpec => []PolicyIsBacked
<1>1. RuntimeInv => PolicyIsBacked
  BY DEF RuntimeInv
<1>2. QED
  BY <1>1, RuntimeStart, RuntimeStep, PTL DEF RuntimeSpec

\* The commands keep to their stages and the tables to their columns; that an
\* upload stores artifacts of a version at all is part of the same induction.
THEOREM RuntimeTyped == RuntimeSpec => []RuntimeTypeOK
<1>1. RuntimeInv => RuntimeTypeOK
  BY DEF RuntimeInv
<1>2. QED
  BY <1>1, RuntimeStart, RuntimeStep, PTL DEF RuntimeSpec

\* The sync of the policy alone overwrites nothing it has not seen, but for what
\* another command saves between its comparison and its own save.
THEOREM PolicySyncComparesFirst == RuntimeSpec => PolicySyncKeepsChanges
<1> DEFINE AllCompared == \A c \in Command : Compared(c)
<1> DEFINE Keeps ==
      \A c \in Command :
        /\ command[c].stage = "save" /\ command'[c].stage = "done" /\ active' # active
        /\ command[c].version = NoVersion /\ command[c].dataset = NoPolicy
        => active = command[c].base \/ command[c].moved
<1>1. RuntimeInit => AllCompared
  BY ComparedStart
<1>2. RuntimeInv /\ AllCompared /\ [RuntimeNext]_RuntimeVars => AllCompared'
  BY ComparedStep
<1>3. AllCompared => Keeps
  BY DEF Compared
<1> HIDE DEF AllCompared, Keeps
<1>4. RuntimeSpec => [][Keeps]_RuntimeVars
  BY <1>1, <1>2, <1>3, RuntimeStart, RuntimeStep, PTL DEF RuntimeSpec
<1>5. QED
  BY <1>4 DEF PolicySyncKeepsChanges, Keeps
=============================================================================
