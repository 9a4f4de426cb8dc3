------------------------------ MODULE RuntimeSync ------------------------------
(***************************************************************************)
(* How projection evidence and the policy that selects it reach the        *)
(* database of the Worker.  Three commands write it, from the owner's      *)
(* machine and statement by statement over HTTP: the sync of the compact   *)
(* baseline history, the sync of a hybrid history (artifacts, then the     *)
(* version that names them), and the sync of the policy alone.  Each reads *)
(* the active policy at its start and replaces it as its last step; each   *)
(* may be interrupted anywhere, run again, or run beside another.          *)
(***************************************************************************)
CONSTANTS
  Command,      \* command invocations
  Dataset,      \* baseline history versions
  Row,          \* the observations of a baseline history
  Version,      \* hybrid history versions
  Part,         \* the artifacts of a hybrid history: index, players, census, manifest
  Read,         \* those that are read when a history is loaded: index and manifest
  Intent,       \* the owner's settings that are not about projections
  NoVersion, NoPolicy

ASSUME RuntimeAssumption ==
  /\ NoVersion \notin Version
  /\ Read \subseteq Part

VARIABLES
  observations, \* the stored rows of each baseline history
  artifacts,    \* the stored artifacts
  histories,    \* the published hybrid versions
  active,       \* the row of runtime_policy
  command       \* the invocations

RuntimeVars == <<observations, artifacts, histories, active, command>>

Policy == [dataset : Dataset, hybrid : Version \cup {NoVersion}, shadow : BOOLEAN,
           provider : {"baseline", "hybrid"}, intent : Intent]
ASSUME NoPolicyAssumption == NoPolicy \notin Policy /\ NoPolicy \notin Dataset

CommandState ==
  [stage : {"done", "upload", "publish", "load", "check", "rows", "count", "compare", "save"},
   base : Policy \cup {NoPolicy},   \* the active policy as it was read
   next : Policy \cup {NoPolicy},   \* the policy to save; NoPolicy: none
   moved : BOOLEAN,                 \* history: another policy was saved since the comparison
   version : Version \cup {NoVersion}, dataset : Dataset \cup {NoPolicy}]
Start(stage) == [stage |-> stage, base |-> NoPolicy, next |-> NoPolicy, moved |-> FALSE,
                 version |-> NoVersion, dataset |-> NoPolicy]
Idling == Start("done")

RuntimeTypeOK ==
  /\ observations \in [Dataset -> SUBSET Row]
  /\ artifacts \subseteq Version \X Part
  /\ histories \subseteq Version
  /\ active \in Policy \cup {NoPolicy}
  /\ command \in [Command -> CommandState]

\* RuntimePolicy.__post_init__: hybrid advice and shadow need a version.
Valid(policy) ==
  policy.shadow \/ policy.provider = "hybrid" => policy.hybrid # NoVersion
UsesHybrid(policy) == policy.shadow \/ policy.provider = "hybrid"
Loadable(v) == v \in histories /\ {v} \X Read \subseteq artifacts

Begun(c, state) ==
  /\ command[c].stage = "done"
  /\ command' = [command EXCEPT ![c] = state]
  /\ UNCHANGED <<observations, artifacts, histories, active>>
To(c, stage) == command' = [command EXCEPT ![c].stage = stage]

----------------------------------------------------------------------------
\* sync_hybrid_runtime_history: enabling shadow takes the policy as it is now.
BeginHybrid(c, v) ==
  \/ Begun(c, [Start("upload") EXCEPT !.version = v])
  \/ /\ active # NoPolicy
     /\ Begun(c, [Start("upload") EXCEPT !.version = v, !.base = active,
                    !.next = [active EXCEPT !.hybrid = v, !.shadow = TRUE]])

\* Artifacts are stored by content, one statement each; what is there is kept.
Upload(c) == LET wanted == {command[c].version} \X Part IN
  /\ command[c].stage = "upload"
  /\ \/ \E a \in wanted \ artifacts :
          artifacts' = artifacts \cup {a} /\ UNCHANGED command
     \/ wanted \subseteq artifacts /\ To(c, "publish") /\ UNCHANGED artifacts
  /\ UNCHANGED <<observations, histories, active>>

\* The version row comes last, after every artifact was read back.
PublishHistory(c) == LET v == command[c].version IN
  /\ command[c].stage = "publish"
  /\ {v} \X Part \subseteq artifacts
  /\ histories' = histories \cup {v}
  /\ To(c, "load")
  /\ UNCHANGED <<observations, artifacts, active>>

LoadHistory(c) ==
  /\ command[c].stage = "load"
  /\ Loadable(command[c].version)
  /\ To(c, IF command[c].next = NoPolicy THEN "done" ELSE "save")
  /\ UNCHANGED <<observations, artifacts, histories, active>>

\* sync_runtime_policy: settings without a projections table keep the selection.
BeginPolicy(c) ==
  /\ active # NoPolicy
  /\ \E next \in Policy :
       /\ Valid(next) /\ next.dataset = active.dataset
       /\ Begun(c, [Start("check") EXCEPT !.base = active, !.next = next])

\* The hybrid selection is not read back.
CheckPolicyWrongUnread(c) == LET next == command[c].next IN
  /\ command[c].stage = "check"
  /\ next.provider = "baseline" => observations[next.dataset] # {}
  /\ To(c, "compare")
  /\ UNCHANGED <<observations, artifacts, histories, active>>

\* A hybrid selection must be loadable (the players' artifacts are not looked
\* at), a baseline must have observations.
CheckPolicy(c) == LET next == command[c].next IN
  /\ command[c].stage = "check"
  /\ UsesHybrid(next) => Loadable(next.hybrid)
  /\ next.provider = "baseline" => observations[next.dataset] # {}
  /\ To(c, "compare")
  /\ UNCHANGED <<observations, artifacts, histories, active>>

\* The policy read at the start is trusted.
ComparePolicyWrongTrust(c) ==
  /\ command[c].stage = "compare"
  /\ To(c, "save")
  /\ UNCHANGED <<observations, artifacts, histories, active>>

\* The policy is read again; a change ends the command.
ComparePolicy(c) ==
  /\ command[c].stage = "compare"
  /\ To(c, IF active = command[c].base THEN "save" ELSE "done")
  /\ UNCHANGED <<observations, artifacts, histories, active>>

\* sync_cloudflare_runtime_data: without a hybrid version of its own it takes
\* over the selection it reads; otherwise it verifies its own.
Preserved(next) == [next EXCEPT !.hybrid = active.hybrid, !.shadow = active.shadow,
                                !.provider = active.provider]
BeginData(c, d) ==
  \E next \in Policy :
    /\ Valid(next) /\ next.dataset = d
    /\ \/ /\ active # NoPolicy /\ next.hybrid = NoVersion
          /\ Begun(c, [Start("rows") EXCEPT !.dataset = d, !.base = active,
                         !.next = Preserved(next)])
       \/ /\ active = NoPolicy \/ next.hybrid # NoVersion
          /\ UsesHybrid(next) => Loadable(next.hybrid)
          /\ Begun(c, [Start("rows") EXCEPT !.dataset = d, !.base = active,
                         !.next = next])

\* The remote batch is a request per row.
UploadRow(c) == LET d == command[c].dataset IN
  /\ command[c].stage = "rows"
  /\ \/ \E r \in Row \ observations[d] :
          /\ observations' = [observations EXCEPT ![d] = @ \cup {r}]
          /\ UNCHANGED command
     \/ Row \subseteq observations[d] /\ To(c, "count") /\ UNCHANGED observations
  /\ UNCHANGED <<artifacts, histories, active>>

CountRows(c) ==
  /\ command[c].stage = "count"
  /\ observations[command[c].dataset] = Row
  /\ To(c, "save")
  /\ UNCHANGED <<observations, artifacts, histories, active>>

SavePolicy(c) ==
  /\ command[c].stage = "save"
  /\ active' = command[c].next
  /\ command' = [o \in Command |->
       IF o = c THEN Idling
       ELSE [command[o] EXCEPT !.moved = @ \/ command[o].stage = "save"]]
  /\ UNCHANGED <<observations, artifacts, histories>>

\* A request fails, a check does not hold, or the owner stops the command.
Abandon(c) ==
  /\ command[c].stage # "done"
  /\ command' = [command EXCEPT ![c] = Idling]
  /\ UNCHANGED <<observations, artifacts, histories, active>>

----------------------------------------------------------------------------
RuntimeInit ==
  /\ observations = [d \in Dataset |-> {}]
  /\ artifacts = {}
  /\ histories = {}
  /\ active = NoPolicy
  /\ command = [c \in Command |-> Idling]

RuntimeNext == \E c \in Command :
  \/ \E v \in Version : BeginHybrid(c, v)
  \/ \E d \in Dataset : BeginData(c, d)
  \/ Upload(c) \/ PublishHistory(c) \/ LoadHistory(c)
  \/ BeginPolicy(c) \/ CheckPolicy(c) \/ ComparePolicy(c)
  \/ UploadRow(c) \/ CountRows(c) \/ SavePolicy(c) \/ Abandon(c)

RuntimeSpec == RuntimeInit /\ [][RuntimeNext]_RuntimeVars

----------------------------------------------------------------------------
Backed(policy) ==
  /\ observations[policy.dataset] = Row
  /\ UsesHybrid(policy) => policy.hybrid \in histories /\ {policy.hybrid} \X Part \subseteq artifacts

\* Whatever is interrupted, repeated or run side by side, the active policy
\* names evidence that is complete in the database: the Worker never selects
\* a history some of whose rows or artifacts are still to come.
PolicyIsBacked == active # NoPolicy => Backed(active)

\* The sync of the policy alone undoes a change another command saved since it
\* read the policy only if that save fell between its comparison and its own.
PolicySyncKeepsChanges ==
  [][\A c \in Command :
       /\ command[c].stage = "save" /\ command'[c].stage = "done" /\ active' # active
       /\ command[c].version = NoVersion /\ command[c].dataset = NoPolicy
       => active = command[c].base \/ command[c].moved]_RuntimeVars
=============================================================================
