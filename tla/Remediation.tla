---------------------------- MODULE Remediation ----------------------------
(***************************************************************************)
(* What becomes of a failure or an incident that is handed to the          *)
(* remediation service: the playbook it is matched with, the files and the *)
(* risk of the task that is proposed, what the policy of self-repair       *)
(* decides, and what executing the remediation does.                       *)
(*                                                                         *)
(* A code or a category is the set of the words the matching looks for, a  *)
(* glob the directory it stands for, and a protected file is known by its  *)
(* name and its directory.                                                 *)
(***************************************************************************)
CONSTANT None   \* in the place of a failure or an incident that is not there

Taxonomies == {"transient", "timeout", "materialization", "planning", "cancellation", "drift", "policy",
               "dependency", "environment", "runner", "review", "execution", "unknown"}
Failures == [taxonomy : Taxonomies, code : SUBSET {"WORKSPACE", "STRUCTURED_OUTPUT", "EVIDENCE"}]
Incidents == [source : {"bridge", "runner", "workspace", "review", "runtime", "validation"},
              category : SUBSET {"drift", "cleanup", "evidence"}]
Reports == [failure : Failures \cup {None}, incident : Incidents \cup {None}]

Failed(r, taxonomies) == r.failure # None /\ r.failure.taxonomy \in taxonomies
Coded(r, word) == r.failure # None /\ word \in r.failure.code
Reported(r, word) == r.incident # None /\ word \in r.incident.category

\* match: the first of these.
Match(r) ==
  IF Reported(r, "drift") THEN "bridge_drift_recovery"
  ELSE IF Failed(r, {"timeout"}) THEN "runner_timeout_recovery"
  ELSE IF \/ Coded(r, "WORKSPACE") \/ Reported(r, "cleanup")
          \/ r.incident # None /\ r.incident.source = "workspace" THEN "workspace_cleanup_repair"
  ELSE IF Failed(r, {"drift"}) THEN "selector_update_review"
  ELSE IF Coded(r, "STRUCTURED_OUTPUT") THEN "prompt_template_repair"
  ELSE IF Coded(r, "EVIDENCE") \/ Reported(r, "evidence") THEN "evidence_gap_repair"
  ELSE IF Failed(r, {"transient", "runner"}) THEN "retry_policy_tuning"
  ELSE "manual_attention"

Play(risk, automatic, scope) == [risk |-> risk, automatic |-> automatic, scope |-> scope]

\* DEFAULT_PLAYBOOKS. "services", "storage" and so on are globs of the orchestrator's directories.
Playbook(category) ==
  CASE category = "bridge_drift_recovery" -> Play("low", TRUE, {"bridge/dom", "bridge/guards", "bridge/services"})
    [] category = "runner_timeout_recovery" -> Play("medium", FALSE, {"services", "contracts", "utils"})
    [] category = "workspace_cleanup_repair" ->
         Play("low", TRUE, {"services/workspace-*.ts", "contracts/cleanup-policy.ts"})
    [] category = "evidence_gap_repair" -> Play("low", TRUE, {"services", "storage", "utils"})
    [] category = "prompt_template_repair" ->
         Play("low", TRUE, {"services/*review*.ts", "services/*payload*.ts"})
    [] category = "selector_update_review" ->
         Play("medium", FALSE, {"bridge/dom", "bridge/guards", "bridge/adapters"})
    [] category = "retry_policy_tuning" ->
         Play("medium", FALSE, {"config", "services/retry-service.ts", "services/runner-lifecycle-service.ts"})
    [] category = "manual_attention" -> Play("high", FALSE, {})

\* DEFAULT_PROHIBITED_PATTERNS, and the directory each of these files is in.
Protected == {"domain/stage.ts", "services/gate-evaluator.ts", "services/run-acceptance-service.ts",
              "contracts/evidence-manifest.ts", "contracts/task-graph.ts"}
Directory(file) ==
  CASE file = "domain/stage.ts" -> "domain"
    [] file \in {"services/gate-evaluator.ts", "services/run-acceptance-service.ts"} -> "services"
    [] file \in {"contracts/evidence-manifest.ts", "contracts/task-graph.ts"} -> "contracts"

\* FailureToTaskService: the task that is proposed may touch what the playbook does.
AllowedFiles(category) == Playbook(category).scope

AutoAllowed == {"bridge_drift_recovery", "evidence_gap_repair", "prompt_template_repair",
                "workspace_cleanup_repair"}
ReviewRequired == {"runner_timeout_recovery", "selector_update_review", "retry_policy_tuning"}
Categories == AutoAllowed \cup ReviewRequired \cup {"manual_attention"}

\* decide: a protected file counts when a target path contains its name.
Decision(category, targets) ==
  IF targets \cap Protected # {} THEN "manual_only"
  ELSE IF category \in AutoAllowed THEN "auto_allowed"
  ELSE IF category \in ReviewRequired THEN "review_required" ELSE "manual_only"

\* propose: the targets are the files of the proposal. The playbook is matched twice, alike.
Propose(r) == [category |-> Match(r), decision |-> Decision(Match(r), AllowedFiles(Match(r)))]

\* buildActions, when the remediation is executed.
RemediationAction(remediation) ==
  IF remediation.decision # "auto_allowed" THEN "manual_attention"
  ELSE IF remediation.category = "workspace_cleanup_repair" THEN "trigger_workspace_gc"
  ELSE IF remediation.category = "evidence_gap_repair" THEN "capture_debug_snapshot"
  ELSE "propose_remediation_task"
============================================================================
