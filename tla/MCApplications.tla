--------------------------- MODULE MCApplications ---------------------------
(* The packages of the data lifecycle, the SDK's bundle file, the sandbox,  *)
(* the review records of the API and the web app's states share no state and*)
(* run here one after the other: focus picks the one that runs, the others  *)
(* stay as they began, so that the state spaces add up.                     *)
EXTENDS Compaction, Migrations, BackupRetention, BundleFileStore, PluginSandbox,
        ReviewRecords, LifecycleReview, WebTasks, MarkdownDrafts

VARIABLE focus

MCPolicies ==
  [latest : {0, 1, 2}, minimum : {0, 2}, days : {{}, {0}, {1}}, protected : {{}, {1}}]

(* Where retention does not run its policy does not matter.                 *)
NoPolicy == [latest |-> 0, minimum |-> 0, days |-> {}, protected |-> {}]

PartsInit ==
  /\ CompactionInit /\ MigrationsInit /\ RetentionInit /\ BundleInit
  /\ SandboxInit /\ RecordsInit /\ LifecycleInit /\ TasksInit /\ DraftsInit
  /\ focus \in {"compaction", "migrations", "retention", "bundle",
               "sandbox", "records", "review", "tasks", "drafts"}
  /\ focus = "retention" \/ policy = NoPolicy

PartsNext ==
  \/ /\ focus = "compaction" /\ CompactionNext
     /\ UNCHANGED <<migrationsVars, retentionVars, bundleVars, sandboxVars, recordsVars,
                    lifecycleVars, tasksVars, draftsVars, focus>>
  \/ /\ focus = "migrations" /\ MigrationsNext
     /\ UNCHANGED <<compactionVars, retentionVars, bundleVars, sandboxVars, recordsVars,
                    lifecycleVars, tasksVars, draftsVars, focus>>
  \/ /\ focus = "retention" /\ RetentionNext
     /\ UNCHANGED <<compactionVars, migrationsVars, bundleVars, sandboxVars, recordsVars,
                    lifecycleVars, tasksVars, draftsVars, focus>>
  \/ /\ focus = "bundle" /\ BundleNext
     /\ UNCHANGED <<compactionVars, migrationsVars, retentionVars, sandboxVars, recordsVars,
                    lifecycleVars, tasksVars, draftsVars, focus>>
  \/ /\ focus = "sandbox" /\ SandboxNext
     /\ UNCHANGED <<compactionVars, migrationsVars, retentionVars, bundleVars, recordsVars,
                    lifecycleVars, tasksVars, draftsVars, focus>>
  \/ /\ focus = "records" /\ RecordsNext
     /\ UNCHANGED <<compactionVars, migrationsVars, retentionVars, bundleVars, sandboxVars,
                    lifecycleVars, tasksVars, draftsVars, focus>>
  \/ /\ focus = "review" /\ LifecycleNext
     /\ UNCHANGED <<compactionVars, migrationsVars, retentionVars, bundleVars, sandboxVars,
                    recordsVars, tasksVars, draftsVars, focus>>
  \/ /\ focus = "tasks" /\ TasksNext
     /\ UNCHANGED <<compactionVars, migrationsVars, retentionVars, bundleVars, sandboxVars,
                    recordsVars, lifecycleVars, draftsVars, focus>>
  \/ /\ focus = "drafts" /\ DraftsNext
     /\ UNCHANGED <<compactionVars, migrationsVars, retentionVars, bundleVars, sandboxVars,
                    recordsVars, lifecycleVars, tasksVars, focus>>

AllVars ==
  <<compactionVars, migrationsVars, retentionVars, bundleVars, sandboxVars,
    recordsVars, lifecycleVars, tasksVars, draftsVars, focus>>

PartsSpec == PartsInit /\ [][PartsNext]_AllVars
=============================================================================
