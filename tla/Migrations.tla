----------------------------- MODULE Migrations -----------------------------
(***************************************************************************)
(* Migrations of workspace metadata (packages/workspace-store/src/index.ts)*)
(* as releases add steps to the registry.  A run plans the one path from   *)
(* the metadata's version to the target, takes its steps in order and      *)
(* answers the result; an error anywhere leaves the caller's metadata.     *)
(*                                                                         *)
(* Metadata is its version and how often each step has taken effect on it; *)
(* an idempotency guard says whether its step's effect is there.           *)
(***************************************************************************)
EXTENDS SequencesExt, Naturals

CONSTANTS
  StepIds,
  LastVersion,      \* bound: the largest schema version
  CurrentSchema     \* WORKSPACE_METADATA_SCHEMA_VERSION

ASSUME MigrationsAssumption == LastVersion \in Nat \ {0} /\ CurrentSchema \in 1 .. LastVersion

VARIABLES
  registry,   \* the migration steps of the release
  metadata    \* version and effects

migrationsVars == <<registry, metadata>>

Versions == 1 .. LastVersion

(* normalizeMigrationSteps: a step advances the version.                    *)
Steps == {s \in [id : StepIds, from : Versions, to : Versions, guarded : BOOLEAN] : s.from < s.to}

NextSteps(version, target) == {s \in registry : s.from = version /\ s.to <= target}

VersionAfter(source, path, n) == IF n = 0 THEN source ELSE path[n].to

(* selectMigrationSteps: the path to the target, a set of at most one; none *)
(* where a version on the way has no candidate, or several.                 *)
Path(source, target) ==
  {path \in SeqOf(registry, LastVersion - 1) :
     /\ VersionAfter(source, path, Len(path)) = target
     /\ \A n \in DOMAIN path : NextSteps(VersionAfter(source, path, n - 1), target) = {path[n]}}

(* evaluateIdempotencyGuard                                                 *)
AlreadyApplied(s, m) == s.guarded /\ m.effects[s.id] > 0

(* Mutant: a step that is skipped leaves the version.                       *)
TakenOrLeft(s, m) ==
  IF AlreadyApplied(s, m) THEN m
  ELSE [version |-> s.to, effects |-> [m.effects EXCEPT ![s.id] = @ + 1]]

(* One step of the run: skipped where the guard says so, with the version   *)
(* moved on; otherwise migrated (runMigrationStep).                         *)
Taken(s, m) ==
  IF AlreadyApplied(s, m) THEN [m EXCEPT !.version = s.to]
  ELSE [version |-> s.to, effects |-> [m.effects EXCEPT ![s.id] = @ + 1]]

After(m, path) ==
  LET run[n \in 0 .. Len(path)] == IF n = 0 THEN m ELSE Taken(path[n], run[n - 1])
  IN run[Len(path)]

(* runWorkspaceMetadataMigrations.  Broken: the steps whose migrate throws, *)
(* answers the wrong version or does not satisfy its own guard.             *)
Run(m, target, broken) ==
  {After(m, path) : path \in {p \in Path(m.version, target) :
                                \A i \in DOMAIN p : p[i].id \notin broken}}

(* resolveTargetVersion, without a requested version.                       *)
DefaultTarget(source) ==
  CHOOSE v \in {CurrentSchema, source} \cup {s.to : s \in registry} :
    /\ CurrentSchema <= v /\ source <= v
    /\ \A s \in registry : s.to <= v

-----------------------------------------------------------------------------
MigrationsInit ==
  /\ registry = {}
  /\ metadata = [version |-> 1, effects |-> [id \in StepIds |-> 0]]

(* A release brings a step.                                                 *)
Release(s) ==
  /\ \A t \in registry : t.id # s.id
  /\ registry' = registry \cup {s}
  /\ UNCHANGED metadata

(* The caller stores what a run answers; dryRun and errors change nothing.  *)
Migrate(target, broken) ==
  /\ \E m \in Run(metadata, target, broken) : metadata' = m
  /\ UNCHANGED registry

(* A step's effect is on the metadata before its version says so: it came   *)
(* with an import, or was made by hand.                                     *)
EffectByHand(s) ==
  /\ s \in registry /\ metadata.version < s.to /\ metadata.effects[s.id] = 0
  /\ metadata' = [metadata EXCEPT !.effects[s.id] = 1]
  /\ UNCHANGED registry

MigrationsNext ==
  \/ \E s \in Steps : Release(s) \/ EffectByHand(s)
  \/ \E target \in Versions \cup {DefaultTarget(metadata.version)}, broken \in SUBSET StepIds :
       Migrate(target, broken)

MigrationsSpec == MigrationsInit /\ [][MigrationsNext]_migrationsVars

-----------------------------------------------------------------------------
(* Migrating in stages is migrating at once: whatever the releases and the  *)
(* stops on the way, a run that reaches its target through a version and a  *)
(* run there followed by one to the target end alike; the result is at the  *)
(* target, every step of the path has taken effect, and a guarded step did  *)
(* so once even where its effect was there before.                          *)
MigrationsCompose ==
  \A target \in Versions :
    \A path \in Path(metadata.version, target) : \A m \in Run(metadata, target, {}) :
      /\ m.version = target
      /\ \A i \in DOMAIN path :
           /\ m.effects[path[i].id] > 0
           /\ Run(metadata, path[i].to, {}) # {}
           /\ \A half \in Run(metadata, path[i].to, {}) : Run(half, target, {}) = {m}
           /\ path[i].guarded => m.effects[path[i].id] = 1
=============================================================================
