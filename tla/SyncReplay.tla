----------------------------- MODULE SyncReplay -----------------------------
(***************************************************************************)
(* The events the sync repository has accepted, replayed: what a replay of *)
(* services/sync/src/replay.ts and a download of the repository tell of    *)
(* the same log.                                                           *)
(***************************************************************************)
EXTENDS SyncRepository, Replay

(* A repository has met finitely many workspaces.                           *)
ASSUME ReplayWorkspaces == IsFiniteSet(Workspaces)

(* The accepted events of some workspaces in one stream, one log behind the *)
(* other in any order of the logs.                                          *)
Stream[seen \in SUBSET Workspaces] ==
  IF seen = {} THEN <<>>
  ELSE LET w == CHOOSE w \in seen : TRUE IN Stream[seen \ {w}] \o events[w]

(* Replaying the accepted events of all workspaces from any issued cursor   *)
(* gives the page a download gives, and finds nothing wrong with it.        *)
ReplayIsDownload ==
  \A w \in Workspaces : \A after \in IssuedCursors(w) :
    \A limit \in 1 .. MaxReplayLimit :
      LET page   == DownloadWindow(w, after, limit)
          replay == ReplayWindow(Stream[Workspaces], w, after, {}, limit)
      IN /\ replay.events = page.events
         /\ replay.nextCursor = page.nextCursor
         /\ replay.hasMore = page.hasMore
         /\ replay.issues = {}
=============================================================================
