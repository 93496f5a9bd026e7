--------------------------- MODULE MarkdownDrafts ---------------------------
(***************************************************************************)
(* Document drafts of the web app (apps/web/src/documents.ts over          *)
(* localStore.ts): an editor's state, the drafts stored, and saves and     *)
(* loads whose answers reach the editor after it may have moved on.  The   *)
(* local store writes during the call; its promise is answered later.      *)
(***************************************************************************)
EXTENDS Naturals

CONSTANTS
  Documents,
  Bodies,        \* title and markdown
  DraftCalls,    \* saves and loads that may overlap
  MaxRevision    \* bound: the largest revision

ASSUME DraftsAssumption == MaxRevision \in Nat

VARIABLES
  editor,      \* the draft in the editor, a set of at most one
  dirty,       \* isDirty
  drafts,      \* per document: the stored draft, a set of at most one
  draftCall,   \* per call: what it is to tell the editor, a set of at most one
  stray        \* history: a save's answer met an editor that had moved on

draftsVars == <<editor, dirty, drafts, draftCall, stray>>

Free(p) == draftCall[p] = {}

(* A stray answer is forgotten with the draft it hit, unless calls made     *)
(* meanwhile are still to be answered.                                      *)
Forget == stray' = (stray /\ \E p \in DraftCalls : ~Free(p))

DraftsInit ==
  /\ editor = {} /\ dirty = FALSE
  /\ drafts = [d \in Documents |-> {}]
  /\ draftCall = [p \in DraftCalls |-> {}]
  /\ stray = FALSE

(* createMarkdownDraft and draft.created: never saved, hence dirty.  Ids are *)
(* random unless a caller gives one: a new draft's id is not in use.        *)
CreateDraft(d, body) ==
  /\ drafts[d] = {}
  /\ \A c \in UNION {draftCall[p] : p \in DraftCalls} : c.draft.document # d
  /\ editor' = {[document |-> d, body |-> body, revision |-> 1]}
  /\ dirty' = TRUE /\ Forget
  /\ UNCHANGED <<drafts, draftCall>>

(* Mutant: an edit that leaves the text as it was saved leaves isDirty.     *)
EditQuietly(body) ==
  /\ \E e \in editor :
       /\ e.body # body /\ e.revision < MaxRevision
       /\ editor' = {[e EXCEPT !.body = body, !.revision = @ + 1]}
  /\ UNCHANGED <<dirty, drafts, draftCall, stray>>

(* title.changed, markdown.changed: updateDraftText.                        *)
Edit(body) ==
  /\ \E e \in editor :
       /\ e.body # body /\ e.revision < MaxRevision
       /\ editor' = {[e EXCEPT !.body = body, !.revision = @ + 1]}
  /\ dirty' = TRUE
  /\ UNCHANGED <<drafts, draftCall, stray>>

(* draft.reset                                                              *)
Reset ==
  /\ editor' = {} /\ dirty' = FALSE /\ Forget
  /\ UNCHANGED <<drafts, draftCall>>

(* saveMarkdownDraft, whose caller goes on to dispatch draft.saved, or      *)
(* saveMarkdownEditorDraft, whose caller takes the state it answers.        *)
Save(p, how) ==
  /\ Free(p)
  /\ \E e \in editor : /\ drafts' = [drafts EXCEPT ![e.document] = {e}]
                       /\ draftCall' = [draftCall EXCEPT ![p] = {[how |-> how, draft |-> e]}]
  /\ UNCHANGED <<editor, dirty, stray>>

(* draft.saved: whatever draft is in the editor by now is clean.            *)
DispatchSaved(p) ==
  \E c \in draftCall[p] :
    /\ c.how = "dispatch"
    /\ dirty' = (dirty /\ editor = {})
    /\ stray' = (stray \/ (editor # {} /\ editor # {c.draft}))
    /\ draftCall' = [draftCall EXCEPT ![p] = {}]
    /\ UNCHANGED <<editor, drafts>>

(* The state saveMarkdownEditorDraft answers replaces the editor's: what    *)
(* was typed meanwhile is gone, and another save may have stored since.     *)
TakeSavedState(p) ==
  \E c \in draftCall[p] :
    /\ c.how = "replace"
    /\ editor' = {c.draft} /\ dirty' = FALSE
    /\ stray' = (stray \/ editor # {c.draft})
    /\ draftCall' = [draftCall EXCEPT ![p] = {}]
    /\ UNCHANGED drafts

(* loadMarkdownDraft reads the store during the call, draft.loaded follows. *)
Load(p, d) ==
  /\ Free(p) /\ drafts[d] # {}
  /\ draftCall' = [draftCall EXCEPT ![p] = {[how |-> "load", draft |-> x] : x \in drafts[d]}]
  /\ UNCHANGED <<editor, dirty, drafts, stray>>

DispatchLoaded(p) ==
  \E c \in draftCall[p] :
    /\ c.how = "load"
    /\ editor' = {c.draft} /\ dirty' = FALSE
    /\ stray' = (stray \/ drafts[c.draft.document] # {c.draft})
    /\ draftCall' = [draftCall EXCEPT ![p] = {}]
    /\ UNCHANGED drafts

(* deleteMarkdownDraft: the editor is not told.                             *)
DeleteDraft(d) ==
  /\ drafts[d] # {}
  /\ drafts' = [drafts EXCEPT ![d] = {}]
  /\ UNCHANGED <<editor, dirty, draftCall, stray>>

DraftsNext ==
  \/ \E d \in Documents, body \in Bodies : CreateDraft(d, body)
  \/ \E body \in Bodies : Edit(body)
  \/ Reset
  \/ \E d \in Documents : DeleteDraft(d)
  \/ \E p \in DraftCalls :
       \/ \E how \in {"dispatch", "replace"} : Save(p, how)
       \/ DispatchSaved(p) \/ TakeSavedState(p) \/ DispatchLoaded(p)
       \/ \E d \in Documents : Load(p, d)

DraftsSpec == DraftsInit /\ [][DraftsNext]_draftsVars

-----------------------------------------------------------------------------
(* A draft shown as saved is saved: the store holds what the editor shows,  *)
(* or nothing after a delete, as long as every answer that reached the      *)
(* editor met it as it was when the call was made.  (The reducer marks      *)
(* whatever is there as clean: after a stray answer unsaved text passes for *)
(* saved, and the state a save answers takes the editor back.  That is how  *)
(* the code is; the property says that nothing else does it: no edit,   *)
(* reset, delete or new draft, and no late answer that finds the editor, or *)
(* the draft it was read from, as they were.)                               *)
CleanMeansSaved ==
  \A e \in editor :
    ~dirty /\ ~stray => drafts[e.document] \in {{}, {e}}
=============================================================================
