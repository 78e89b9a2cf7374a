---------------------------- MODULE ProfileDrafts ---------------------------
(***************************************************************************)
(* A profile that is added from the dashboard (workflow/profile_draft.go,  *)
(* core/profile_draft.go, storage/sqlite/profile_draft.go): a draft, what  *)
(* is captured of its account after a sign-in or on request, and the       *)
(* config fragment written from it.                                        *)
(***************************************************************************)
EXTENDS SignIn

CONSTANTS
    Refreshes,     \* captures the operator asks for
    Applies,       \* apply requests that may run at a time: nothing locks them
    MaxDrafts      \* bound: drafts created under the tag

ASSUME DraftAssumption == "none" \notin Logins \cup Refreshes

Captures == Logins \cup Refreshes

VARIABLES
    draft,         \* the stored draft
    drafted,       \* drafts created so far
    capture,       \* a capture: from a hook, or a refresh
    applying,      \* the apply requests
    fragment,      \* the fragment in the profile store
    overtaken      \* history: a fragment was renamed over another account's

draftVars == <<draft, drafted, capture, applying, fragment, overtaken>>

\* What was captured: which writing of the state file was read, and by whom,
\* which stands for the moment it was captured at.
NoIdentity == [n |-> 0, by |-> "none"]
NoDraft    == [status |-> "none", revision |-> 0, identity |-> NoIdentity]
Idle       == [pc |-> "idle", of |-> NoDraft, gen |-> 0, identity |-> NoIdentity]
Over       == [Idle EXCEPT !.pc = "done"]

DraftInit ==
  /\ draft = NoDraft /\ drafted = 0 /\ fragment = NoIdentity /\ overtaken = FALSE
  /\ capture = [c \in Captures |-> Idle] /\ applying = [p \in Applies |-> Idle]

CreateDraft ==
  /\ draft.status = "none" /\ drafted < MaxDrafts /\ drafted' = drafted + 1
  /\ draft' = [NoDraft EXCEPT !.status = "pending", !.revision = 1]
  /\ UNCHANGED <<capture, applying, fragment, overtaken>>

DeleteDraft ==
  /\ draft.status # "none" /\ draft' = NoDraft
  /\ UNCHANGED <<drafted, capture, applying, fragment, overtaken>>

\* A capture reads the draft, then the account through the state file, and
\* saves if the draft still has the revision that was read.
BeginCapture(c) ==
  /\ capture[c].pc = "idle"
  /\ c \in Logins => hook[c] = "new"
  /\ capture' = [capture EXCEPT ![c] =
       IF draft.status \in {"pending", "ready"} THEN [Idle EXCEPT !.pc = "read", !.of = draft, !.gen = drafted] ELSE Over]
  /\ UNCHANGED <<draft, drafted, applying, fragment, overtaken>>

Captured(c) == [capture[c] EXCEPT !.pc = "save", !.identity = [n |-> file.n, by |-> c]]
ReadIdentity(c) ==
  /\ capture[c].pc = "read"
  /\ \/ file.there /\ capture' = [capture EXCEPT ![c] = Captured(c)]
     \/ capture' = [capture EXCEPT ![c] = Over]
  /\ UNCHANGED <<draft, drafted, applying, fragment, overtaken>>

\* SaveProfileDraft compares the revision under the tag, nothing else.
SaveProfileDraft(row, read) ==
  IF draft.revision = read.revision THEN [row EXCEPT !.revision = read.revision + 1] ELSE draft

SaveIdentity(c) ==
  /\ capture[c].pc = "save" /\ capture' = [capture EXCEPT ![c] = Over]
  /\ draft' = SaveProfileDraft([capture[c].of EXCEPT !.status = "ready", !.identity = capture[c].identity], capture[c].of)
  /\ UNCHANGED <<drafted, applying, fragment, overtaken>>

\* Apply reads the draft and the fragment that is there, renames its own into
\* place unless there is one, and marks the draft.  The draft does not keep the
\* primary resume that a request names.
Goes(p, pc) == applying' = [applying EXCEPT ![p].pc = pc]
Ends(p)     == applying' = [applying EXCEPT ![p] = Idle]
Wrote(p)    == IF applying[p].of.status = "applied" THEN Ends(p) ELSE Goes(p, "mark")

BeginApply(p) ==
  /\ applying[p].pc = "idle" /\ draft.status \in {"ready", "applied"}
  /\ applying' = [applying EXCEPT ![p] = [Idle EXCEPT !.pc = "check", !.of = draft]]
  /\ UNCHANGED <<draft, drafted, capture, fragment, overtaken>>

\* Mutation: a fragment that is there is taken as written.
AnyFragment(p) ==
  /\ applying[p].pc = "check"
  /\ IF fragment = NoIdentity THEN Goes(p, "write") ELSE Wrote(p)
  /\ UNCHANGED <<draft, drafted, capture, fragment, overtaken>>

\* Other words fail the request, those of another primary resume too.
CheckFragment(p) ==
  /\ applying[p].pc = "check"
  /\ \/ fragment = NoIdentity /\ Goes(p, "write")
     \/ fragment = applying[p].of.identity /\ Wrote(p)
     \/ fragment # NoIdentity /\ Ends(p)
  /\ UNCHANGED <<draft, drafted, capture, fragment, overtaken>>

\* The rename replaces what came into place meanwhile.
RenameFragment(p) ==
  /\ applying[p].pc = "write" /\ Wrote(p)
  /\ fragment' = applying[p].of.identity
  /\ overtaken' = (overtaken \/ fragment \notin {NoIdentity, applying[p].of.identity})
  /\ UNCHANGED <<draft, drafted, capture>>

MarkApplied(p) ==
  /\ applying[p].pc = "mark" /\ Ends(p)
  /\ draft' = SaveProfileDraft([applying[p].of EXCEPT !.status = "applied"], applying[p].of)
  /\ UNCHANGED <<drafted, capture, fragment, overtaken>>

\* A call fails, or the client hangs up.
BreakApply(p) ==
  /\ applying[p].pc # "idle" /\ Ends(p)
  /\ UNCHANGED <<draft, drafted, capture, fragment, overtaken>>

DraftStep ==
  \/ CreateDraft \/ DeleteDraft
  \/ \E p \in Applies :
       BeginApply(p) \/ CheckFragment(p) \/ RenameFragment(p) \/ MarkApplied(p) \/ BreakApply(p)
  \/ \E c \in Captures : BeginCapture(c) \/ ReadIdentity(c) \/ SaveIdentity(c)

\* A stop ends the requests and the hooks.
StopDrafts ==
  /\ applying' = [p \in Applies |-> Idle]
  /\ capture' = [c \in Captures |-> IF capture[c].pc = "idle" THEN Idle ELSE Over]
  /\ UNCHANGED <<draft, drafted, fragment, overtaken>>

\* A profile that is added: the sign-ins of its browser and the draft.
DraftsNext ==
  \/ SignInRuns /\ UNCHANGED draftVars
  \/ DraftStep /\ UNCHANGED signInVars
  \/ StopSignIn /\ StopDrafts

DraftsSpec == SignInInit /\ DraftInit /\ [][DraftsNext]_<<signInVars, draftVars>>

-----------------------------------------------------------------------------

\* An applied draft shows the account whose fragment is in the profile store,
\* through captures that end late, requests that break off and drafts that were
\* deleted and created again, unless two requests that both found no fragment
\* renamed different ones into place: the later rename stays, whichever of the
\* two marked the draft.
AppliedIsWritten == draft.status = "applied" /\ ~overtaken => fragment = draft.identity
=============================================================================
