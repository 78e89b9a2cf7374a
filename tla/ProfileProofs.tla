---------------------------- MODULE ProfileProofs ----------------------------
(***************************************************************************)
(* Proofs about one profile: its sign-ins, the drafts made from them, the  *)
(* checks of its blocked applications and its declared state.              *)
(***************************************************************************)
EXTENDS ProfileState, ProfileDrafts, BrowserCheck, FiniteSetTheorems,
        SequenceTheorems, TLAPS

-----------------------------------------------------------------------------
(* Sign-in.  The call that holds the lock decides what happens to its      *)
(* session: an answer, a cancellation or an expiry takes the lock first.   *)

CallSet == [pc : {"idle", "driver", "store", "save"}, s : Logins \cup {"none"},
            at : Nat, wrote : Nat]

LoginInv ==
    /\ moment \in Nat
    /\ file \in [account : {file.account}, n : Nat, there : BOOLEAN]
    /\ call \in CallSet
    /\ OnlyOpenLoginStores

LEMMA LoginInit == SignInInit => LoginInv
<1> SUFFICES ASSUME SignInInit PROVE LoginInv
  OBVIOUS
<1>1. moment = 0 /\ file = [account |-> "none", n |-> 0, there |-> FALSE]
  BY DEF SignInInit
<1>2. call = [pc |-> "idle", s |-> "none", at |-> 0, wrote |-> 0]
  BY DEF SignInInit, NoCall
<1>3. QED BY <1>1, <1>2 DEF LoginInv, CallSet, OnlyOpenLoginStores

(* A call that ends leaves nothing to be stored.                           *)
LEMMA CallEnds ==
    ASSUME LoginInv, call' = NoCall, moment' = moment, file' = file
    PROVE  LoginInv'
<1>1. call' = [pc |-> "idle", s |-> "none", at |-> 0, wrote |-> 0] BY DEF NoCall
<1>2. call' \in CallSet /\ call'.pc = "idle" BY <1>1 DEF CallSet
<1>3. QED BY <1>2 DEF LoginInv, OnlyOpenLoginStores

(* A step that leaves the call and the session it works for alone.         *)
LEMMA CallStays ==
    ASSUME LoginInv, call' = call, file' = file, moment' \in Nat,
           call.pc \in {"driver", "store"} => login'[call.s] = login[call.s]
    PROVE  LoginInv'
BY DEF LoginInv, OnlyOpenLoginStores

LEMMA SubmitStep == ASSUME LoginInv, NEW s \in Logins, Submit(s) PROVE LoginInv'
<1>1. CASE moment >= login[s].until
  <2>1. call' = call /\ call.pc = "idle" /\ UNCHANGED <<moment, file>>
    BY <1>1 DEF Submit, Unlocked
  <2>2. QED BY <2>1, CallStays DEF LoginInv
<1>2. CASE ~(moment >= login[s].until)
  <2>1. /\ call' = [NoCall EXCEPT !.pc = "driver", !.s = s, !.at = moment]
        /\ UNCHANGED <<login, moment, file>> /\ login[s].status \in Waiting
    BY <1>2 DEF Submit
  <2>2. call' = [pc |-> "driver", s |-> s, at |-> moment, wrote |-> 0]
    BY <2>1 DEF NoCall
  <2>3. call' \in CallSet BY <2>2 DEF LoginInv, CallSet
  <2>4. call'.s = s BY <2>2
  <2>5. QED BY <2>1, <2>3, <2>4 DEF LoginInv, OnlyOpenLoginStores
<1>3. QED BY <1>1, <1>2

LEMMA ContinueStep == ASSUME LoginInv, Continue PROVE LoginInv'
<1>1. UNCHANGED <<moment, file>> BY DEF Continue
<1>2. call' = NoCall \/ (call' = [call EXCEPT !.pc = "store"] /\ UNCHANGED login)
  BY DEF Continue
<1>3. CASE call' = NoCall BY <1>1, <1>3, CallEnds
<1>4. CASE call' = [call EXCEPT !.pc = "store"] /\ UNCHANGED login
  <2>1. call'.pc = "store" /\ call'.s = call.s /\ call' \in CallSet
    BY <1>4 DEF LoginInv, CallSet
  <2>2. call.pc = "driver" BY DEF Continue
  <2>3. QED BY <1>1, <1>4, <2>1, <2>2 DEF LoginInv, OnlyOpenLoginStores
<1>5. QED BY <1>2, <1>3, <1>4

LEMMA StoreStep == ASSUME LoginInv, StoreState PROVE LoginInv'
<1>1. CASE call' = NoCall /\ UNCHANGED <<moment, file>> BY <1>1, CallEnds
<1>2. CASE /\ file' = [account |-> page.account, n |-> file.n + 1, there |-> TRUE]
           /\ call' = [call EXCEPT !.pc = "save", !.wrote = file.n + 1]
           /\ UNCHANGED moment
  <2>1. file.n + 1 \in Nat BY DEF LoginInv
  <2>2. call'.pc = "save" /\ call' \in CallSet
    BY <1>2, <2>1 DEF LoginInv, CallSet
  <2>3. file' \in [account : {file'.account}, n : Nat, there : BOOLEAN]
    BY <1>2, <2>1
  <2>4. QED BY <1>2, <2>2, <2>3 DEF LoginInv, OnlyOpenLoginStores
<1>3. QED BY <1>1, <1>2 DEF StoreState

(* The file changes hands without a call.                                  *)
LEMMA FileChanges ==
    ASSUME LoginInv, NEW account, NEW there \in BOOLEAN,
           file' = [file EXCEPT !.account = account, !.there = there],
           UNCHANGED <<moment, call, login>>
    PROVE  LoginInv'
<1>1. file' \in [account : {file'.account}, n : Nat, there : BOOLEAN]
  BY DEF LoginInv
<1>2. QED BY <1>1 DEF LoginInv, OnlyOpenLoginStores

LEMMA LoginStep == LoginInv /\ [SignInStep]_signInVars => LoginInv'
<1> SUFFICES ASSUME LoginInv, [SignInStep]_signInVars PROVE LoginInv'
  OBVIOUS
<1>1. ASSUME NEW s \in Logins, Start(s) PROVE LoginInv'
  BY <1>1, CallStays DEF Start, Unlocked, LoginInv
<1>2. ASSUME NEW s \in Logins, Submit(s) PROVE LoginInv' BY <1>2, SubmitStep
<1>3. ASSUME NEW s \in Logins, Cancel(s) PROVE LoginInv'
  BY <1>3, CallStays DEF Cancel, Unlocked, LoginInv
<1>4. CASE Tick BY <1>4, CallStays DEF Tick, LoginInv
<1>5. CASE Continue BY <1>5, ContinueStep
<1>6. CASE ContinueFails BY <1>6, CallEnds DEF ContinueFails
<1>7. CASE StoreState BY <1>7, StoreStep
<1>8. CASE Complete BY <1>8, CallEnds DEF Complete
<1>9. CASE Logout
  <2>1. file' = [file EXCEPT !.account = file.account, !.there = FALSE]
    BY <1>9 DEF Logout, LoginInv
  <2>2. QED BY <1>9, <2>1, FileChanges DEF Logout
<1>10. CASE StopSignIn BY <1>10, CallEnds DEF StopSignIn
<1>11. CASE RefreshStorageState
  BY <1>11, CallStays DEF RefreshStorageState, LoginInv
<1>12. CASE WritePrivateStateFile
  BY <1>12, FileChanges DEF WritePrivateStateFile
<1>13. CASE UNCHANGED signInVars BY <1>13, CallStays DEF signInVars, LoginInv
<1>14. QED
  BY <1>1, <1>2, <1>3, <1>4, <1>5, <1>6, <1>7, <1>8, <1>9, <1>10, <1>11, <1>12,
     <1>13 DEF SignInStep, SignInRuns

(* No session that was cancelled or has expired stores the state it        *)
(* exported, for any sessions, accounts and deadlines.                     *)
THEOREM OnlyOpenStores == SignInSpec => []OnlyOpenLoginStores
<1>1. SignInSpec => []LoginInv BY LoginInit, LoginStep, PTL DEF SignInSpec
<1>2. LoginInv => OnlyOpenLoginStores BY DEF LoginInv
<1>3. QED BY <1>1, <1>2, PTL

-----------------------------------------------------------------------------
(* Drafts.  What is captured is never the empty identity, so that a        *)
(* fragment in place is seen by the request that checks it.  As long as no *)
(* request has renamed its fragment over another account's, a fragment and *)
(* a request that marks its draft agree, whatever was read or forgotten.   *)

IdentitySet == [n : Nat, by : Captures \cup {"none"}]
DraftSet ==
    [status : {"none", "pending", "ready", "applied"}, revision : Nat,
     identity : IdentitySet]
RequestSet ==
    [pc : {"idle", "read", "save", "check", "write", "mark", "done"}, of : DraftSet,
     gen : Nat, identity : IdentitySet]

DraftTypeOK ==
    /\ file.n \in Nat /\ drafted \in Nat
    /\ draft \in DraftSet /\ applying \in [Applies -> RequestSet]
    /\ capture \in [Captures -> RequestSet]
    /\ fragment \in IdentitySet /\ overtaken \in BOOLEAN

Identified(d) == d.status \in {"ready", "applied"} => d.identity # NoIdentity

(* A request that is under way has an identity to write, and one that marks*)
(* its draft has written it.                                               *)
Applying(r) == r.pc \in {"check", "write", "mark"} => r.of.identity # NoIdentity
Marking(r)  == r.pc = "mark" /\ ~overtaken => fragment = r.of.identity

DraftInv ==
    /\ DraftTypeOK
    /\ Identified(draft) /\ AppliedIsWritten
    /\ \A p \in Applies : Applying(applying[p]) /\ Marking(applying[p])
    /\ \A c \in Captures : capture[c].pc = "save" => capture[c].identity # NoIdentity

LEMMA Nothing ==
    /\ NoIdentity \in IdentitySet /\ NoDraft \in DraftSet
    /\ Idle \in RequestSet /\ Idle.pc = "idle" /\ Over \in RequestSet /\ Over.pc = "done"
    /\ NoDraft.status = "none"
<1>1. NoIdentity \in IdentitySet BY DEF NoIdentity, IdentitySet
<1>2. NoDraft \in DraftSet /\ NoDraft.status = "none" BY <1>1 DEF NoDraft, DraftSet
<1>3. Idle \in RequestSet /\ Idle.pc = "idle" BY <1>1, <1>2 DEF Idle, RequestSet
<1>4. Over \in RequestSet /\ Over.pc = "done" BY <1>3 DEF Over, RequestSet
<1>5. QED BY <1>1, <1>2, <1>3, <1>4

LEMMA DraftInitInv == SignInInit /\ DraftInit => DraftInv
<1> SUFFICES ASSUME SignInInit, DraftInit PROVE DraftInv
  OBVIOUS
<1>1. file.n \in Nat BY DEF SignInInit
<1>2. QED
  BY <1>1, Nothing
  DEF DraftInit, DraftInv, DraftTypeOK, Identified, AppliedIsWritten, Applying, Marking

(* The steps of a sign-in and of the state file touch no draft.            *)
LEMMA DraftsKept ==
    ASSUME DraftInv, file'.n \in Nat, UNCHANGED draftVars
    PROVE  DraftInv'
BY DEF DraftInv, DraftTypeOK, Identified, AppliedIsWritten, Applying, Marking, draftVars

(* A capture moves on and hands over an identity only if it has one.       *)
LEMMA CaptureStep ==
    ASSUME DraftInv, NEW c \in Captures, NEW r \in RequestSet,
           r.pc = "save" => r.identity # NoIdentity,
           capture' = [capture EXCEPT ![c] = r], file' = file,
           UNCHANGED <<draft, drafted, applying, fragment, overtaken>>
    PROVE  DraftInv'
BY DEF DraftInv, DraftTypeOK, Identified, AppliedIsWritten, Applying, Marking

(* A draft is saved: the row, or what was stored meanwhile.                *)
LEMMA Saved ==
    ASSUME draft \in DraftSet, NEW new \in DraftSet, NEW read \in DraftSet
    PROVE  \/ SaveProfileDraft(new, read) = draft
           \/ /\ SaveProfileDraft(new, read) \in DraftSet
              /\ SaveProfileDraft(new, read).status = new.status
              /\ SaveProfileDraft(new, read).identity = new.identity
<1>1. read.revision + 1 \in Nat BY DEF DraftSet
<1>2. QED BY <1>1 DEF SaveProfileDraft, DraftSet

LEMMA SaveIdentityStep ==
    ASSUME DraftInv, NEW c \in Captures, SaveIdentity(c), file' = file
    PROVE  DraftInv'
<1> DEFINE r == capture[c]
           new == [r.of EXCEPT !.status = "ready", !.identity = r.identity]
<1>1. r \in RequestSet /\ r.pc = "save" /\ r.identity # NoIdentity
  BY DEF SaveIdentity, DraftInv, DraftTypeOK
<1>2. r.of \in DraftSet /\ r.identity \in IdentitySet BY <1>1 DEF RequestSet
<1>3. /\ draft' = SaveProfileDraft(new, r.of)
      /\ capture' = [capture EXCEPT ![c] = Over]
      /\ UNCHANGED <<drafted, applying, fragment, overtaken>>
  BY DEF SaveIdentity
<1> HIDE DEF r
<1>4. new \in DraftSet /\ new.status = "ready" /\ new.identity = r.identity
  BY <1>2 DEF DraftSet
<1> HIDE DEF new
<1>5. draft \in DraftSet BY DEF DraftInv, DraftTypeOK
<1>6. \/ draft' = draft
      \/ /\ draft' \in DraftSet /\ draft'.status = "ready"
         /\ draft'.identity # NoIdentity
  BY <1>1, <1>2, <1>3, <1>4, <1>5, Saved
<1>7. DraftTypeOK' /\ Identified(draft)' /\ AppliedIsWritten'
  BY <1>3, <1>5, <1>6, Nothing
  DEF DraftInv, DraftTypeOK, Identified, AppliedIsWritten
<1>8. \A d \in Captures : (capture[d].pc = "save" => capture[d].identity # NoIdentity)'
  BY <1>3, Nothing DEF DraftInv, DraftTypeOK
<1>9. QED BY <1>3, <1>7, <1>8 DEF DraftInv, Applying, Marking

(* A request moves on, with an identity and, to mark, with its fragment.   *)
LEMMA ApplyStep ==
    ASSUME DraftInv, NEW p \in Applies, NEW r \in RequestSet,
           Applying(r), Marking(r), applying' = [applying EXCEPT ![p] = r], file' = file,
           UNCHANGED <<draft, drafted, capture, fragment, overtaken>>
    PROVE  DraftInv'
BY DEF DraftInv, DraftTypeOK, Identified, AppliedIsWritten, Applying, Marking

LEMMA RequestTyped ==
    ASSUME DraftInv, NEW p \in Applies
    PROVE  /\ applying[p] \in RequestSet /\ applying[p].of \in DraftSet
           /\ applying[p].of.identity \in IdentitySet
           /\ Applying(applying[p]) /\ Marking(applying[p])
BY DEF DraftInv, DraftTypeOK, RequestSet, DraftSet

LEMMA IdleFine == Idle \in RequestSet /\ Applying(Idle) /\ Marking(Idle)
BY Nothing DEF Applying, Marking

LEMMA BeginApplyStep ==
    ASSUME DraftInv, NEW p \in Applies, BeginApply(p), file' = file PROVE DraftInv'
<1> DEFINE r == [Idle EXCEPT !.pc = "check", !.of = draft]
<1>1. /\ applying' = [applying EXCEPT ![p] = r] /\ draft.status \in {"ready", "applied"}
      /\ UNCHANGED <<draft, drafted, capture, fragment, overtaken>>
  BY DEF BeginApply
<1>2. r \in RequestSet /\ r.pc = "check" /\ r.of = draft
  BY Nothing DEF DraftInv, DraftTypeOK, RequestSet
<1>3. Applying(r) /\ Marking(r)
  BY <1>1, <1>2 DEF Applying, Marking, DraftInv, Identified
<1> HIDE DEF r
<1>4. QED BY <1>1, <1>2, <1>3, ApplyStep

(* The next step of a request, after its fragment was found or written.    *)
LEMMA Moved ==
    ASSUME DraftInv, NEW p \in Applies, NEW pc \in {"write", "mark"}, Goes(p, pc)
    PROVE  \E r \in RequestSet :
              applying' = [applying EXCEPT ![p] = r] /\ r.pc = pc /\ r.of = applying[p].of
<1> DEFINE r == [applying[p] EXCEPT !.pc = pc]
<1>1. applying' = [applying EXCEPT ![p] = r] BY DEF Goes, DraftInv, DraftTypeOK
<1>2. r \in RequestSet /\ r.pc = pc /\ r.of = applying[p].of BY RequestTyped DEF RequestSet
<1> HIDE DEF r
<1>3. QED BY <1>1, <1>2

LEMMA CheckFragmentStep ==
    ASSUME DraftInv, NEW p \in Applies, CheckFragment(p), file' = file PROVE DraftInv'
<1>1. /\ applying[p].pc = "check" /\ applying[p].of.identity # NoIdentity
      /\ UNCHANGED <<draft, drafted, capture, fragment, overtaken>>
  BY RequestTyped DEF CheckFragment, Applying
<1>2. CASE Ends(p) BY <1>1, <1>2, IdleFine, ApplyStep DEF Ends
<1>3. ASSUME NEW pc \in {"write", "mark"}, Goes(p, pc),
             pc = "mark" => fragment = applying[p].of.identity
      PROVE  DraftInv'
  <2>1. PICK r \in RequestSet :
          applying' = [applying EXCEPT ![p] = r] /\ r.pc = pc /\ r.of = applying[p].of
    BY <1>3, Moved
  <2>2. Applying(r) /\ Marking(r) BY <1>1, <1>3, <2>1 DEF Applying, Marking
  <2>3. QED BY <1>1, <2>1, <2>2, ApplyStep
<1>4. QED BY <1>2, <1>3 DEF CheckFragment, Wrote

(* The fragment was empty, or another account's is overtaken, or it stays. *)
LEMMA RenameFragmentStep ==
    ASSUME DraftInv, NEW p \in Applies, RenameFragment(p), file' = file PROVE DraftInv'
<1>1. /\ applying[p].pc = "write" /\ applying[p].of.identity # NoIdentity
      /\ fragment' = applying[p].of.identity
      /\ overtaken' = (overtaken \/ fragment \notin {NoIdentity, applying[p].of.identity})
      /\ UNCHANGED <<draft, drafted, capture>>
  BY RequestTyped DEF RenameFragment, Applying
<1>2. PICK r \in RequestSet :
        /\ applying' = [applying EXCEPT ![p] = r]
        /\ r.pc = "mark" => r.of = applying[p].of
        /\ r.pc \in {"idle", "mark"}
  <2>1. CASE Ends(p) BY <2>1, Nothing DEF Ends
  <2>2. CASE Goes(p, "mark") BY <2>2, Moved
  <2>3. QED BY <2>1, <2>2 DEF RenameFragment, Wrote
<1>3. overtaken' \in BOOLEAN /\ (overtaken => overtaken')
  BY <1>1 DEF DraftInv, DraftTypeOK
<1>4. ~overtaken' => ~overtaken /\ (fragment = NoIdentity \/ fragment' = fragment)
  BY <1>1, <1>3
<1>5. AppliedIsWritten' BY <1>1, <1>4 DEF DraftInv, AppliedIsWritten, Identified
<1>6. ASSUME NEW q \in Applies PROVE Applying(applying'[q]) /\ Marking(applying[q])'
  <2>1. CASE q = p
    <3>1. applying' = [applying EXCEPT ![p] = r] BY <1>2
    <3>2. applying'[q] = r BY <2>1, <3>1 DEF DraftInv, DraftTypeOK
    <3>3. QED BY <1>1, <1>2, <3>2 DEF Applying, Marking
  <2>2. CASE q # p
    <3>1. applying' = [applying EXCEPT ![p] = r] BY <1>2
    <3>2. applying'[q] = applying[q] BY <2>2, <3>1 DEF DraftInv, DraftTypeOK
    <3>3. Applying(applying[q]) /\ Marking(applying[q]) BY RequestTyped
    <3>4. QED BY <1>4, <3>2, <3>3 DEF Applying, Marking
  <2>3. QED BY <2>1, <2>2
<1>7. DraftTypeOK'
  <2>1. applying' = [applying EXCEPT ![p] = r] BY <1>2
  <2>2. applying' \in [Applies -> RequestSet] BY <2>1 DEF DraftInv, DraftTypeOK
  <2>3. fragment' \in IdentitySet BY <1>1, RequestTyped
  <2>4. QED BY <1>1, <1>3, <2>2, <2>3 DEF DraftInv, DraftTypeOK
<1>8. QED BY <1>1, <1>5, <1>6, <1>7 DEF DraftInv, Identified, Applying

LEMMA MarkAppliedStep ==
    ASSUME DraftInv, NEW p \in Applies, MarkApplied(p), file' = file PROVE DraftInv'
<1> DEFINE of == applying[p].of
           new == [of EXCEPT !.status = "applied"]
<1>1. /\ of \in DraftSet /\ of.identity # NoIdentity
      /\ ~overtaken => fragment = of.identity
  BY RequestTyped DEF MarkApplied, Applying, Marking
<1>2. /\ draft' = SaveProfileDraft(new, of) /\ applying' = [applying EXCEPT ![p] = Idle]
      /\ UNCHANGED <<drafted, capture, fragment, overtaken>>
  BY DEF MarkApplied, Ends
<1> HIDE DEF of
<1>3. new \in DraftSet /\ new.status = "applied" /\ new.identity = of.identity
  BY <1>1 DEF DraftSet
<1> HIDE DEF new
<1>4. draft \in DraftSet BY DEF DraftInv, DraftTypeOK
<1>5. \/ draft' = draft
      \/ /\ draft' \in DraftSet /\ draft'.identity # NoIdentity
         /\ ~overtaken' => draft'.identity = fragment'
  BY <1>1, <1>2, <1>3, <1>4, Saved
<1>6. AppliedIsWritten' /\ Identified(draft)' /\ draft' \in DraftSet
  BY <1>2, <1>4, <1>5 DEF DraftInv, Identified, AppliedIsWritten
<1>7. QED
  BY <1>2, <1>6, IdleFine DEF DraftInv, DraftTypeOK, Applying, Marking

LEMMA DraftStepInv == ASSUME DraftInv, DraftStep, file' = file PROVE DraftInv'
<1>1. CASE CreateDraft
  <2>1. /\ draft' = [NoDraft EXCEPT !.status = "pending", !.revision = 1]
        /\ drafted' \in Nat /\ UNCHANGED <<capture, applying, fragment, overtaken>>
    BY <1>1 DEF CreateDraft, DraftInv, DraftTypeOK
  <2>2. draft' \in DraftSet /\ draft'.status = "pending"
    BY <2>1, Nothing DEF DraftSet
  <2>3. QED BY <2>1, <2>2
    DEF DraftInv, DraftTypeOK, Identified, AppliedIsWritten, Applying, Marking
<1>2. CASE DeleteDraft
  BY <1>2, Nothing
  DEF DeleteDraft, DraftInv, DraftTypeOK, Identified, AppliedIsWritten, Applying, Marking
<1>3. ASSUME NEW p \in Applies, BeginApply(p) \/ CheckFragment(p) PROVE DraftInv'
  BY <1>3, BeginApplyStep, CheckFragmentStep
<1>4. ASSUME NEW p \in Applies, RenameFragment(p) \/ MarkApplied(p) PROVE DraftInv'
  BY <1>4, RenameFragmentStep, MarkAppliedStep
<1>5. ASSUME NEW p \in Applies, BreakApply(p) PROVE DraftInv'
  BY <1>5, IdleFine, ApplyStep DEF BreakApply, Ends
<1>6. ASSUME NEW c \in Captures, BeginCapture(c) PROVE DraftInv'
  <2> DEFINE r == [Idle EXCEPT !.pc = "read", !.of = draft, !.gen = drafted]
  <2>1. r \in RequestSet /\ r.pc = "read"
    BY Nothing DEF DraftInv, DraftTypeOK, RequestSet
  <2>2. /\ \/ capture' = [capture EXCEPT ![c] = r]
           \/ capture' = [capture EXCEPT ![c] = Over]
        /\ UNCHANGED <<draft, drafted, applying, fragment, overtaken>>
    BY <1>6 DEF BeginCapture
  <2> HIDE DEF r
  <2>3. QED BY <2>1, <2>2, CaptureStep, Nothing
<1>7. ASSUME NEW c \in Captures, ReadIdentity(c) PROVE DraftInv'
  <2>1. [n |-> file.n, by |-> c] \in IdentitySet BY DEF DraftInv, DraftTypeOK, IdentitySet
  <2>2. [n |-> file.n, by |-> c] # NoIdentity
    BY DraftAssumption DEF NoIdentity, Captures
  <2>3. capture[c] \in RequestSet BY DEF DraftInv, DraftTypeOK
  <2>4. Captured(c) \in RequestSet /\ Captured(c).identity # NoIdentity
    BY <2>1, <2>2, <2>3 DEF Captured, RequestSet
  <2>5. /\ \/ capture' = [capture EXCEPT ![c] = Captured(c)]
           \/ capture' = [capture EXCEPT ![c] = Over]
        /\ UNCHANGED <<draft, drafted, applying, fragment, overtaken>>
    BY <1>7 DEF ReadIdentity
  <2>6. QED BY <2>4, <2>5, CaptureStep, Nothing
<1>8. ASSUME NEW c \in Captures, SaveIdentity(c) PROVE DraftInv'
  BY <1>8, SaveIdentityStep
<1>9. QED
  BY <1>1, <1>2, <1>3, <1>4, <1>5, <1>6, <1>7, <1>8 DEF DraftStep

(* The sign-ins keep counting the writings of the file.                    *)
DraftsInv ==
    /\ file \in [account : {file.account}, n : Nat, there : BOOLEAN]
    /\ DraftInv

LEMMA FileTyped ==
    ASSUME file \in [account : {file.account}, n : Nat, there : BOOLEAN],
           SignInRuns \/ StopSignIn \/ file' = file
    PROVE  file' \in [account : {file'.account}, n : Nat, there : BOOLEAN]
<1>1. \/ file' = file
      \/ file' = [account |-> page.account, n |-> file.n + 1, there |-> TRUE]
      \/ file' = [file EXCEPT !.there = FALSE]
      \/ file' = [file EXCEPT !.account = export, !.there = TRUE]
  BY DEF SignInRuns, StopSignIn, Start, Submit, Cancel, Tick, Continue,
     ContinueFails, StoreState, Complete, Logout, RefreshStorageState,
     WritePrivateStateFile
<1>2. CASE file' = [account |-> page.account, n |-> file.n + 1, there |-> TRUE]
  <2>1. file.n + 1 \in Nat OBVIOUS
  <2>2. QED BY <1>2, <2>1
<1>3. CASE file' = [file EXCEPT !.there = FALSE]
  <2>1. file'.account = file.account BY <1>3
  <2>2. QED BY <1>3, <2>1
<1>4. CASE file' = [file EXCEPT !.account = export, !.there = TRUE]
  <2>1. file'.account = export BY <1>4
  <2>2. QED BY <1>4, <2>1
<1>5. QED BY <1>1, <1>2, <1>3, <1>4

(* An applied draft shows the account whose fragment is in the store, for  *)
(* any sessions, captures, accounts and apply requests at a time, unless   *)
(* one of them renamed its fragment over another account's.                *)
THEOREM AppliedWritten == DraftsSpec => []AppliedIsWritten
<1>1. SignInInit /\ DraftInit => DraftsInv
  BY DraftInitInv DEF DraftsInv, SignInInit
<1>2. ASSUME DraftsInv, [DraftsNext]_<<signInVars, draftVars>> PROVE DraftsInv'
  <2>1. CASE DraftStep /\ UNCHANGED signInVars
    BY <1>2, <2>1, DraftStepInv DEF DraftsInv, signInVars
  <2>2. CASE SignInRuns /\ UNCHANGED draftVars
    <3>1. file' \in [account : {file'.account}, n : Nat, there : BOOLEAN]
      BY <1>2, <2>2, FileTyped DEF DraftsInv
    <3>2. QED BY <1>2, <2>2, <3>1, DraftsKept DEF DraftsInv
  <2>3. CASE StopSignIn /\ StopDrafts
    <3>1. /\ UNCHANGED <<file, draft, drafted, fragment, overtaken>>
          /\ applying' = [p \in Applies |-> Idle]
      BY <2>3 DEF StopSignIn, StopDrafts
    <3>2. /\ capture' \in [Captures -> RequestSet]
          /\ \A c \in Captures : capture'[c].pc # "save"
      BY <2>3, Nothing DEF StopDrafts
    <3>3. QED
      BY <1>2, <3>1, <3>2, IdleFine, Nothing
      DEF DraftsInv, DraftInv, DraftTypeOK, Identified, AppliedIsWritten, Applying, Marking
  <2>4. CASE UNCHANGED <<signInVars, draftVars>>
    BY <1>2, <2>4, DraftsKept DEF DraftsInv, DraftInv, DraftTypeOK, Applying, Marking,
        signInVars
  <2>5. QED BY <1>2, <2>1, <2>2, <2>3, <2>4 DEF DraftsNext
<1>3. DraftsInv => AppliedIsWritten BY DEF DraftsInv, DraftInv
<1>4. QED BY <1>1, <1>2, <1>3, PTL DEF DraftsSpec

-----------------------------------------------------------------------------
(* Checks.  The worker holds the row of the application it sends, and a    *)
(* row that is submitted stays so.  A retry that ends is counted, so what  *)
(* a check knew of its retry is never lost: the retry is under way, or the *)
(* count has grown since.  None of this depends on what the page shows.    *)

FlowSet ==
    [pc : {"idle", "goto", "look", "click", "answer", "observe", "store",
           "reset", "enqueue", "keep"},
     app : Apps \cup {NoApp}, fine : BOOLEAN,
     result : {"none", "done", "review", "captcha"},
     at : Nat, since : Nat, twice : BOOLEAN]

RetrySet == [key : Apps \X Nat, at : Nat, over : BOOLEAN]

CheckTypeOK ==
    /\ row \in [Apps -> {"blocked", "ready", "submitting", "submitted"}]
    /\ flow \in [Callers -> FlowSet]
    /\ ended \in [Apps -> Nat] /\ second \in Nat

WorkerHolds ==
    LET f == flow["worker"]
    IN f.pc # "idle" => f.app \in Apps /\ row[f.app] = "submitting"

FineIsSubmitted == \A a \in Apps : flow[a].fine => row[a] = "submitted"

KeysTold == retries \subseteq RetrySet /\ \A t \in retries : t.key[2] = t.at

Confirmed(a, n) == row[a] = "submitted" \/ Underway(a) \/ ended[a] > n

Knows(a, f) ==
    /\ f.since <= ended[a]
    /\ f.pc = "keep" /\ f.result = "done" => f.twice \/ Confirmed(a, f.since)

FlowsKnow == \A a \in Apps : Knows(a, flow[a])

SessionsKnow ==
    \A s \in checks :
        /\ s.app \in Apps /\ s.since \in Nat /\ s.since <= ended[s.app]
        /\ s.state = "done" => s.twice \/ Confirmed(s.app, s.since)

CheckInv ==
    /\ CheckTypeOK /\ WorkerHolds /\ FineIsSubmitted /\ KeysTold
    /\ FlowsKnow /\ SessionsKnow

(* What every step keeps of rows, retries and counts.                      *)
Onward ==
    \A a \in Apps :
        /\ row[a] = "submitted" => row'[a] = "submitted"
        /\ ended[a] <= ended'[a]
        /\ Underway(a) => Underway(a)' \/ ended[a] < ended'[a]

LEMMA NoFlowSet ==
    NoFlow \in FlowSet /\ NoFlow.pc = "idle" /\ ~NoFlow.fine /\ NoFlow.since = 0
BY DEF NoFlow, FlowSet

LEMMA CheckInitInv == CheckInit => CheckInv
<1> SUFFICES ASSUME CheckInit PROVE CheckInv
  OBVIOUS
<1>1. /\ flow = [c \in Callers |-> NoFlow] /\ row = [a \in Apps |-> "blocked"]
      /\ ended = [a \in Apps |-> 0] /\ second = 0 /\ retries = {} /\ checks = {}
  BY DEF CheckInit
<1>2. CheckTypeOK BY <1>1, NoFlowSet DEF CheckTypeOK
<1>3. WorkerHolds /\ FineIsSubmitted
  BY <1>1, NoFlowSet DEF WorkerHolds, FineIsSubmitted, Callers
<1>4. KeysTold /\ SessionsKnow BY <1>1 DEF KeysTold, SessionsKnow
<1>5. FlowsKnow BY <1>1, NoFlowSet DEF FlowsKnow, Knows, Callers
<1>6. QED BY <1>2, <1>3, <1>4, <1>5 DEF CheckInv

LEMMA StaysConfirmed ==
    ASSUME CheckTypeOK, CheckTypeOK', Onward, NEW a \in Apps, NEW n \in Nat,
           n <= ended[a]
    PROVE  n <= ended'[a] /\ (Confirmed(a, n) => Confirmed(a, n)')
<1>1. ended[a] \in Nat /\ ended'[a] \in Nat BY DEF CheckTypeOK
<1>2. ended[a] <= ended'[a] BY DEF Onward
<1>3. n <= ended'[a] BY <1>1, <1>2
<1>4. CASE row[a] = "submitted" BY <1>3, <1>4 DEF Onward, Confirmed
<1>5. CASE Underway(a)
  <2>1. Underway(a)' \/ ended[a] < ended'[a] BY <1>5 DEF Onward
  <2>2. ended[a] < ended'[a] => ended'[a] > n BY <1>1
  <2>3. QED BY <1>3, <2>1, <2>2 DEF Confirmed
<1>6. CASE ended[a] > n
  <2>1. ended'[a] > n BY <1>1, <1>2, <1>6
  <2>2. QED BY <1>3, <2>1 DEF Confirmed
<1>7. QED BY <1>3, <1>4, <1>5, <1>6 DEF Confirmed

LEMMA StaysKnown ==
    ASSUME CheckTypeOK, CheckTypeOK', Onward, NEW a \in Apps, NEW f \in FlowSet,
           Knows(a, f)
    PROVE  Knows(a, f)'
<1>1. f.since \in Nat /\ f.since <= ended[a] BY DEF FlowSet, Knows
<1>2. PICK n \in Nat : n = f.since BY <1>1
<1>3. n <= ended'[a] /\ (Confirmed(a, n) => Confirmed(a, n)')
  BY <1>1, <1>2, StaysConfirmed
<1>4. QED BY <1>2, <1>3 DEF Knows

LEMMA SessionsStay ==
    ASSUME CheckTypeOK, CheckTypeOK', Onward, SessionsKnow, checks' \subseteq checks
    PROVE  SessionsKnow'
<1> SUFFICES ASSUME NEW s \in checks'
             PROVE  /\ s.app \in Apps /\ s.since \in Nat /\ s.since <= ended'[s.app]
                    /\ s.state = "done" => s.twice \/ Confirmed(s.app, s.since)'
  BY DEF SessionsKnow
<1>1. /\ s.app \in Apps /\ s.since \in Nat /\ s.since <= ended[s.app]
      /\ s.state = "done" => s.twice \/ Confirmed(s.app, s.since)
  BY DEF SessionsKnow
<1>2. s.since <= ended'[s.app]
      /\ (Confirmed(s.app, s.since) => Confirmed(s.app, s.since)')
  BY <1>1, StaysConfirmed
<1>3. QED BY <1>1, <1>2

(* One call moves; the others know what they knew.                         *)
LEMMA FlowsStay ==
    ASSUME CheckTypeOK, CheckTypeOK', Onward, FlowsKnow, NEW c \in Callers,
           NEW f \in FlowSet, flow' = [flow EXCEPT ![c] = f],
           c \in Apps => Knows(c, f)'
    PROVE  FlowsKnow'
<1> SUFFICES ASSUME NEW a \in Apps PROVE Knows(a, flow[a])'
  BY DEF FlowsKnow
<1>1. a \in Callers BY DEF Callers
<1>2. flow'[a] = IF a = c THEN f ELSE flow[a] BY <1>1 DEF CheckTypeOK
<1>3. CASE a = c
  <2>1. flow'[a] = f BY <1>2, <1>3
  <2>2. QED BY <1>3, <2>1 DEF Knows
<1>4. CASE a # c
  <2>1. PICK g \in FlowSet : g = flow[a] BY <1>1 DEF CheckTypeOK
  <2>2. Knows(a, g)' BY <2>1, StaysKnown DEF FlowsKnow
  <2>3. flow'[a] = g BY <1>2, <1>4, <2>1
  <2>4. QED BY <2>2, <2>3 DEF Knows
<1>5. QED BY <1>3, <1>4

(* A call goes on: it keeps its application, and what it knew of its row.  *)
LEMMA FlowMoves ==
    ASSUME CheckInv, NEW c \in Callers, NEW f \in FlowSet,
           flow' = [flow EXCEPT ![c] = f], second' = second,
           UNCHANGED <<row, retries, ended>>, checks' \subseteq checks,
           c \in Apps => Knows(c, f),
           \/ f.pc = "idle" /\ ~f.fine
           \/ f.app = flow[c].app /\ f.fine = flow[c].fine /\ flow[c].pc # "idle"
           \/ c \in Apps /\ f.fine = (row[c] = "submitted")
    PROVE  CheckInv'
<1>1. CheckTypeOK' BY DEF CheckInv, CheckTypeOK
<1>2. WorkerHolds'
  BY CheckAssumption DEF CheckInv, CheckTypeOK, WorkerHolds, Callers
<1>3. FineIsSubmitted'
  BY DEF CheckInv, CheckTypeOK, FineIsSubmitted, Callers
<1>4. KeysTold' BY DEF CheckInv, KeysTold
<1>5. Onward BY DEF CheckInv, CheckTypeOK, Onward, Underway
<1>6. c \in Apps => Knows(c, f)' BY DEF Knows, Confirmed, Underway
<1>7. FlowsKnow' BY <1>1, <1>5, <1>6, FlowsStay DEF CheckInv
<1>8. SessionsKnow' BY <1>1, <1>5, SessionsStay DEF CheckInv
<1>9. QED BY <1>1, <1>2, <1>3, <1>4, <1>7, <1>8 DEF CheckInv

LEMMA StepMoves ==
    ASSUME CheckInv, NEW c \in Callers,
           UNCHANGED <<second, row, retries, ended, checks>>,
           NEW pc \in {"look", "click", "observe", "store"},
           NEW result \in {"none", "done", "review", "captcha"},
           flow[c].pc # "idle", Step(c, pc, result)
    PROVE  CheckInv'
<1> DEFINE f == [flow[c] EXCEPT !.pc = pc, !.result = result]
<1>1. flow[c] \in FlowSet BY DEF CheckInv, CheckTypeOK
<1>2. /\ f \in FlowSet /\ f.app = flow[c].app /\ f.fine = flow[c].fine
      /\ f.since = flow[c].since /\ f.pc # "keep"
  BY <1>1 DEF FlowSet
<1>3. flow' = [flow EXCEPT ![c] = f] BY DEF Step
<1> HIDE DEF f
<1>4. c \in Apps => Knows(c, f) BY <1>2 DEF CheckInv, FlowsKnow, Knows
<1>5. QED BY <1>2, <1>3, <1>4, FlowMoves

LEMMA BreakMoves ==
    ASSUME CheckInv, NEW c \in Callers,
           UNCHANGED <<second, row, retries, ended, checks>>, Break(c)
    PROVE  CheckInv'
<1>1. c \in Apps => Knows(c, NoFlow)
  BY NoFlowSet DEF CheckInv, CheckTypeOK, Knows
<1>2. QED BY <1>1, NoFlowSet, FlowMoves DEF Break

LEMMA ClaimMoves ==
    ASSUME CheckInv, NEW a \in Apps, NEW pc \in {"goto", "answer"},
           UNCHANGED <<second, row, retries, ended>>, checks' \subseteq checks,
           Claim(a, a, pc)
    PROVE  CheckInv'
<1> DEFINE f == [NoFlow EXCEPT !.pc = pc, !.app = a, !.fine = row[a] = "submitted"]
<1>1. /\ f \in FlowSet /\ f.fine = (row[a] = "submitted") /\ f.since = 0
      /\ f.pc # "keep"
  BY DEF NoFlow, FlowSet
<1>2. flow' = [flow EXCEPT ![a] = f] BY DEF Claim
<1> HIDE DEF f
<1>3. Knows(a, f) BY <1>1 DEF CheckInv, CheckTypeOK, Knows
<1>4. QED BY <1>1, <1>2, <1>3, FlowMoves DEF Callers

(* A known key stands for a task that is under way, or for one of this     *)
(* very second.                                                            *)
LEMMA ConfirmStep == ASSUME CheckInv, NEW a \in Apps, Confirm(a) PROVE CheckInv'
<1> DEFINE known == {t \in retries : t.key = RetryKey(a, second)}
           asked == [flow[a] EXCEPT !.at = second, !.since = ended[a]]
           f == IF flow[a].result # "done" \/ flow[a].fine
                THEN [flow[a] EXCEPT !.pc = "keep", !.at = second]
                ELSE IF known = {} THEN [asked EXCEPT !.pc = "reset"]
                ELSE [asked EXCEPT !.pc = "keep",
                                   !.twice = \E t \in known : t.over /\ t.at = second]
<1>1. a \in Callers BY DEF Callers
<1>2. /\ flow[a] \in FlowSet /\ ended[a] \in Nat /\ second \in Nat
      /\ flow[a].pc = "store" /\ UNCHANGED <<second, row, retries, ended, checks>>
  BY <1>1 DEF CheckInv, CheckTypeOK, Confirm
<1>3. flow' = [flow EXCEPT ![a] = f] BY DEF Confirm
<1>4. f \in FlowSet /\ f.app = flow[a].app /\ f.fine = flow[a].fine
  BY <1>2 DEF FlowSet
<1>5. Knows(a, f)
  <2>1. CASE flow[a].result # "done" \/ flow[a].fine
    <3>1. f.since = flow[a].since /\ f.result = flow[a].result
      BY <1>2, <2>1 DEF FlowSet
    <3>2. flow[a].fine => row[a] = "submitted" BY DEF CheckInv, FineIsSubmitted
    <3>3. flow[a].since <= ended[a] BY DEF CheckInv, FlowsKnow, Knows
    <3> HIDE DEF f
    <3>4. QED BY <2>1, <3>1, <3>2, <3>3 DEF Knows, Confirmed
  <2>2. CASE ~(flow[a].result # "done" \/ flow[a].fine) /\ known = {}
    <3>1. f.since = ended[a] /\ f.pc = "reset" BY <1>2, <2>2 DEF FlowSet
    <3> HIDE DEF f
    <3>2. QED BY <1>2, <3>1 DEF Knows
  <2>3. CASE ~(flow[a].result # "done" \/ flow[a].fine) /\ known # {}
    <3>1. /\ f.since = ended[a]
          /\ f.twice = \E t \in known : t.over /\ t.at = second
      BY <1>2, <2>3 DEF FlowSet
    <3>2. PICK t \in retries : t.key = RetryKey(a, second) BY <2>3
    <3>3. AppOf(t) = a /\ t.at = second /\ t \in known
      BY <3>2 DEF CheckInv, KeysTold, RetryKey, AppOf
    <3>4. t.over => f.twice BY <3>1, <3>3
    <3>5. ~t.over => Underway(a) BY <3>3 DEF Underway
    <3> HIDE DEF f, known
    <3>6. QED BY <1>2, <3>1, <3>4, <3>5 DEF Knows, Confirmed
  <2>4. QED BY <2>1, <2>2, <2>3
<1> HIDE DEF f
<1>6. QED BY <1>1, <1>2, <1>3, <1>4, <1>5, FlowMoves

(* The worker's row moves while no check has found it submitted; a retry   *)
(* that ends is counted.                                                   *)
LEMMA RetriesEnd ==
    ASSUME CheckTypeOK, KeysTold, NEW b \in Apps, EndRetry(b)
    PROVE  /\ KeysTold' /\ ended' \in [Apps -> Nat]
           /\ \A a \in Apps :
                /\ ended[a] <= ended'[a]
                /\ Underway(a) => Underway(a)' \/ ended[a] < ended'[a]
<1>1. ended' = [ended EXCEPT ![b] = ended[b] + 1] BY DEF EndRetry
<1>2. ended' \in [Apps -> Nat] BY <1>1 DEF CheckTypeOK
<1>3. ASSUME NEW t \in retries
      PROVE  [t EXCEPT !.over = TRUE] \in RetrySet
             /\ [t EXCEPT !.over = TRUE].key = t.key /\ [t EXCEPT !.over = TRUE].at = t.at
  BY DEF KeysTold, RetrySet
<1>4. KeysTold'
  <2>1. ASSUME NEW u \in retries' PROVE u \in RetrySet /\ u.key[2] = u.at
    <3>1. PICK t \in retries : u = IF AppOf(t) = b THEN [t EXCEPT !.over = TRUE] ELSE t
      BY DEF EndRetry
    <3>2. t \in RetrySet /\ t.key[2] = t.at BY DEF KeysTold
    <3>3. CASE AppOf(t) = b
      <4>1. u \in RetrySet /\ u.key = t.key /\ u.at = t.at BY <1>3, <3>1, <3>3
      <4>2. QED BY <3>2, <4>1
    <3>4. CASE AppOf(t) # b BY <3>1, <3>2, <3>4
    <3>5. QED BY <3>3, <3>4
  <2>2. QED BY <2>1 DEF KeysTold
<1>5. ASSUME NEW a \in Apps
      PROVE  ended[a] <= ended'[a]
             /\ (Underway(a) => Underway(a)' \/ ended[a] < ended'[a])
  <2>1. CASE a = b BY <1>1, <2>1 DEF CheckTypeOK
  <2>2. CASE a # b
    <3>1. ended'[a] = ended[a] /\ ended[a] \in Nat BY <1>1, <2>2 DEF CheckTypeOK
    <3>2. ASSUME NEW t \in retries, AppOf(t) = a, ~t.over PROVE Underway(a)'
      <4>1. t \in retries' BY <2>2, <3>2 DEF EndRetry
      <4>2. QED BY <3>2, <4>1 DEF Underway
    <3>3. QED BY <3>1, <3>2 DEF Underway
  <2>3. QED BY <2>1, <2>2
<1>6. QED BY <1>2, <1>4, <1>5

LEMMA WorkerRow ==
    ASSUME CheckInv, NEW b \in Apps, row[b] # "submitted",
           NEW to \in {"blocked", "submitting", "submitted"},
           NEW f \in FlowSet, ~f.fine,
           f.pc = "idle" \/ (f.app = b /\ to = "submitting"),
           row' = [row EXCEPT ![b] = to], UNCHANGED <<second, checks>>,
           flow' = [flow EXCEPT !["worker"] = f],
           EndRetry(b) \/ UNCHANGED <<retries, ended>>
    PROVE  CheckInv'
<1>1. "worker" \in Callers /\ "worker" \notin Apps
  BY CheckAssumption DEF Callers
<1>2. /\ KeysTold' /\ ended' \in [Apps -> Nat]
      /\ \A a \in Apps :
           /\ ended[a] <= ended'[a]
           /\ Underway(a) => Underway(a)' \/ ended[a] < ended'[a]
  <2>1. CASE EndRetry(b) BY <2>1, RetriesEnd DEF CheckInv
  <2>2. CASE UNCHANGED <<retries, ended>>
    BY <2>2 DEF CheckInv, CheckTypeOK, KeysTold, Underway
  <2>3. QED BY <2>1, <2>2
<1>3. CheckTypeOK' BY <1>1, <1>2 DEF CheckInv, CheckTypeOK
<1>4. WorkerHolds' BY <1>1 DEF CheckInv, CheckTypeOK, WorkerHolds
<1>5. FineIsSubmitted'
  BY <1>1 DEF CheckInv, CheckTypeOK, FineIsSubmitted, Callers
<1>6. Onward
  <2>1. \A a \in Apps : row[a] = "submitted" => row'[a] = "submitted"
    BY DEF CheckInv, CheckTypeOK
  <2>2. QED BY <1>2, <2>1 DEF Onward
<1>7. FlowsKnow' BY <1>1, <1>3, <1>6, FlowsStay DEF CheckInv
<1>8. SessionsKnow' BY <1>3, <1>6, SessionsStay DEF CheckInv
<1>9. QED BY <1>2, <1>3, <1>4, <1>5, <1>7, <1>8 DEF CheckInv

LEMMA WorkerSendsStep == ASSUME CheckInv, NEW a \in Apps, WorkerSends(a) PROVE CheckInv'
<1>1. /\ row[a] = "ready" /\ flow["worker"].pc = "idle"
      /\ UNCHANGED <<second, checks>>
  BY DEF WorkerSends
<1>2. CASE row' = [row EXCEPT ![a] = "submitted"] /\ flow' = flow /\ EndRetry(a)
  <2>1. "worker" \in Callers BY DEF Callers
  <2>2. KeysTold' /\ ended' \in [Apps -> Nat] /\ Onward
    <3>1. \A b \in Apps : row[b] = "submitted" => row'[b] = "submitted"
      BY <1>2 DEF CheckInv, CheckTypeOK
    <3>2. QED BY <1>2, <3>1, RetriesEnd DEF CheckInv, Onward
  <2>3. CheckTypeOK' BY <1>1, <1>2, <2>2 DEF CheckInv, CheckTypeOK
  <2>4. WorkerHolds' BY <1>1, <1>2 DEF CheckInv, WorkerHolds
  <2>5. FineIsSubmitted' BY <1>1, <1>2 DEF CheckInv, CheckTypeOK, FineIsSubmitted
  <2>6. FlowsKnow'
    <3> SUFFICES ASSUME NEW b \in Apps PROVE Knows(b, flow[b])'
      BY DEF FlowsKnow
    <3>1. PICK g \in FlowSet : g = flow[b] BY DEF CheckInv, CheckTypeOK, Callers
    <3>2. Knows(b, g)' BY <2>2, <2>3, <3>1, StaysKnown DEF CheckInv, FlowsKnow
    <3>3. flow'[b] = g BY <1>2, <3>1
    <3>4. QED BY <3>2, <3>3 DEF Knows
  <2>7. SessionsKnow' BY <1>1, <2>2, <2>3, SessionsStay DEF CheckInv
  <2>8. QED BY <2>2, <2>3, <2>4, <2>5, <2>6, <2>7 DEF CheckInv
<1>3. CASE /\ row' = [row EXCEPT ![a] = "submitting"] /\ Claim("worker", a, "goto")
           /\ UNCHANGED <<retries, ended>>
  <2> DEFINE f == [NoFlow EXCEPT !.pc = "goto", !.app = a, !.fine = row[a] = "submitted"]
  <2>1. f \in FlowSet /\ ~f.fine /\ f.app = a BY <1>1 DEF NoFlow, FlowSet
  <2>2. flow' = [flow EXCEPT !["worker"] = f] BY <1>3 DEF Claim
  <2> HIDE DEF f
  <2>3. QED BY <1>1, <1>3, <2>1, <2>2, WorkerRow
<1>4. QED BY <1>2, <1>3 DEF WorkerSends

LEMMA WorkerEnds ==
    ASSUME CheckInv, flow["worker"].pc # "idle", NEW to \in {"blocked", "submitted"},
           row' = [row EXCEPT ![flow["worker"].app] = to], Break("worker"),
           EndRetry(flow["worker"].app), UNCHANGED <<second, checks>>
    PROVE  CheckInv'
<1>1. PICK b \in Apps : b = flow["worker"].app /\ row[b] = "submitting"
  BY DEF CheckInv, WorkerHolds
<1>2. flow' = [flow EXCEPT !["worker"] = NoFlow] BY DEF Break
<1>3. row' = [row EXCEPT ![b] = to] /\ EndRetry(b) BY <1>1
<1>4. QED BY <1>1, <1>2, <1>3, NoFlowSet, WorkerRow

(* A check that is about to ask for a retry: a blocked row is reset, the   *)
(* task is enqueued, the session is kept.                                  *)
LEMMA ResetStep == ASSUME CheckInv, NEW a \in Apps, ResetForRetry(a) PROVE CheckInv'
<1>1. a \in Callers /\ a # "worker" BY CheckAssumption DEF Callers
<1>2. flow[a].pc = "reset" /\ UNCHANGED <<second, retries, ended, checks>>
  BY DEF ResetForRetry
<1>3. flow[a] \in FlowSet BY <1>1 DEF CheckInv, CheckTypeOK
<1>4. CASE Break(a) /\ UNCHANGED row BY <1>1, <1>2, <1>4, BreakMoves
<1>5. CASE row[a] = "submitted" /\ Reaches(a, "keep") /\ UNCHANGED row
  <2> DEFINE f == [flow[a] EXCEPT !.pc = "keep"]
  <2>1. /\ f \in FlowSet /\ f.app = flow[a].app /\ f.fine = flow[a].fine
        /\ f.since = flow[a].since
    BY <1>3 DEF FlowSet
  <2>2. flow' = [flow EXCEPT ![a] = f] BY <1>5 DEF Reaches
  <2> HIDE DEF f
  <2>3. Knows(a, f) BY <1>5, <2>1 DEF CheckInv, FlowsKnow, Knows, Confirmed
  <2>4. QED BY <1>1, <1>2, <1>5, <2>1, <2>2, <2>3, FlowMoves
<1>6. CASE row[a] = "blocked" /\ row' = [row EXCEPT ![a] = "ready"] /\ Reaches(a, "enqueue")
  <2>1. PICK f \in FlowSet : f = [flow[a] EXCEPT !.pc = "enqueue"]
    BY <1>3 DEF FlowSet
  <2>2. flow' = [flow EXCEPT ![a] = f] BY <1>6, <2>1 DEF Reaches
  <2>3. f.fine = flow[a].fine /\ f.since = flow[a].since /\ f.pc = "enqueue"
    BY <1>3, <2>1 DEF FlowSet
  <2>4. CheckTypeOK' BY <1>1, <1>2, <1>6, <2>1, <2>2 DEF CheckInv, CheckTypeOK
  <2>5. WorkerHolds'
    BY <1>1, <1>6, <2>2 DEF CheckInv, CheckTypeOK, WorkerHolds, Callers
  <2>6. FineIsSubmitted'
    BY <1>1, <1>6, <2>2, <2>3
    DEF CheckInv, CheckTypeOK, FineIsSubmitted, Callers
  <2>7. Onward BY <1>2, <1>6 DEF CheckInv, CheckTypeOK, Onward, Underway
  <2>8. Knows(a, f)' BY <1>2, <2>3 DEF CheckInv, FlowsKnow, Knows
  <2>9. FlowsKnow' BY <1>1, <2>1, <2>2, <2>4, <2>7, <2>8, FlowsStay DEF CheckInv
  <2>10. SessionsKnow' BY <1>2, <2>4, <2>7, SessionsStay DEF CheckInv
  <2>11. KeysTold' BY <1>2 DEF CheckInv, KeysTold
  <2>12. QED BY <2>4, <2>5, <2>6, <2>9, <2>10, <2>11 DEF CheckInv
<1>7. QED BY <1>4, <1>5, <1>6 DEF ResetForRetry

LEMMA EnqueueStep == ASSUME CheckInv, NEW a \in Apps, EnqueueRetry(a) PROVE CheckInv'
<1> DEFINE t == [key |-> RetryKey(a, flow[a].at), at |-> flow[a].at, over |-> FALSE]
<1>1. a \in Callers /\ a # "worker" BY CheckAssumption DEF Callers
<1>2. /\ retries' = retries \cup {t} /\ flow' = [flow EXCEPT ![a].pc = "keep"]
      /\ UNCHANGED <<second, row, ended, checks>> /\ flow[a].pc # "idle"
  BY DEF EnqueueRetry, Reaches
<1>3. PICK f \in FlowSet : f = [flow[a] EXCEPT !.pc = "keep"]
  BY <1>1 DEF CheckInv, CheckTypeOK, FlowSet
<1>4. flow[a] \in FlowSet /\ flow' = [flow EXCEPT ![a] = f]
  BY <1>1, <1>2, <1>3 DEF CheckInv, CheckTypeOK
<1>5. f.app = flow[a].app /\ f.fine = flow[a].fine /\ f.since = flow[a].since
  BY <1>3, <1>4 DEF FlowSet
<1>6. t \in RetrySet /\ t.key[2] = t.at /\ AppOf(t) = a /\ ~t.over
  BY <1>4 DEF FlowSet, RetrySet, RetryKey, AppOf
<1> HIDE DEF t
<1>7. CheckTypeOK' BY <1>1, <1>2, <1>4, <1>5 DEF CheckInv, CheckTypeOK
<1>8. WorkerHolds'
  BY <1>1, <1>2, <1>4, <1>5
  DEF CheckInv, CheckTypeOK, WorkerHolds, Callers
<1>9. FineIsSubmitted'
  BY <1>1, <1>2, <1>4, <1>5
  DEF CheckInv, CheckTypeOK, FineIsSubmitted, Callers
<1>10. KeysTold' BY <1>2, <1>6 DEF CheckInv, KeysTold
<1>11. Onward BY <1>2 DEF CheckInv, CheckTypeOK, Onward, Underway
<1>12. Underway(a)' BY <1>2, <1>6 DEF Underway
<1>13. Knows(a, f)'
  BY <1>2, <1>5, <1>12 DEF CheckInv, FlowsKnow, Knows, Confirmed
<1>14. FlowsKnow' BY <1>1, <1>2, <1>4, <1>7, <1>11, <1>13, FlowsStay DEF CheckInv
<1>15. SessionsKnow' BY <1>2, <1>7, <1>11, SessionsStay DEF CheckInv
<1>16. QED BY <1>7, <1>8, <1>9, <1>10, <1>14, <1>15 DEF CheckInv

LEMMA KeepStep == ASSUME CheckInv, NEW a \in Apps, KeepSession(a) PROVE CheckInv'
<1> DEFINE s == [app |-> a, state |-> flow[a].result, until |-> flow[a].at + CheckTTL,
                 since |-> flow[a].since, twice |-> flow[a].twice]
<1>1. a \in Callers BY DEF Callers
<1>2. /\ flow[a].pc = "keep" /\ flow' = [flow EXCEPT ![a] = NoFlow]
      /\ checks' = checks \cup {s} /\ UNCHANGED <<second, row, retries, ended>>
  BY DEF KeepSession, Break
<1>3. flow[a] \in FlowSet BY <1>1 DEF CheckInv, CheckTypeOK
<1>4. /\ s.app = a /\ s.since \in Nat /\ s.since <= ended[a]
      /\ s.state = "done" => s.twice \/ Confirmed(s.app, s.since)
  BY <1>2, <1>3 DEF CheckInv, FlowsKnow, Knows, FlowSet
<1> HIDE DEF s
<1>5. CheckTypeOK' BY <1>2, NoFlowSet DEF CheckInv, CheckTypeOK
<1>6. WorkerHolds' BY <1>2, CheckAssumption DEF CheckInv, CheckTypeOK, WorkerHolds, Callers
<1>7. FineIsSubmitted'
  BY <1>2, NoFlowSet DEF CheckInv, CheckTypeOK, FineIsSubmitted, Callers
<1>8. KeysTold' BY <1>2 DEF CheckInv, KeysTold
<1>9. Onward BY <1>2 DEF CheckInv, CheckTypeOK, Onward, Underway
<1>10. Knows(a, NoFlow)' BY <1>5, NoFlowSet DEF CheckTypeOK, Knows
<1>11. FlowsKnow' BY <1>1, <1>2, <1>5, <1>9, <1>10, NoFlowSet, FlowsStay DEF CheckInv
<1>12. SessionsKnow'
  BY <1>2, <1>4 DEF CheckInv, SessionsKnow, Confirmed, Underway
<1>13. QED BY <1>5, <1>6, <1>7, <1>8, <1>11, <1>12 DEF CheckInv

LEMMA StopChecksStep == ASSUME CheckInv, StopChecks PROVE CheckInv'
<1>1. /\ flow' = [c \in Callers |-> NoFlow] /\ UNCHANGED <<second, retries, ended>>
      /\ row' = [a \in Apps |-> IF row[a] # "submitting" THEN row[a]
                                ELSE IF a \in sent THEN "submitted" ELSE "ready"]
      /\ checks' = {}
  BY DEF StopChecks
<1>2. CheckTypeOK' BY <1>1, NoFlowSet DEF CheckInv, CheckTypeOK
<1>3. WorkerHolds' /\ FineIsSubmitted'
  BY <1>1, NoFlowSet DEF WorkerHolds, FineIsSubmitted, Callers
<1>4. KeysTold' /\ SessionsKnow' BY <1>1 DEF CheckInv, KeysTold, SessionsKnow
<1>5. FlowsKnow'
  BY <1>1, <1>2, NoFlowSet DEF CheckTypeOK, FlowsKnow, Knows, Callers
<1>6. QED BY <1>2, <1>3, <1>4, <1>5 DEF CheckInv

LEMMA BrowserStep == ASSUME CheckInv, NEW c \in Callers,
    Goto(c) \/ Look(c) \/ Click(c) \/ Answer(c) \/ Observe(c) \/ BreakOff(c)
    PROVE CheckInv'
<1>1. CASE Goto(c) BY <1>1, StepMoves DEF Goto
<1>2. CASE Look(c)
  <2>1. /\ flow[c].pc # "idle" /\ UNCHANGED <<second, row, retries, ended, checks>>
        /\ \/ Step(c, "store", "done") \/ Step(c, "click", "none")
           \/ Step(c, "store", "review")
    BY <1>2 DEF Look
  <2>2. QED BY <2>1, StepMoves
<1>3. CASE Click(c)
  <2>1. /\ flow[c].pc # "idle" /\ UNCHANGED <<second, row, retries, ended, checks>>
        /\ Step(c, "observe", "none") \/ Break(c)
    BY <1>3 DEF Click
  <2>2. QED BY <2>1, StepMoves, BreakMoves
<1>4. CASE Answer(c)
  <2>1. /\ flow[c].pc # "idle" /\ UNCHANGED <<second, row, retries, ended, checks>>
        /\ Step(c, "observe", "none") \/ Break(c)
    BY <1>4 DEF Answer
  <2>2. QED BY <2>1, StepMoves, BreakMoves
<1>5. CASE Observe(c)
  <2>1. /\ flow[c].pc # "idle" /\ UNCHANGED <<second, row, retries, ended, checks>>
        /\ \/ Step(c, "store", "captcha") \/ Step(c, "store", "done")
           \/ Step(c, "store", "review")
    BY <1>5 DEF Observe
  <2>2. QED BY <2>1, StepMoves
<1>6. CASE BreakOff(c) BY <1>6, BreakMoves DEF BreakOff
<1>7. QED BY <1>1, <1>2, <1>3, <1>4, <1>5, <1>6

LEMMA CheckStepInv == CheckInv /\ [CheckStep]_checkVars => CheckInv'
<1> SUFFICES ASSUME CheckInv, [CheckStep]_checkVars PROVE CheckInv'
  OBVIOUS
<1>1. ASSUME UNCHANGED <<row, retries, ended, flow>>, checks' \subseteq checks,
             second' \in Nat
      PROVE  CheckInv'
  BY <1>1
  DEF CheckInv, CheckTypeOK, WorkerHolds, FineIsSubmitted, KeysTold, FlowsKnow,
      SessionsKnow, Knows, Confirmed, Underway
<1>2. ASSUME NEW a \in Apps, StartCheck(a) \/ AnswerCheck(a) PROVE CheckInv'
  BY <1>2, ClaimMoves DEF StartCheck, AnswerCheck
<1>3. ASSUME NEW a \in Apps, CancelCheck(a) PROVE CheckInv'
  BY <1>1, <1>3 DEF CancelCheck, CheckInv, CheckTypeOK
<1>4. CASE FallbackBreaks BY <1>4, WorkerEnds DEF FallbackBreaks
<1>5. CASE WorkerSaves BY <1>5, WorkerEnds DEF WorkerSaves
<1>6. CASE NextSecond BY <1>1, <1>6 DEF NextSecond, CheckInv, CheckTypeOK
<1>7. CASE UNCHANGED checkVars
  BY <1>1, <1>7 DEF checkVars, CheckInv, CheckTypeOK
<1>8. QED
  BY <1>2, <1>3, <1>4, <1>5, <1>6, <1>7, ConfirmStep, ResetStep, EnqueueStep,
     KeepStep, WorkerSendsStep, StopChecksStep, BrowserStep DEF CheckStep

(* As long as a check is shown as done its application is submitted or     *)
(* asked about again, or its key met a retry of the very same second that  *)
(* was over, for any applications, checks, seconds and captchas.           *)
THEOREM DoneConfirmed == CheckSpec => []DoneIsConfirmed
<1>1. CheckInv => DoneIsConfirmed
  BY DEF CheckInv, SessionsKnow, Confirmed, DoneIsConfirmed
<1>2. QED BY <1>1, CheckInitInv, CheckStepInv, PTL DEF CheckSpec

-----------------------------------------------------------------------------
(* Declared state.  A field that has its desired value is among those that *)
(* had it during this attempt; one that was read with it was among them    *)
(* when it was read.  Nothing else leads to a record or a publication.     *)

DeclaredMaps == [Declared -> Values]
ProposalSet  == [desired : DeclaredMaps, before : DeclaredMaps]
Reading      == {"plan", "read", "check", "confirm"}
LaneSet ==
    [pc : Reading \cup {"idle", "write", "record", "publish"},
     key : Updates \cup {"none", "apply"}, p : ProposalSet, n : Nat,
     seen : [Fields -> Values], todo : SUBSET Declared,
     met : SUBSET Declared, touched : SUBSET Fields]

LaneTypeOK == /\ via \in {"site", "api"} /\ remote \in [Fields -> Values]
              /\ lane \in LaneSet

MetNow ==
    lane.pc # "idle" =>
       \A f \in Declared : remote[f] = lane.p.desired[f] => f \in lane.met

MetWhenSeen ==
    lane.pc \in Reading =>
       \A i \in 1 .. Len(Reads) : i < lane.n =>
          \A f \in Declared \cap Reads[i] :
             lane.seen[f] = lane.p.desired[f] => f \in lane.met

LaneInv ==
    /\ LaneTypeOK /\ MetNow /\ MetWhenSeen
    /\ lane.pc = "plan" => lane.p.desired = Registered
    /\ lane.pc \in {"record", "publish"} => lane.met = Declared

(* Every declared field is on a page that is read.                         *)
LEMMA ReadsCover ==
    ASSUME via \in {"site", "api"}
    PROVE  /\ Len(Reads) \in Nat
           /\ \A f \in Declared : \E i \in 1 .. Len(Reads) : f \in Reads[i]
<1>1. CASE via = "api"
  <2>1. Reads = <<Fields>> BY <1>1 DEF Reads
  <2>2. Len(Reads) = 1 /\ Reads[1] = Fields BY <2>1
  <2>3. QED BY <2>2 DEF Fields
<1>2. CASE via = "site"
  <2>1. Reads = Reverse(Pages) BY <1>2 DEF Reads
  <2>2. Len(Pages) \in Nat /\ DOMAIN Pages = 1 .. Len(Pages)
    BY ProfileAssumption, LenProperties
  <2>3. Reads = [i \in 1 .. Len(Pages) |-> Pages[Len(Pages) - i + 1]]
    BY <2>1 DEF Reverse
  <2>4. Len(Reads) = Len(Pages) BY <2>2, <2>3
  <2>5. ASSUME NEW f \in Declared PROVE \E i \in 1 .. Len(Reads) : f \in Reads[i]
    <3>1. PICK j \in 1 .. Len(Pages) : f \in Pages[j]
      BY <2>2, ProfileAssumption
    <3>2. /\ Len(Pages) - j + 1 \in 1 .. Len(Pages)
          /\ Len(Pages) - (Len(Pages) - j + 1) + 1 = j
      BY <2>2
    <3>3. Reads[Len(Pages) - j + 1] = Pages[j] BY <2>3, <3>2
    <3>4. QED BY <2>4, <3>1, <3>2, <3>3
  <2>6. QED BY <2>2, <2>4, <2>5
<1>3. QED BY <1>1, <1>2

LEMMA NoTaskTyped == NoTask \in LaneSet /\ NoTask.pc = "idle"
<1>1. Registered \in DeclaredMaps BY ProfileAssumption DEF DeclaredMaps
<1>2. Proposal(Registered, Registered) \in ProposalSet
  BY <1>1 DEF Proposal, ProposalSet
<1>3. Unread \in [Fields -> Values] BY ProfileAssumption DEF Unread
<1>4. QED BY <1>2, <1>3 DEF NoTask, LaneSet

LEMMA LaneFree ==
    ASSUME LaneInv, lane' = NoTask, remote' = remote, via' = via PROVE LaneInv'
BY NoTaskTyped DEF LaneInv, LaneTypeOK, MetNow, MetWhenSeen, Reading

LEMMA LaneInitInv == ProfileInit => LaneInv
<1> SUFFICES ASSUME ProfileInit PROVE LaneInv
  OBVIOUS
<1>1. lane = NoTask /\ via \in {"site", "api"} /\ remote \in [Fields -> Values]
  BY DEF ProfileInit
<1>2. QED
  BY <1>1, NoTaskTyped DEF LaneInv, LaneTypeOK, MetNow, MetWhenSeen, Reading

(* The next part of a task begins; what was met stays met.                 *)
LEMMA GoTyped ==
    ASSUME LaneInv, NEW pc \in Reading \cup {"write", "record", "publish"}
    PROVE  /\ Go(pc) \in LaneSet /\ Go(pc).pc = pc /\ Go(pc).n = 1
           /\ Go(pc).p = lane.p /\ Go(pc).met = lane.met
<1>1. lane \in LaneSet BY DEF LaneInv, LaneTypeOK
<1>2. QED BY <1>1 DEF Go, LaneSet

LEMMA Begins ==
    ASSUME LaneInv, lane.pc # "idle", NEW l \in LaneSet, lane' = l,
           l.pc \in {"read", "check", "confirm", "write", "record", "publish"},
           l.n = 1, l.p.desired = lane.p.desired, l.met = lane.met,
           l.pc \in {"record", "publish"} => lane.met = Declared,
           UNCHANGED <<via, remote>>
    PROVE  LaneInv'
<1>1. Len(Reads) \in Nat /\ Reads' = Reads
  BY ReadsCover DEF LaneInv, LaneTypeOK, Reads
<1>2. LaneTypeOK' BY DEF LaneInv, LaneTypeOK
<1>3. MetNow' BY DEF LaneInv, MetNow
<1>4. MetWhenSeen' BY <1>1 DEF MetWhenSeen
<1>5. QED BY <1>2, <1>3, <1>4 DEF LaneInv

(* What was read to the end as desired was met in every field.             *)
LEMMA AllMet ==
    ASSUME LaneInv, lane.pc \in Reading, HasRead(lane),
           \A f \in Declared : lane.seen[f] = lane.p.desired[f]
    PROVE  lane.met = Declared
<1>1. /\ lane.n \in Nat /\ lane.met \subseteq Declared /\ via \in {"site", "api"}
  BY DEF LaneInv, LaneTypeOK, LaneSet
<1>2. ASSUME NEW f \in Declared PROVE f \in lane.met
  <2>1. Len(Reads) \in Nat /\ lane.n > Len(Reads)
    BY <1>1, ReadsCover DEF HasRead
  <2>2. PICK i \in 1 .. Len(Reads) : f \in Reads[i] BY <1>1, ReadsCover
  <2>3. i < lane.n BY <1>1, <2>1, <2>2
  <2>4. QED BY <1>2, <2>2, <2>3 DEF LaneInv, MetWhenSeen
<1>3. QED BY <1>1, <1>2

(* The owner, or a write, changes fields: those that came to be as desired *)
(* are met.                                                                *)
LEMMA RemoteChanges ==
    ASSUME LaneInv, lane.pc # "idle", remote' \in [Fields -> Values], via' = via,
           lane' \in LaneSet, lane'.pc = lane.pc, lane'.p = lane.p,
           lane'.seen = lane.seen, lane'.n = lane.n \/ lane.pc \notin Reading,
           lane.met \subseteq lane'.met,
           \A f \in Declared : remote'[f] # remote[f] /\ remote'[f] = lane.p.desired[f]
              => f \in lane'.met
    PROVE  LaneInv'
<1>1. Reads' = Reads BY DEF Reads
<1>2. MetNow' BY DEF LaneInv, MetNow
<1>3. MetWhenSeen' BY <1>1 DEF LaneInv, MetWhenSeen
<1>4. lane.met = Declared => lane'.met = Declared BY DEF LaneSet
<1>5. QED BY <1>2, <1>3, <1>4 DEF LaneInv, LaneTypeOK

LEMMA OwnerEditsStep ==
    ASSUME LaneInv, NEW f \in Fields, NEW v \in Values, OwnerEdits(f, v)
    PROVE  LaneInv'
<1>1. remote' = [remote EXCEPT ![f] = v] /\ via' = via BY DEF OwnerEdits
<1>2. remote' \in [Fields -> Values] BY <1>1 DEF LaneInv, LaneTypeOK
<1>3. CASE lane.pc = "idle"
  <2>1. lane' = lane BY <1>3 DEF OwnerEdits
  <2>2. QED BY <1>1, <1>2, <1>3, <2>1
    DEF LaneInv, LaneTypeOK, MetNow, MetWhenSeen, Reading
<1>4. CASE lane.pc # "idle"
  <2> DEFINE met == IF f \in Declared /\ lane.p.desired[f] = v THEN lane.met \cup {f}
                    ELSE lane.met
  <2>1. lane \in LaneSet BY DEF LaneInv, LaneTypeOK
  <2>2. lane' = [lane EXCEPT !.touched = lane.touched \cup {f}, !.met = met]
    BY <1>4, <2>1 DEF OwnerEdits, LaneSet
  <2>3. lane.touched \cup {f} \in SUBSET Fields /\ met \in SUBSET Declared
    BY <2>1 DEF LaneSet
  <2>4. /\ lane.met \subseteq met
        /\ f \in Declared /\ lane.p.desired[f] = v => f \in met
    OBVIOUS
  <2> HIDE DEF met
  <2>5. /\ lane' \in LaneSet /\ lane'.pc = lane.pc /\ lane'.p = lane.p
        /\ lane'.seen = lane.seen /\ lane'.n = lane.n /\ lane'.met = met
    BY <2>1, <2>2, <2>3 DEF LaneSet
  <2>6. \A g \in Declared : remote'[g] # remote[g] /\ remote'[g] = lane.p.desired[g]
              => g \in met
    BY <1>1, <2>4 DEF LaneInv, LaneTypeOK
  <2>7. QED BY <1>1, <1>2, <1>4, <2>4, <2>5, <2>6, RemoteChanges
<1>5. QED BY <1>3, <1>4

(* A part is read: each of its fields that is as desired has been met.     *)
LEMMA ReadInLaneStep == ASSUME LaneInv, ReadInLane PROVE LaneInv'
<1>1. /\ lane.pc \in Reading /\ ~HasRead(lane) /\ lane' = ReadPart(lane)
      /\ UNCHANGED <<via, remote>>
  BY DEF ReadInLane, Stay, Reading
<1>2. lane \in LaneSet /\ remote \in [Fields -> Values] /\ Reads' = Reads
  BY <1>1 DEF LaneInv, LaneTypeOK, Reads
<1> DEFINE seen == [f \in Fields |-> IF f \in Reads[lane.n] THEN remote[f] ELSE lane.seen[f]]
<1>3. lane' = [lane EXCEPT !.n = lane.n + 1, !.seen = seen]
  BY <1>1, <1>2 DEF ReadPart, LaneSet
<1>4. seen \in [Fields -> Values] /\ lane.n + 1 \in Nat BY <1>2 DEF LaneSet
<1>5. \A f \in Declared : seen[f] = IF f \in Reads[lane.n] THEN remote[f] ELSE lane.seen[f]
  BY DEF Fields
<1> HIDE DEF seen
<1>6. /\ lane' \in LaneSet /\ lane'.pc = lane.pc /\ lane'.p = lane.p
      /\ lane'.seen = seen /\ lane'.n = lane.n + 1 /\ lane'.met = lane.met
  BY <1>2, <1>3, <1>4 DEF LaneSet
<1>7. MetNow' BY <1>1, <1>6 DEF LaneInv, MetNow
<1>8. MetWhenSeen'
  <2> SUFFICES ASSUME NEW i \in 1 .. Len(Reads), i < lane.n + 1,
                      NEW f \in Declared \cap Reads[i], seen[f] = lane.p.desired[f]
               PROVE  f \in lane.met
    BY <1>2, <1>6 DEF MetWhenSeen
  <2>1. lane.pc # "idle" BY <1>1 DEF Reading
  <2>2. CASE f \in Reads[lane.n]
    BY <1>5, <2>1, <2>2 DEF LaneInv, MetNow
  <2>3. CASE f \notin Reads[lane.n]
    <3>1. lane.seen[f] = lane.p.desired[f] BY <1>5, <2>3
    <3>2. i < lane.n BY <1>2, <2>3 DEF LaneSet
    <3>3. QED BY <1>1, <3>1, <3>2 DEF LaneInv, MetWhenSeen
  <2>4. QED BY <2>2, <2>3
<1>9. QED BY <1>1, <1>2, <1>6, <1>7, <1>8 DEF LaneInv, LaneTypeOK, Reading

(* A task is taken with the fields that are as it wants them already.      *)
LEMMA TakenInv ==
    ASSUME LaneInv, NEW key \in Updates \cup {"apply"}, NEW p \in ProposalSet,
           NEW pc \in {"read", "plan"}, pc = "plan" => p.desired = Registered,
           lane' = Taken(key, p, pc), UNCHANGED <<via, remote>>
    PROVE  LaneInv'
<1> DEFINE met == {f \in Declared : remote[f] = p.desired[f]}
<1>1. lane' = [NoTask EXCEPT !.pc = pc, !.key = key, !.p = p, !.met = met]
  BY DEF Taken
<1>2. met \in SUBSET Declared OBVIOUS
<1>3. \A f \in Declared : remote[f] = p.desired[f] => f \in met OBVIOUS
<1> HIDE DEF met
<1>4. NoTask.n = 1 BY DEF NoTask
<1>5. /\ lane' \in LaneSet /\ lane'.pc = pc /\ lane'.p = p /\ lane'.n = 1
      /\ lane'.met = met
  BY <1>1, <1>2, <1>4, NoTaskTyped DEF LaneSet, Reading
<1>6. Len(Reads) \in Nat /\ Reads' = Reads
  BY ReadsCover DEF LaneInv, LaneTypeOK, Reads
<1>7. MetNow' BY <1>3, <1>5 DEF MetNow
<1>8. MetWhenSeen' BY <1>5, <1>6 DEF MetWhenSeen
<1>9. QED BY <1>5, <1>7, <1>8 DEF LaneInv, LaneTypeOK

LEMMA ClaimStep ==
    ASSUME LaneInv,
           (\E p \in Proposals : ClaimApply(p)) \/ (\E u \in Updates : ClaimUpdate(u))
    PROVE  LaneInv'
<1>1. Registered \in DeclaredMaps /\ Overrides \subseteq DeclaredMaps
  BY ProfileAssumption DEF DeclaredMaps
<1>2. ASSUME NEW p \in Proposals, ClaimApply(p) PROVE LaneInv'
  <2>1. p \in ProposalSet BY <1>1 DEF Proposals, ProposalSet, DeclaredMaps
  <2>2. QED BY <1>2, <2>1, TakenInv DEF ClaimApply
<1>3. ASSUME NEW u \in Updates, ClaimUpdate(u) PROVE LaneInv'
  <2> DEFINE p == Proposal(Registered, Registered)
  <2>1. p \in ProposalSet /\ p.desired = Registered
    BY <1>1 DEF Proposal, ProposalSet
  <2>2. lane' = Taken(u, p, "plan") /\ UNCHANGED <<via, remote>>
    BY <1>3 DEF ClaimUpdate
  <2> HIDE DEF p
  <2>3. QED BY <2>1, <2>2, TakenInv
<1>4. QED BY <1>2, <1>3

(* A task goes on with the part after a decision.                          *)
LEMMA GoesOn ==
    ASSUME LaneInv, lane.pc # "idle",
           NEW pc \in {"check", "confirm", "record", "publish"},
           pc \in {"record", "publish"} => lane.met = Declared,
           lane' = Go(pc), UNCHANGED <<via, remote>>
    PROVE  LaneInv'
<1>1. /\ Go(pc) \in LaneSet /\ Go(pc).pc = pc /\ Go(pc).n = 1
      /\ Go(pc).p = lane.p /\ Go(pc).met = lane.met
  BY GoTyped DEF Reading
<1>2. QED BY <1>1, Begins

LEMMA PlanUpdateStep == ASSUME LaneInv, PlanUpdate PROVE LaneInv'
<1> DEFINE p == Proposal(Registered, Seen(lane))
<1>1. /\ lane.pc = "plan" /\ HasRead(lane) /\ UNCHANGED <<via, remote>>
      /\ lane.p.desired = Registered /\ lane \in LaneSet
  BY DEF PlanUpdate, LaneInv, LaneTypeOK
<1>2. Seen(lane) \in DeclaredMaps
  BY <1>1 DEF Seen, LaneSet, DeclaredMaps, Fields
<1>3. p \in ProposalSet /\ p.desired = Registered /\ p.before = Seen(lane)
  BY <1>2, ProfileAssumption DEF Proposal, ProposalSet, DeclaredMaps
<1>4. CASE Changes(p) = {}
  <2>1. \A f \in Declared : lane.seen[f] = lane.p.desired[f]
    BY <1>1, <1>3, <1>4 DEF Changes, Seen
  <2>2. lane.met = Declared BY <1>1, <2>1, AllMet DEF Reading
  <2>3. lane' = Go("publish") BY <1>4 DEF PlanUpdate, Stay
  <2>4. QED BY <1>1, <2>2, <2>3, GoesOn
<1>5. CASE Changes(p) # {}
  <2>1. lane' = [Go("read") EXCEPT !.p = p] BY <1>5 DEF PlanUpdate, Stay
  <2> HIDE DEF p
  <2>2. /\ Go("read") \in LaneSet /\ Go("read").pc = "read" /\ Go("read").n = 1
        /\ Go("read").met = lane.met
    BY GoTyped DEF Reading
  <2>3. /\ lane' \in LaneSet /\ lane'.pc = "read" /\ lane'.n = 1
        /\ lane'.p = p /\ lane'.met = lane.met
    BY <1>3, <2>1, <2>2 DEF LaneSet
  <2>4. QED BY <1>1, <1>3, <2>3, Begins
<1>6. QED BY <1>4, <1>5

LEMMA CompareStep == ASSUME LaneInv, Compare PROVE LaneInv'
<1>1. lane.pc = "read" /\ HasRead(lane) /\ UNCHANGED <<via, remote>>
  BY DEF Compare
<1>2. CASE lane' = NoTask BY <1>1, <1>2, LaneFree
<1>3. CASE ToApply(lane.p, Seen(lane)) = {} /\ lane' = Go("record")
  <2>1. \A f \in Declared : lane.seen[f] = lane.p.desired[f]
    BY <1>3 DEF ToApply, Seen
  <2>2. lane.met = Declared BY <1>1, <2>1, AllMet DEF Reading
  <2>3. QED BY <1>1, <1>3, <2>2, GoesOn
<1>4. CASE lane' = [Go("write") EXCEPT !.todo = ToApply(lane.p, Seen(lane))]
  <2> DEFINE todo == ToApply(lane.p, Seen(lane))
  <2>1. todo \in SUBSET Declared BY DEF ToApply
  <2>2. lane' = [Go("write") EXCEPT !.todo = todo] BY <1>4
  <2> HIDE DEF todo
  <2>3. /\ Go("write") \in LaneSet /\ Go("write").pc = "write" /\ Go("write").n = 1
        /\ Go("write").p = lane.p /\ Go("write").met = lane.met
    BY GoTyped
  <2>4. /\ lane' \in LaneSet /\ lane'.pc = "write" /\ lane'.n = 1
        /\ lane'.p = lane.p /\ lane'.met = lane.met
    BY <2>1, <2>2, <2>3 DEF LaneSet
  <2>5. QED BY <1>1, <2>4, Begins
<1>5. QED BY <1>2, <1>3, <1>4 DEF Compare, End, Stay

(* What a request writes: values, those of the plan in declared fields.    *)
LEMMA WrittenTyped == ASSUME LaneInv PROVE Written \in [Fields -> Values]
<1>1. /\ remote \in [Fields -> Values] /\ lane.p.desired \in [Declared -> Values]
      /\ lane.seen \in [Fields -> Values]
  BY DEF LaneInv, LaneTypeOK, LaneSet, ProposalSet, DeclaredMaps
<1>2. QED BY <1>1 DEF Written

LEMMA WriteStep == ASSUME LaneInv, Write PROVE LaneInv'
<1> DEFINE met == lane.met \cup {f \in Declared : Written[f] = lane.p.desired[f]}
<1>1. /\ lane.pc = "write" /\ remote' = Written /\ via' = via
      /\ lane \in LaneSet
      /\ lane' = [lane EXCEPT !.n = lane.n + 1, !.met = met]
  BY DEF Write, LaneInv, LaneTypeOK, LaneSet
<1>2. met \in SUBSET Declared /\ lane.n + 1 \in Nat BY <1>1 DEF LaneSet
<1>3. \A f \in Declared : Written[f] = lane.p.desired[f] => f \in met OBVIOUS
<1>4. lane.met \subseteq met OBVIOUS
<1> HIDE DEF met
<1>5. /\ lane' \in LaneSet /\ lane'.pc = lane.pc /\ lane'.p = lane.p
      /\ lane'.seen = lane.seen /\ lane'.met = met
  BY <1>1, <1>2 DEF LaneSet
<1>6. QED
  BY <1>1, <1>3, <1>4, <1>5, WrittenTyped, RemoteChanges DEF Reading

(* Whether it arrived or not, what it would have written is met where it   *)
(* is in place.                                                            *)
LEMMA WriteLostStep == ASSUME LaneInv, WriteLost PROVE LaneInv'
<1> DEFINE met == lane.met \cup {f \in Declared : remote'[f] = lane.p.desired[f]}
<1>1. /\ lane.pc = "write" /\ remote' \in {remote, Written} /\ via' = via
      /\ lane' = [Go("check") EXCEPT !.met = Go("check").met
                     \cup {f \in Declared : remote'[f] = lane.p.desired[f]}]
  <2>1. Go("check") \in LaneSet BY GoTyped DEF Reading
  <2>2. QED BY <2>1 DEF WriteLost, LaneSet
<1>2. /\ Go("check") \in LaneSet /\ Go("check").pc = "check" /\ Go("check").n = 1
      /\ Go("check").p = lane.p /\ Go("check").met = lane.met
  BY GoTyped DEF Reading
<1>3. met \in SUBSET Declared
  BY DEF LaneInv, LaneTypeOK, LaneSet
<1>4. \A f \in Declared : remote'[f] = lane.p.desired[f] => f \in met OBVIOUS
<1>5. lane' = [Go("check") EXCEPT !.met = met] BY <1>1, <1>2
<1> HIDE DEF met
<1>6. /\ lane' \in LaneSet /\ lane'.pc = "check" /\ lane'.n = 1
      /\ lane'.p = lane.p /\ lane'.met = met
  BY <1>2, <1>3, <1>5 DEF LaneSet
<1>7. remote' \in [Fields -> Values]
  BY <1>1, WrittenTyped DEF LaneInv, LaneTypeOK
<1>8. Len(Reads) \in Nat /\ Reads' = Reads
  BY <1>1, ReadsCover DEF LaneInv, LaneTypeOK, Reads
<1>9. MetNow' BY <1>4, <1>6 DEF MetNow
<1>10. MetWhenSeen' BY <1>6, <1>8 DEF MetWhenSeen
<1>11. QED BY <1>1, <1>6, <1>7, <1>9, <1>10 DEF LaneInv, LaneTypeOK

LEMMA ReadBackStep == ASSUME LaneInv, ReadBack PROVE LaneInv'
<1>1. /\ lane.pc \in {"check", "confirm"} /\ HasRead(lane)
      /\ UNCHANGED <<via, remote>>
  BY DEF ReadBack
<1>2. CASE lane' = NoTask BY <1>1, <1>2, LaneFree
<1>3. CASE ToApply(lane.p, Seen(lane)) = {} /\ lane' = Go("record")
  <2>1. \A f \in Declared : lane.seen[f] = lane.p.desired[f]
    BY <1>3 DEF ToApply, Seen
  <2>2. lane.met = Declared BY <1>1, <2>1, AllMet DEF Reading
  <2>3. QED BY <1>1, <1>3, <2>2, GoesOn
<1>4. QED BY <1>2, <1>3 DEF ReadBack, End, Stay

LEMMA LaneStep == LaneInv /\ [ProfileStep]_profileVars => LaneInv'
<1> SUFFICES ASSUME LaneInv, [ProfileStep]_profileVars PROVE LaneInv'
  OBVIOUS
<1>1. ASSUME UNCHANGED <<via, remote, lane>> PROVE LaneInv'
  <2>1. Reads' = Reads BY <1>1 DEF Reads
  <2>2. QED BY <1>1, <2>1 DEF LaneInv, LaneTypeOK, MetNow, MetWhenSeen
<1>2. CASE StartReconcile \/ StartFirstFill
           \/ \E desired \in {Registered} \cup Overrides : OperatorPlans(desired)
  BY <1>1, <1>2 DEF StartReconcile, StartFirstFill, OperatorPlans, StartPlan
<1>3. CASE ReadForPlan \/ MakePlan BY <1>1, <1>3 DEF ReadForPlan, MakePlan
<1>4. CASE (\E p \in Proposals : ApplyPlan(p) \/ ControlFailed(p))
           \/ (\E u \in Updates : EnqueueUpdate(u))
  BY <1>1, <1>4 DEF ApplyPlan, ControlFailed, EnqueueUpdate
<1>5. CASE WroteAll
  <2>1. lane.pc = "write" /\ lane' = Go("confirm") /\ UNCHANGED <<via, remote>>
    BY <1>5 DEF WroteAll, Stay
  <2>2. QED BY <2>1, GoesOn
<1>6. CASE Record
  <2>1. /\ lane.pc = "record" /\ UNCHANGED <<via, remote>>
        /\ lane' = Go("publish") \/ lane' = NoTask
    BY <1>6 DEF Record, Stay, End
  <2>2. lane.met = Declared BY <2>1 DEF LaneInv
  <2>3. QED BY <2>1, <2>2, GoesOn, LaneFree
<1>7. CASE Publish \/ BreakTask BY <1>7, LaneFree DEF Publish, BreakTask, End
<1>8. CASE UNCHANGED profileVars BY <1>1, <1>8 DEF profileVars
<1>9. QED
  BY <1>2, <1>3, <1>4, <1>5, <1>6, <1>7, <1>8, OwnerEditsStep, ClaimStep,
     ReadInLaneStep, PlanUpdateStep, CompareStep, WriteStep, WriteLostStep,
     ReadBackStep DEF ProfileStep

(* What is recorded as applied was in place, field by field, during the    *)
(* attempt that records it: for any fields, values, pages, edits and       *)
(* faults, over the site and over the API.                                 *)
THEOREM RecordedApplied == ProfileSpec => RecordedWasApplied
<1> DEFINE A == (lane.pc = "record" /\ revision' # revision)
                \/ (lane.pc = "publish" /\ lane'.pc = "idle" /\ faults' = faults)
                => lane.met = Declared
<1>1. LaneInv /\ [ProfileStep]_profileVars => [A]_profileVars BY DEF LaneInv
<1>2. QED
  BY <1>1, LaneInitInv, LaneStep, PTL DEF ProfileSpec, RecordedWasApplied
=============================================================================
