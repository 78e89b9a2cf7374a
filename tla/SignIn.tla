------------------------------- MODULE SignIn -------------------------------
(***************************************************************************)
(* Interactive sign-in of one profile (auth/service.go, core/auth_session, *)
(* adapters/hh/login_driver.go): sessions that share the one page of the   *)
(* profile's browser, one call at a time, pictures kept in memory, the     *)
(* state file and the hook that runs once it is written.  The person       *)
(* answers, cancels and starts again at any moment.  A scheduled task      *)
(* (worker/session_refresh.go) exports the browser's state into the file.  *)
(***************************************************************************)
EXTENDS Naturals, FiniteSets

CONSTANTS
    Logins,          \* sessions
    Accounts,        \* what the person may type
    SessionTTL, ChallengeTTL,
    LastMoment, MaxPictures, MaxBreaks     \* bounds

ASSUME SignInAssumption == ChallengeTTL \in Nat /\ SessionTTL \in Nat

VARIABLES
    moment,
    page,       \* the page of the browser, and the picture of its captcha
    login,      \* the stored sessions
    call,       \* the call that holds the lock
    images,     \* the pictures kept for the sessions
    file,       \* the state file: its account and which writing it is
    hook,       \* the completion hook of each session
    export,     \* the account whose state a refresh has exported, or "none"
    signInFaults

signInVars == <<moment, page, login, call, images, file, hook, export, signInFaults>>

NoLogin == [status |-> "none", picture |-> 0, until |-> 0]
NoCall  == [pc |-> "idle", s |-> "none", at |-> 0, wrote |-> 0]
Waiting == {"identifier", "otp", "captcha"}
Settled == {"completed", "expired", "cancelled", "failed"}

SignInInit ==
  /\ moment = 0 /\ page = [kind |-> "form", account |-> "none", picture |-> 0, last |-> 0]
  /\ login = [s \in Logins |-> NoLogin] /\ call = NoCall /\ images = {}
  /\ file = [account |-> "none", n |-> 0, there |-> FALSE]
  /\ hook = [s \in Logins |-> "none"] /\ export = "none" /\ signInFaults = 0

SignInFault == signInFaults < MaxBreaks /\ signInFaults' = signInFaults + 1
Unlocked    == call.pc = "idle"

Tick ==
  /\ moment < LastMoment /\ moment' = moment + 1
  /\ UNCHANGED <<page, login, call, images, file, hook, signInFaults, export>>

-----------------------------------------------------------------------------
(* The page.  A form was sent, a code or a captcha answered: the platform  *)
(* goes on as it likes.                                                    *)

At(kind, account) ==
  IF kind = "captcha" THEN [kind |-> kind, account |-> account, picture |-> page.last + 1, last |-> page.last + 1]
  ELSE [kind |-> kind, account |-> account, picture |-> 0, last |-> page.last]

\* Opening the login page leaves a browser that is signed in as it is.
Opened == IF page.kind = "in" THEN page ELSE At("form", "none")

Moves(status) ==
  CASE status = "identifier" /\ page.kind = "form" ->
         {At(k, a) : k \in {"form", "otp", "captcha", "in"}, a \in Accounts}
    [] status = "identifier" /\ page.kind \in {"in", "captcha"} -> {page}
    [] status = "otp" /\ page.kind = "otp" -> {page, At("captcha", page.account), At("in", page.account)}
    [] status = "captcha" /\ page.kind = "captcha" ->
         {At(k, page.account) : k \in {"captcha", "form", "otp", "in"}}
    [] OTHER -> {}      \* what the session asks for is not on the page

-----------------------------------------------------------------------------
(* Calls.  A start opens the login page, then stores the session.          *)

Start(s) ==
  /\ Unlocked /\ login[s].status = "none" /\ page' = Opened
  /\ \/ /\ login' = [login EXCEPT ![s] = [status |-> "identifier", picture |-> 0, until |-> moment + SessionTTL]]
        /\ UNCHANGED signInFaults
     \/ login' = login /\ SignInFault
  /\ UNCHANGED <<moment, call, images, file, hook, export>>

\* An answer takes the lock, or finds the session expired.
Submit(s) ==
  /\ Unlocked /\ login[s].status \in Waiting
  /\ IF moment >= login[s].until
     THEN login' = [login EXCEPT ![s].status = "expired", ![s].picture = 0] /\ call' = call
     ELSE call' = [NoCall EXCEPT !.pc = "driver", !.s = s, !.at = moment] /\ login' = login
  /\ UNCHANGED <<moment, page, images, file, hook, signInFaults, export>>

Settle(s, status) == [login EXCEPT ![s].status = status, ![s].picture = 0]

\* RequireChallenge: its deadline must not outlive the session; the picture is
\* in the store by then.
Late(s) == call.at + ChallengeTTL > login[s].until

RequireChallenge(s) ==
  /\ login' = IF Late(s) THEN login
              ELSE [login EXCEPT ![s].status = page'.kind, ![s].picture = page'.picture]
  /\ images' = (IF Late(s) THEN images ELSE images \ {<<s, login[s].picture>>})
                 \cup (IF page'.kind = "captcha" THEN {<<s, page'.picture>>} ELSE {})

\* The driver fills in what the session waits for and reads the next step.
Continue ==
  /\ call.pc = "driver"
  /\ LET s == call.s IN
     /\ page' \in Moves(login[s].status) /\ page'.last <= MaxPictures
     /\ CASE page'.kind = "in" ->
               call' = [call EXCEPT !.pc = "store"] /\ UNCHANGED <<login, images>>
          [] page'.kind \in {"otp", "captcha"} -> call' = NoCall /\ RequireChallenge(s)
          [] OTHER ->      \* the step did not complete in time
               call' = NoCall /\ login' = Settle(s, "failed") /\ images' = images
  /\ UNCHANGED <<moment, file, hook, signInFaults, export>>

\* The page shows something else, a request to the browser fails, or the page is
\* signed in without the cookies of the platform: the session is settled as
\* failed, whatever the page has become.  It stays as it was when the person
\* hangs up, or when the failure is not saved.
ContinueFails ==
  /\ call.pc = "driver" /\ call' = NoCall
  /\ LET moves == Moves(login[call.s].status) IN
       /\ page' \in moves \cup {page} /\ page'.last <= MaxPictures
       /\ \/ login' = Settle(call.s, "failed")
             /\ IF moves = {} THEN UNCHANGED signInFaults ELSE SignInFault
          \/ login' = login /\ SignInFault
  /\ UNCHANGED <<moment, images, file, hook, export>>

\* The exported state is written under the reference of the session, or cannot.
StoreState ==
  /\ call.pc = "store" /\ images' = images \ {<<call.s, login[call.s].picture>>}
  /\ \/ /\ file' = [account |-> page.account, n |-> file.n + 1, there |-> TRUE]
        /\ call' = [call EXCEPT !.pc = "save", !.wrote = file.n + 1] /\ UNCHANGED <<login, signInFaults>>
     \/ SignInFault /\ file' = file /\ call' = NoCall /\ login' = Settle(call.s, "failed")
  /\ UNCHANGED <<moment, page, hook, export>>

\* The hook starts before the session is saved; the save may fail.
Complete ==
  /\ call.pc = "save" /\ call' = NoCall /\ hook' = [hook EXCEPT ![call.s] = "new"]
  /\ \/ login' = Settle(call.s, "completed") /\ UNCHANGED signInFaults
     \/ login' = login /\ SignInFault
  /\ UNCHANGED <<moment, page, images, file, export>>

\* Mutation: a session is cancelled at once, whatever call runs.
CancelAtOnce(s) ==
  /\ login[s].status \in Waiting /\ login' = Settle(s, "cancelled")
  /\ images' = images \ {<<s, login[s].picture>>}
  /\ UNCHANGED <<moment, page, call, file, hook, signInFaults, export>>

Cancel(s) ==
  /\ Unlocked /\ login[s].status \in Waiting /\ login' = Settle(s, "cancelled")
  /\ images' = images \ {<<s, login[s].picture>>}
  /\ UNCHANGED <<moment, page, call, file, hook, signInFaults, export>>

\* Logout removes the file, whatever runs.
Logout ==
  /\ file.there /\ file' = [file EXCEPT !.there = FALSE]
  /\ UNCHANGED <<moment, page, login, call, images, hook, signInFaults, export>>

\* The process stops: pictures, calls and hooks are gone, the browser is not.
StopSignIn ==
  /\ SignInFault /\ call' = NoCall /\ images' = {}
  /\ hook' = [s \in Logins |-> IF hook[s] = "new" THEN "gone" ELSE hook[s]]
  /\ export' = "none"
  /\ UNCHANGED <<moment, page, login, file>>

\* The refresh exports what the browser holds now; without the cookies of the
\* platform the task fails.
RefreshStorageState ==
  /\ export = "none" /\ page.kind = "in" /\ export' = page.account
  /\ UNCHANGED <<moment, page, login, call, images, file, hook, signInFaults>>

\* The file is replaced whatever has become of it meanwhile: a sign-in may have
\* written another account, a logout may have removed it.
WritePrivateStateFile ==
  /\ export # "none" /\ export' = "none"
  /\ file' = [file EXCEPT !.account = export, !.there = TRUE]
  /\ UNCHANGED <<moment, page, login, call, images, hook, signInFaults>>

SignInRuns ==
  \/ \E s \in Logins : Start(s) \/ Submit(s) \/ Cancel(s)
  \/ Tick \/ Continue \/ ContinueFails \/ StoreState \/ Complete \/ Logout
  \/ RefreshStorageState \/ WritePrivateStateFile

SignInStep == SignInRuns \/ StopSignIn

SignInSpec == SignInInit /\ [][SignInStep]_signInVars

-----------------------------------------------------------------------------
\* A session that is settled writes no state any more: what it exported is of a
\* sign-in that was neither cancelled nor expired.
OnlyOpenLoginStores == call.pc \in {"driver", "store"} => login[call.s].status \in Waiting
=============================================================================
