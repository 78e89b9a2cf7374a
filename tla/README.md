# TLA+ models of job-agent

job-agent is a service that searches vacancies, prepares applications, submits
them and follows up on them, for several profiles on a job platform. It runs as
one process on one SQLite database. What it does unattended is hard to test:
every piece of work is a durable task that may be delivered again, every
handler calls a platform whose answer may be lost, the process may stop between
any two writes, and an operator changes the same rows from a dashboard and from
commands. These modules model that part, TLC checks it on small instances, and
TLAPS proves part of it for instances of any size. Text generation, page
parsing, HTTP and rendering are left out.

## The system

| Component | State it keeps | Operations | Talks to |
|---|---|---|---|
| Task queue (`storage/sqlite/store.go`, `task_consumer.go`, `task_control.go`) | `tasks`: status, attempts, availability, deadline, lease token and end | enqueue, claim, extend, complete, retry, fail; restart, requeue, cancel, dismiss | every producer and worker |
| Worker loop (`worker/worker.go`) | the lease in memory, the outcome of the handler | poll, heartbeat, record, guard | queue, handlers, auth guard |
| Job scheduler (`scheduler/`, `storage/sqlite/scheduler.go`, `job_pause.go`) | `schedules`, `job_pauses` | sync with the configuration, dispatch what is due, pause, resume, trigger | queue, configuration reload, auth guard |
| Auth recovery (`workflow/auth_recovery.go`) | pauses, failed tasks | guard an unauthorized failure, resume and retry after a sign-in | queue, scheduler, sign-in service |
| Process lease (`storage/sqlite/runtime_instance.go`, `cmd/job-agent/main.go`) | `runtime_instances` | acquire, renew, release | start-up and shutdown |
| Application submission (`worker/application.go`, `core/application.go`) | `applications` | the handler of `application.submit` | budget, pacing, tailoring, platform |
| Daily budget (`storage/sqlite/application_budget.go`) | buckets and reservations | reserve, commit, release | submission |
| Submission pacing (`storage/sqlite/application_pacing.go`) | slots | acquire | submission |
| Resume tailoring (`worker/application_tailoring.go`) | `application_tailorings`, the resume on the platform | plan, apply, verify, restore | submission, platform |
| Retry, approval, validation refresh (`workflow/application_retry.go`, `internal/tools/approve`, `worker/validation_refresh.go`) | – | reset, approve, skip | applications, queue |
| Submission to HeadHunter (`adapters/hh/application.go`, `browser_application.go`, `mobile_application.go`) | the responses the platform holds | preflight, send, verify, reconcile over three transports | submission |
| Campaigns (`workflow/application_campaign.go`) | cursor and links under a revision | start, tick, page, wait, supersede, stop | queue, applications |
| Search runs (`workflow/search_page.go`) | cursor under a generation | page, restart on a new definition | queue, applications |
| Configuration, reload, job runs (`config/`, `cmd/job-agent/main.go`, `workflow/job_fragment.go`, `job_run.go`) | files, digest, bindings, routes, schedule rows | load, apply step by step, save and delete jobs, run by hand | scheduler, campaigns |
| Removal and retention (`worker/application_retention.go`, `application_removal.go`, `application_state_sync.go`) | platform states, removals | observe, save, enqueue, withdraw, delete | applications, platform |
| Conversations and follow-ups (`workflow/conversation.go`, `worker/conversation*.go`, `core/conversation.go`) | chats, messages, follow-ups | discover, sync, mark, send, answer, reply, remind | platform, queue |
| Reviews, tests and answers (`worker/review_answer.go`, `vacancy_test_capture.go`, `questionnaire_answer.go`, `workflow/vacancy_chain.go`) | sessions, answer revisions, attempts | capture, answer, cancel, complete from the bank, submit the form | applications, queue, platform |
| Profile state (`workflow/profile_state*.go`, `worker/profile_state.go`, `resume_update.go`) | proposals, revisions | plan, apply, read back, record, publish | platform |
| Sign-in, drafts (`auth/`, `workflow/profile_draft.go`, `worker/session_refresh.go`) | sessions, challenges, the state file, drafts, fragments | start, answer, cancel, export, capture, apply | browser, auth recovery |
| Browser check (`browsercheck/`) | sessions in memory | open, answer, confirm, cancel | browser, retry |
| Profile activity (`worker/activity_maintain.go`) | records of opened cards | search, open, record | platform |
| Adapters, operator models, HTTP API, dashboard, commands, memory stores, migrations, credentials, qualification | – | translation, validation, wiring | all of the above |

What is hard, by component, is the list of hazards in PROJECT.json. In short: a
claim may outlive its lease while its holder goes on (queue, worker); a
configuration reload, a pause or a second pass changes what a scheduler pass has
read (scheduler); a guard may act after the recovery it belongs to (auth); a
process may stall longer than its lease (process lease); a submission has six
durable records (row, budget, pacing slot, saga, resume, task) that are written
one by one around one request that must not be repeated; a cursor, a task and a
row are three writes of a campaign or search; people write into a chat and edit
a profile on the platform while tasks decide from what they read before; and a
sign-in, a check or a review is cancelled while its step is under way.

## Modules

### Queue and workers

`TaskQueue` holds the queue as operators over rows, one per store operation.
`TaskRuntime` puts workers, producers and operators around it: each store call
is one step with its own reading of the clock, so a worker may stall anywhere
between the reading, the call and the handler. `TaskLifecycle` is the abstract
specification: what may happen to the status and the attempts of a task,
whoever acts (`core/task.go`). A heartbeat reads the clock in one step and extends
the lease in another. `TaskRuntime` implements it under the mapping
`status`, `attempts` to the columns of the row (`FollowsLifecycle`).

### Services

`JobScheduler` has a pass as the code has it: the due rows are read, then the
pauses, then each row is checked, enqueued and advanced in separate writes,
while reloads, pauses and triggers change the rows. The clock has two readings
per period so that a write of a pass never coincides with the row it replaces.
A task of a schedule settles for good, or fails and may be restarted by the
operator, by the recovery after a sign-in or by a new request
(`storage/sqlite/task_control.go`); nobody looks then whether its job has another
task, so the history `beside` holds the tasks that were restarted while another
of their job was active or about to be enqueued.

`AuthRecovery` follows one profile: a task is refused by the platform, the guard
pauses its job, the failure is recorded; a sign-in starts the recovery that
lists and resumes pauses, then lists and retries failed tasks. Each retry may end
with an error, which the code logs (`workflow/auth_recovery.go:117`); the history
`missed` holds the tasks that were still failed then.

`ProcessLease` follows process starts from the first schedule sync to shutdown
or crash, with stalls of any length between reading the clock and writing.

`ProfileActivity` is the job that opens cards to keep a profile active: the
score it stops at, the cards it has seen, the pages it searches, and a run that
stops anywhere.

### Submission

`ApplicationBudget`, `ApplicationPacing` and `ResumeTailoring` are the stores
and the saga as actions over their own variables; `Applications` declares what
they share. `ApplicationSubmit` composes them under the submission handler: `h`
is the running handler, `h.pc` the call it is about to make, `h.cur` the copy
of the row it works on, `h.todo` the calls a return path has still to make, in
the one order every path makes them (`Before`). A crash drops `h` and nothing
else. `op` holds what the operator's retry, the approval and the validation
refresh have read and not yet written. The history `unsettled` records what the
code does not and is read by a property only.

`HHSubmission` is what the platform side of a submission does: the public API,
the web form with a POST or with the browser worker, and the mobile API, each
with the checks before the request, the request, and what the handler is told.
`told` is what the handler believes of a vacancy, `responses` what the platform
holds. An answer has a status and a body, and the body is looked at in the order
of the code: an error it names comes before a status of 3xx or 5xx
(`browser_application.go:843`, `application.go:193`), and the mobile API takes a
status below 300 with an empty or unreadable body for success
(`hhapi/negotiations.go:90`). The history `unproved` holds the vacancies of which
an answer of these two kinds was given. `ApplicationSubmit` takes any of those answers as possible, except that
a reconciliation that answers tells the truth; `HHSubmission` is where that is
earned (`AppliedIsHeld`).

### Finders

`VacancyIntake` is what a campaign and a search share: creating an application,
enqueueing its submission, the worker and other finders. `ApplicationCampaign`
is the campaign handler in steps that end at each write; `SearchRuns` a search
that no campaign owns. Both have the cursor, the task and the row as separate
writes and may be interrupted after any of them: creating an application,
linking it to the campaign and enqueueing it are three (`PlanVacancy`,
`LinkPlanned`). A campaign submits, or only discovers.

### Configuration

`JobDefinitions` is what a loaded configuration comes to: merging, references,
fallback chains, the schedule definitions of every job kind, campaign routes.
`ConfigReload` is the service around it: start, the reload watcher step by step
with failures, job fragments saved and deleted, and runs by hand. The readers and
the resources of profile states are those `captured` at the start of the process
(`main.go:1074`); jobs on them that a reload brings are built from these.
`ReplaceDefinitions` cannot fail here: it repeats the validation that the sync has
just made, and fails only for a job of the files with the tag of a generated one,
which `JobRecords` leaves out.

### Removal

`ApplicationRemoval` has the retention run, the state sync, removals by hand and
the removal task, which observes, saves, withdraws and deletes in that order.
Readings carry their time, so a save may come later than a newer one. The
platform hides a response, or says that there is none (`rm.gone`), which the site
also says of 404, 409 and any page that is not JSON although the response may
still be there (`browser_application_withdraw.go:65`, `:86`). The reader of a
profile can withdraw or cannot (`withdraws`); without it the row goes alone
(`application_removal.go:156`).

### Conversations

`Conversations` is one chat on the platform and in the store, with everything
that reads it. `ConversationCommands` adds what writes into it, `FollowUps` the
reminders. A read stores what it brings later than it was taken. `CommandSpec` and
`FollowSpec` are about one row of the chat (`AroundRow`): the keys of tasks
contain the id of the conversation (`workflow/conversation.go:549`), so a chat
that is found again after its removal has other commands, and its follow-ups
leave the store with it.

### Profile

`ProfileState` reaches the declared state of a profile in a lane of one task at
a time, page by page or as one document, while the owner edits. `SignIn` is the
sign-in service with its sessions, one call at a time, the state file and the
session refresh that writes the same file; `ProfileDrafts` extends it with
drafts and captures. Requests that apply a draft are not locked: each looks for the
fragment, renames its own into place and marks the draft in steps of its own
(`profile_draft.go:330`); the history `overtaken` says that one was renamed over
that of another account. `BrowserCheck` has the checks of blocked applications and
the worker's fallback on the one page of the profile. A confirmation is a key made
of the second of the clock, the reset of the row, the enqueue and the session, each
a step; a key that is known stands for its task, over or not.

### Questionnaires

`QuestionnaireReviews` goes from the captured questions to a complete set of
answers: review sessions, the bank and its revisions, with questions that ask for
code (`CodeQuestions`) and configured answers that fit no option (`Unfit`), both of
which end the chain where it is. `QuestionnaireForms` goes
from there to the accepted form and the release of the application. Questions
are told apart by their text; a task is kept as its key.

Each `MC` module gives the constants of these modules their values; where
several components share no variable it runs one of them at a time (`part`), so
that one run asks several questions without multiplying their states.

## Runs

| Run | Instance | Shows |
|---|---|---|
| `queue` | one task, two workers, every outcome, an operator, two attempts, three claims; and two profile-state tasks that block an application | one holder at a time and its copy agrees with the row (`ExclusiveHolder`, `IInv`); nobody else touches a task under lease; only the result of the last claim counts; every step is one of `TaskLifecycle`; an application starts only when the rule of the in-memory queue would start it |
| `services` | a job with a timer and a cron trigger, a reload and one failed task; three tasks, two of a guarded job and one of no job, retries that fail; three starts of the process; two vacancies, four calls; three tasks of one form; two cards | `OneActivePerJob`, `OwedStaysDue`, `DueIsHandled`; `SignInHeals`; `TakenOnlyWhenSilent`; `AppliedIsHeld`, `RefusalSentNothing`; `GateOpensOnAccepted`; `RestsAfterFirst` |
| `submit_outcome` | one application, every answer of the platform, three modes, an operator, crashes anywhere; two attempts, two keys | a submission is never sent while the outcome of an earlier one is open; finished tasks leave a counted and settled application |
| `submit_budget` | two applications, two days, a limit that changes from one to two | the use of a window is the number of slots held, and within the limit; pacing slots held together are an interval apart |
| `submit_tailoring` | two applications on one resume, failing and half-done writes; an edit of the owner while one application is at work | no saga takes the tailored resume of another application for its baseline; a request of a saga replaces only an edit that was made after its own call had read the resume |
| `campaign` | one run that submits or only discovers, two routes sharing a vacancy, another finder, removals, a reload, one fault | what a page listed is planned before the cursor leaves it; a running campaign has a task; it ends |
| `platform` | four configurations and two edits, one of which moves a resource to another profile; a search with two definitions; two questionnaires, and two with a question for code and an unfit answer; one response of a profile that can withdraw and of one that cannot | see PROJECT.json: what was applied is in effect everywhere, a run by hand makes one task per command, due times survive a reload; a search has a task of its definition; an answered review goes on, a cancelled one does not; the newest reading decides, and what is removed was withdrawn or said to be gone |
| `chats` | readers with old snapshots; replies; reviewed answers and messages sent twice; one follow-up that is moved; two follow-ups and a stop after a send | a person's answer stops the reply; one message per command; a follow-up runs when it is due and keeps its distance |
| `profile` | two declared fields and one more; two sessions and two accounts; two drafts and two requests that apply them; checks of two applications within two seconds | what is recorded was in effect; only an open sign-in replaces the state; an applied draft is what was written, unless two requests overtook each other; a check that is done has a retry that is under way or ended after it, unless its key met a retry of the same second |

Deadlock is checked in `queue`, where a worker may always poll. In the other
runs a bound (time, attempts, edits, faults) ends the behaviour.

Bounds are named constants of the modules. They are chosen so that the
interesting case happens and one more of it would not change which code runs:
two workers for a stolen claim, two attempts for a repeated submission, two days
for a slot of a past window, two vacancies shared by two routes, one fault at
any place (a fault is a failed call or a stop, after which the task is delivered
again). Each property was seen to fail when one definition of the model is
changed the way a plausible mistake would change the code (`mutants` in
PROJECT.json).

Some bounds leave combinations out, for the number of states. `OneAtWork`: an
edit of the resume's owner comes while one application is at work. In `platform`,
a run over the bank excludes a stop, and there are two answers of the employer or
failed calls, one while the application is held or if the profile cannot withdraw.
In `profile`, the second request to apply starts beside the first, for the first
draft and sign-in (`TwoApplies`); two of the callers of the page work at a time,
and the worker takes the second application through the API. In `services`, one
task of the job waits for a restart at a time (`MaxFailed`). One campaign runs, so
none supersedes another. The theorems about these properties have none of these
bounds.

Fairness is assumed in two places. The scheduler loop reconciles for as long as
the process runs (`cmd/job-agent/main.go`, `reconcileJobs`), so the steps of a
pass are weakly fair, and a pass fails at most `MaxErrors` times. The worker of
the campaign tasks goes on for as long as there is a step to take
(`worker/worker.go`, `Run`), so `HandlerStep` is weakly fair; other workers
promise nothing.

Runs that show a disagreement between the code and what the repository says of
it (the quotation is in PROJECT.json, under findings):

- **sign_in_drops_operator_pause** – a sign-in resumes what an operator paused:
  the guard has overwritten the reason of the pause, or the operator paused
  between the listing and the resume.
- **saga_not_resumable** – a crash after the application is saved as ready and
  before the restore leaves a saga that the next attempt refuses.
- **activity_reopens** – a card opened again after its window keeps its first
  record, so every later run opens it again.

A property that holds only beside such a disagreement names it in its statement:
`OneActivePerJob` (restarted tasks), `SignInHeals` (retries that failed),
`AppliedIsHeld` (an empty success of the mobile API), `RefusalSentNothing` (an
error named in a 3xx or 5xx), `OwnerEditsKept` (an edit between the read and the
request), `AnsweredGoesOn` (five situations), `RemovedIsWithdrawn` (a response said
to be gone), `AppliedIsWritten` (a fragment overtaken), `DoneIsConfirmed` (two
checks in a second).

Further disagreements, found while modelling, that no run is about:

- When the renewal of the process lease finds another owner, the process logs it
  and serves on (`cmd/job-agent/main.go:1717`), although
  `storage/sqlite/runtime_instance.go:13` says a second live instance is refused.
  The leases of the queue keep tasks apart all the same (`ExclusiveHolder`).
- A campaign supersedes every running campaign with its job tag, of whatever
  profile (`workflow/application_campaign.go:194`); `cmd/job-agent/main.go:2676`
  says each account gets a run of its own.
- A reload whose definitions cannot be built has already replaced the routes of
  the campaigns (`cmd/job-agent/main.go:2967`); `docs/next-config-reload.md:14`
  says the old configuration goes on. A binding that failed is "already
  registered" ever after (`profile_binding.go`).
- A removal reuses a state of the platform that is at most ten minutes old
  (`worker/application_removal.go:80`), so it withdraws what became an
  invitation since; `docs/application-cleanup.md:75` says it reads again.
- A follow-up that was sent and not marked, because the process stopped, is
  cancelled later and does not count against the limit
  (`workflow/conversation.go:432`; `docs/conversation-api.md:98`).
- The worker's fallback and a check drive the one page of a profile request by
  request (`browsercheck/service.go:161`), so the worker may read the outcome of
  another vacancy.
- A paused schedule does not stay due: a pass moves it on without a run
  (`scheduler/scheduler.go:141`), and resuming makes the job due by itself.
  `scheduler/scheduler.go:60` says that it is skipped and stays due, so that
  resuming runs it right away. `DueIsHandled` is about jobs nobody pauses.
- 404, 409 and any page that is not JSON, `<doc/>` and a login page too, end a
  withdrawal with "already removed" and the row goes
  (`adapters/hh/browser_application_withdraw.go:65`, `:86`);
  `docs/application-cleanup.md:32` and the comment of the function (`:35`) say that
  `<doc/>` means the response stayed and is no success.
- Two requests that apply a draft rename one fragment over the other when both
  found none (`workflow/profile_draft.go:330`); the comment at `:327` says that
  applying never overwrites a hand-edited file silently. The one marked applied
  may be the one that was overwritten.
- An edit of the resume's owner between the read of `ApplyProfileState` and its
  request is overwritten (`adapters/hh/browser_profile_state.go:51`,
  `api_profile_state.go:68`); `docs/application-resume-tailoring.md:143` says that
  drift from outside is not overwritten.
- A next question that asks for code, or a configured answer that fits no option,
  ends the chain with an error nobody sees: the session stays answered, or pending
  if it is the first question (`worker/review_answer.go:329`,
  `vacancy_test_capture.go:213`, `core/review.go:157`).
  `docs/next-answer-model-fallback.md:33` says such a question stays "unsupported",
  which no status of the session shows.

Behaviour that the models have and no property is about, with its place:

- A pacing wait on the last attempt fails the task (`worker/worker.go:176`).
- The guard pauses the job before the failure it reacts to is stored
  (`worker/worker.go:170`), and may do so after the recovery it belongs to.
- A reload that changes the definition of a schedule loses the run a resume has
  promised it (`storage/sqlite/scheduler.go:34`).
- A failed task of a schedule is restarted without a look at its job, which may
  have another task active (`storage/sqlite/task_control.go:13`, `:48`); a retry
  that fails during a recovery leaves its task failed
  (`workflow/auth_recovery.go:117`).
- The mobile API's success with an empty or unreadable body is taken for a
  response (`mobile_application.go:211`), and a 3xx or 5xx that names an error in
  its body for a refusal, so that the place in the budget is given back.
- Edits of the resources of profile states take effect with the next start, although
  the reload is recorded as applied (`main.go:1074`); a job on a resource that was
  not there at the start fails the reload.
- The keys of the retries of checks have the second of the clock
  (`browsercheck/service.go:286`): a check whose key meets a retry that is over has
  nobody to confirm it. A row that was reset stays ready when the enqueue then fails.
- An error of the browser fails the whole sign-in session
  (`auth/service.go:206`); it stays when the person hangs up or the failure cannot
  be saved.
- A campaign that only discovers waits for the applications of its first pages,
  which nobody sends, until its life time ends (`application_campaign.go:254`,
  `:443`).
- A job of the files may have the tag of a generated job
  (`cmd/job-agent/main.go:3325`); the two would share schedule rows. The models
  assume that none has.
- A second process writes the schedules before it is refused the lease
  (`cmd/job-agent/main.go:1103`).
- A slot of the budget is not given back on two paths
  (`worker/application.go:471`, `:525`); the window it counts in is that of
  the start of the handler (`:430`).
- A slot that is rescheduled forgets when it was last granted
  (`storage/sqlite/application_pacing.go:63`), so an application that was
  granted, interrupted and rescheduled no longer holds others back.
- An application whose tailoring finds nothing to change is submitted with
  whatever is on the resume (`worker/application_tailoring.go:133`).
- An operator's retry is two writes (`workflow/application_retry.go:68`); a
  stop between them leaves the application reset and without a task. The same
  holds between the accepted form and the retry it enqueues
  (`worker/questionnaire_answer.go`).
- `SaveApplication` compares the status only (`storage/sqlite/store.go:410`): a
  row that left the status and came back is overwritten.
- A session refresh may write the old state back after a logout
  (`worker/session_refresh.go:110`).
- The campaign whose tick failed for good stays running; a retried start of an
  older run supersedes a newer one.
- A response withdrawn on the platform may stay in the store when the removal
  then fails; a retention run ends at the first removal that is refused.
- A button answer of a chat is not checked again before it is sent; a chat that
  was removed is created again by the next discovery, and a prompt in it may be
  answered once more; a follow-up whose task failed is never replaced.
- A capture whose questions are all answered is refused when the bank also
  answers questions of other vacancies (`worker/vacancy_test_capture.go:171`).
- A review whose handler stops between the selection and the continuation stays
  answered and is not sent; with answers kept out of the bank a chain asks the
  same questions again; a revision written by the model replaces the answers of
  a person (`worker/vacancy_answer_resolver.go:11`). `AnsweredGoesOn` excludes
  these three beside the two named above.
- The confirmation of a questionnaire is any page without the form
  (`confirmVacancyTestSubmission`); several tasks may submit the same form.
- Nobody expires sign-in sessions by the clock alone; the pictures of a failed
  one stay on disk.
- A drift that was resolved by hand is taken for the one seen before
  (`workflow/profile_state_apply.go:113`); a PUT over the API overwrites fields
  that are not declared.

## Proofs

TLAPS proves what follows for every value of the constants that satisfies the
assumptions named in the modules. A proof module holds the types, the inductive
invariant, one lemma per action (or per kind of step), and the theorems, which
end in a step that combines them with `PTL`. Where a handler has many actions,
a lemma first says how it moves (`Moves`, `GoesTo`), and the invariants are
proved from that.

**Queue and workers** (`TaskRuntimeProofs`). `IInv`
strengthens `ExclusiveHolder`: a token is issued once, a row that is processing
has a lease whose token was issued, and tokens of two rows or two holders
differ. Without the last two a stale worker could complete somebody else's
claim. From it follow `Exclusive`, `HolderAgrees` (the copy of a worker whose
token is in the row agrees with the row), `RetryBounded`, and
`DeadlineBoundsLease`. The action properties need `Readings` as well (a reading
of the clock is never in the future; a worker's lease was valid when it was
read): `LeaseProtects`, `LastClaimDecides`, `StartsAreUnblocked`.
`ImplementsLifecycle` shows the initial states and every step of `TaskRuntime`
to be an initial state and a step or a stutter of `TaskLifecycle`.

**Scheduler** (`JobSchedulerProofs`). `SchedulerInv` rests on the two readings
of a period: what a pass computes is even, what a resume reads is odd
(`ReadingsPast`, `RowsTimed`). So a pass that read a schedule before it was made
due misses its row when it writes (`PassesFine`), and what is owed stays due
(`OwedRuns`): `OwedStays`. `OneActive` also needs `EnqueuesFreeJob`, that but for
restarted tasks (`beside`) nobody is active between a pass's look at the active
tasks of a job and its own enqueue. That holds under `OneProcess`, a hypothesis of this theorem only: one process
schedules, which is what the process lease is there for.

**Auth recovery** (`ServiceProofs`). Two lists are read and worked off
while tasks go on failing. `RecoveryInv` says of a recovery whose session still
holds that what is still paused or failed is on its list (`PausesListed`,
`FailuresListed`), the latter while all tasks fit its limit and but for tasks
whose retry has ended with an error. `SignInsHeal` follows for any finite set of
tasks.

**Lease, forms, activity** (`ServiceProofs`). `LeaseInv` has the types and that
no reading of the clock is ahead of it; `HolderTook` says that the row names a
process that took the lease, and `TakenWhenSilent` that it leaves one that
serves only after a silence. `GateOpens`: either the form was taken, or nothing
that follows from it has happened (`FormsInv`). `RestsAfter`: what a run is
still to open is neither on the list of opened cards it read nor recorded since
(`UpkeepInv`).

**Submission to HeadHunter** (`OutgoingProofs`). `HHInv` joins the types
with `Knows`: for each place a call can be at, what it knows of the platform's
responses, and which answers it took without proof (`unproved`). `AppliedHeld`
follows for every transport, `RefusalsSendNothing` for the public API and the POST
of the form.

**Chats** (`OutgoingProofs`). The theorems are about `CommandSpec` and
`FollowSpec`: one row of a chat with its commands, or with its reminders, and all
that goes on around them. `ChatInv` has the types, that the log has one message
for a moment and for the key of a task (`LogOK`), and that every position a reader holds is in
the log (`Positions`). `EnvMoves` says once what a step around the commands may
do: add a message of a person, edit the row, take it away for good, or bring the
read of the command one place further. `TasksAsked`: what a task was created
for, and what was sent, stands in the log as its kind of question; two answers
with one prompt would be two messages of one moment, hence `AnsweredOnce`.
`Listened`: before a reply is checked, all that the log had when its task
started is stored, and a prompt is the newest of what is stored (`PromptAsks`);
hence `HumansFirst`. `DueInv`: the follow-up about to be sent is due, and nobody
can move it, since only a scheduled one moves; hence `RemindsWhenDue`.
`SpacedInv`: what the read of a follow-up brought holds every reminder that was
sent, recorded or not, and the cooldown after each is over when the next is
posted; hence `RemindersSpaced`. Assumed are a clock with a bound (`LastMoment`),
requests that are no moments, and follow-up ids that are not 0. `Max` and `Min`
of the sets that occur exist because a set of numbers has a least element
(`LeastOf`).

**Profile** (`ProfileProofs`). `OnlyOpenStores` needs the types only.
`AppliedWritten` needs that what a capture or any of the requests to apply has read
is identified as the row is, and that a request about to mark the draft has its
fragment in place unless one was renamed over another. `DoneConfirmed` needs that a
check which enqueued or found a retry counted the retries that had ended before
(`ended`, `since`), that the row the worker works on is submitting and has a retry
that is not over, and that an outcome believed fine is a submitted row
(`CheckInv`). `RecordedApplied` needs
that every declared field that was seen to have its desired value was in effect
during the attempt (`MetNow`, `MetWhenSeen`) and that the pages read cover the
declared fields (an assumption of `ProfileState`).

**Search and campaign** (`IntakeProofs`). `SearchInv`: no generation has
a task for a page the run has not come to (`NoneAhead`), the page the run is at
is not done, and a handler that plans or enqueues has the row of the run
as it is stored (`HandlerHolds`). `SearchCarriesOn` follows. `CampaignInv` is
its like for campaigns: there are ticks only for the revisions a row came to, the
tick of the revision of a running row is not over (`TicksInTime`), and what a
handler holds of its row is said for each place it can be at (`RunHolds`). It
contains `RunningHasTask`, which is inductive only beside them. `TailInv` adds
the applications: one without a task is new and there (`IntakeOK`); the open
vacancies of the pages that the cursor is past are handed on (`PagesPlanned`),
for which the page in hand has its own part, what is still to do of it; and a
tick counts every linked application without a task (`CountCovers`), so that a
row is exhausted only when none is left (`ExhaustedIsOver`). `TailIsKept`
follows for a finite set of vacancies.

**Removal and reviews** (`PlatformProofs`). `RemovalInv`: a task
of a removal knows its reason (`ReasonKnown`), what is stored is the newest of
what the three handlers handed to the storage (`NewestStored`), and a handler
about to remove a linked response has seen it hidden or said to be gone, if the
profile can withdraw (`WithdrawnFirst`); from these follow `NewestDecides` and `Withdrawn`. `ReviewsInv`: the revision tells how far
a session is (`RevisionGrows`), the task of an answer brings what its test asks
(`AnswersBrought`), and its handler works on a session that is as it left it or
cancelled (`AtWork`); `CaptureKnows` says the like of a capture.
`AnsweredIsContinued` and `Cancelled` follow.

**Configuration** (`PlatformProofs`). The lemmas are about the definitions of a
configuration: each is a line of a job, at a position of its targets and a
trigger, or comes from the policies of a profile (`LinesBuilt`); the index of a
line tells position and trigger (`IndexOnce`), so no two definitions have one
key and a tag has one payload (`LinesKeyed`); a job run has a command for a
profile once (`RunsOnce`); a line brings the lines of its job for the same
target. `ReloadInv` says what the variables are between the steps of an attempt:
campaigns and routes are those of the configuration at hand, before the
replacement the rows are ahead of the runnable jobs (`Attempts`), the rows are
those of the configuration applied last until the sync (`Rows`), and the tasks
of a run are those of one replacement of the runnable jobs, by some plan that
says for each replacement what stands behind a tag (`Planned`). `Applied`,
`RunsComplete` and `DueTimesKept` follow. Assumed are files of the right shape
in which no job has the tag of a generated one.

**Submission** (`ApplicationProofs`). Invariants over the handler, its
row and the stores:

| Invariant | Says | For |
|---|---|---|
| `Control` | types; a handler past its start works on a row no operator has moved, and an unsure row is as it read it; only what is submitted is committed; the requests of operators are fresh | the others |
| `BudgetInvariant`, `CommittedIsSubmitted` | the use of a window is the number of slots held in it; a committed slot has a submitted row | `BudgetKept` |
| `Settled` | an application whose outcome is open has a row that no handler sends, and the handler that works on it is not on its way to the request | `NeverBlind` |
| `Tailoring` | the resume is in its base form while no saga is open; whoever plans saw that, or another saga has the lock; whoever is about to write has read the text it wants | `BaselineOwned`, `EditsKept` |
| `Counts` | a row that is open, or submitted and not yet counted, has a task that is not over | `DoneCounted` |

`Spaced` needs none of them. The budget is a sum over a finite set of
applications: where induction on it would be the argument, the proof takes a
minimal counterexample under the strict-subset ordering, or the library's facts
on finite sets, because an induction theorem takes an operator, which the
provers cannot instantiate. Assumed are a finite set of applications and that
the windows of the clock are among `Windows`.

PROJECT.json lists the theorems with the properties of the runs they state.

Model-checked only:

- `DueIsHandled` and `CampaignEnds` are liveness under fairness, which is out of
  reach of this prover.

## Abstractions

- One profile on one platform, except in `ConfigReload`, `SearchRuns` and the
  campaign. Profiles share no rows but those of the queue.
- The clock of the process never goes back, and all modules but `JobScheduler`
  compare it in its own unit.
- A text, a questionnaire, a page or an answer is a value that is equal to
  another or not. Where two texts are told apart by something (normalised
  questions, the halves of a tailored resume) the modules say by what.
- A call to the platform or the store is a step. What the code reads before it
  and uses after is kept in the variable of the handler.
- A stop loses what handlers hold in memory and nothing else: a write that
  SQLite has committed stays.
- `ApplicationSubmit` takes a reconciliation that answers to be true. For
  HeadHunter `AppliedIsHeld` shows that for what is believed to be applied.

Not modelled: qualification (`worker/qualification*.go`), whose attempts have no
adapter in this build; the operator models and prompts; HTTP routing and
the dashboard; migrations and backup; credentials and profile import; the
parsing of pages and answers. The memory stores and the adapters are modelled
as far as the components above use them.

## Plan

- A model of qualification, once it can be reached.
