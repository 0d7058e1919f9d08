# A verification of the AI character chat service

The modules in this directory model the parts of the service whose correctness
depends on the order of things: who is charged for an AI answer and when, what
happens to a conversation's memories while workers die and owners edit, which
mailed link still works, what a publication makes of a draft that two devices
edit, which uploaded file may be deleted, what an administrator's decision rests
on, and what a browser shows of all this when answers come late. TLC checks every
module on small instances; most safety properties of most modules are also
theorems for every value of the constants, checked by TLAPS (section 4).

`PROJECT.json` lists the components, the runs, the source lines behind every
definition (`map`), the hazards of the code, a faulty variant for every property
and for the parts of the combined ones (`mutants`), the five disagreements
between code and documentation that the runs show (`findings`) and the theorems.
Definitions whose comment begins with *Faulty:* are such variants; nothing but the
mutants uses them.

Source paths below are relative to `src/apps/api/app/`, those that begin with
`web/` to `src/apps/`.

    tlc -workers 2 -config AnswerReplay.cfg MCAnswerGeneration
    tlapm BillingProofs.tla

## 1. The system

A FastAPI application (several replicas), two worker processes (memory, mail), a
cleanup job for media, a statistics job, PostgreSQL, an object store, an SMTP
server, LLM providers, and a Next.js client that keeps a session, a history cache
and local drafts in the browser. Everything durable is in PostgreSQL; a request or
a worker is a sequence of short transactions with slow external calls between
them, outside any transaction. Most of what can go wrong is in those gaps, and in
the time an answer takes to reach the browser.

| Component | State it keeps | Operations | Interacts with |
|---|---|---|---|
| Answers (`modules/chatting/chat`) | `product_generations` row per request key: status, staged metadata, lease, recovery budget; `answer_recovery_attempts` | generate, replay a key, stage, finalize, recover (loop, replay, operator) | credit, billing, conversation, memory, LLM |
| Chat messages and conversation | messages, their revisions, `chat_history_versions`, receipts, the product version in use | create, replace, rewind, page, switch version | answers (locks the same conversation row), memory, browser |
| Credit (`modules/commerce/credit`) | wallets, two buckets of credit, reservations, movements | reserve, commit, release, grant, prepare | billing, answers (inside their transaction) |
| Billing (`modules/commerce/billing`) | price book, quotes with an expiry, bindings of requests to reservations, usage | price, quote, reserve and bind, settle | credit, answers |
| Statistics (`use_cases/product_statistics.py`, `billing/service/command/attribution.py`) | attributions of payments, usage facts, dirty days, daily rows | sell, refund, mark a day, rebuild, re-enqueue, report | billing, answers, conversation |
| Memory (`modules/chatting/memory`, `memory_worker.py`) | one job row per conversation, summaries and embeddings | schedule, claim, summarise, index, complete, fail, invalidate, retrieve | chat messages, answers, LLM |
| Context compaction (`answer_preparation.py`, `summarization.py`) | no state of its own; the target of a memory job | measure, refuse with a target, build a prompt | answers, memory |
| Lore and prompts (`lorebook/service/activation.py`, `chatting/prompt`) | no state of its own | activate entries for a turn, diagnose a draft, render | conversation, publication |
| Identity | users, action tokens, sessions, rate limits | register, verify, reset, login, refresh, log out, Google login | mail, browser |
| Mail outbox (`auth_mail_worker.py`) | `auth_mail_outbox` rows with an encrypted proof | claim, send, complete, clean up | identity, SMTP |
| Studio (`use_cases/studio_*.py`) | one draft per product, mappings of identities, receipts; the copies of characters and lorebooks; snapshots and releases | load, save, map, copy, publish, expire | products, characters, lorebooks, tags, media, browser |
| Tags (`modules/content/tag`) | a dictionary of names, public and internal links | create, rename, deactivate, link, unlink | publication, every kind of content |
| Character media (`media_cleanup.py`) | `character_media` rows, objects in the store | reserve, upload, attach, detach, publish, clean up | characters, publication, asset storage |
| Moderation (`modules/governance/moderation`) | reports, assessments that supersede each other, actions | report, take in, mark duplicates, assess, request, revoke, cancel | products, identity |
| Browser (`web/lib`) | cookies, a mark of uncertainty, history cache and checkpoint, pending submissions, local drafts | request with refresh, log in and out, sync, append, publish | everything behind HTTP |
| Administration, LLM routing, reporting, migrations | configuration, or nothing | calls, rendering, queries | all |

### What is hard, and what makes each component correct

*Answers.* A client that lost its connection repeats its request key; a replica
dies after telling the database that it is about to call the provider; a commit
succeeds and its acknowledgement is lost; a lease ends while a slow call is still
out and a recovery judges the run. Through all of this the provider must be asked
at most once per key, the user must pay exactly for a delivered answer, a settled
outcome must stay, and credit must not stay reserved for ever.

*Credit, billing, statistics.* Operations share the caller's transaction, which
may fail as a whole or at a savepoint. Balances have to stay the sum of their
movements, holds backed by credit, and each hold settled once, at the price that
was quoted. Prices go through tiers, policies, a cost floor and two roundings, and
may never end below cost or above their limits. Reports are rebuilt day by day from
facts that arrive at the same time, and read in statements that share no snapshot: a
report must be exact of every day that is settled and was not rebuilt while it was read.

*Memory.* Leases end under live workers, requests arrive during claims, owners
edit text that is being summarised, workers die between two writes. Summaries have
to cover a prefix of the current text exactly, and a job that rests must have
done what was asked. The same history is measured by three readers through
different windows; they have to agree, or a refused prompt is refused for ever.
What a search finds is used later than it was read, when the history may be cut.

*Identity, mail and the browser's session.* Password hashing happens outside
transactions, links are used twice or late, an address is registered again while
old mail is under way, mail workers crash while sending. A refresh token is good
once and shared by tabs that cannot see each other's calls.

*Studio and tags.* Two devices hold the same draft, a publication is repeated
after its answer was lost, identities are recognised by position when no mapping
exists, and copies are edited directly in between. Publishing locks a whole work
and its names while editors lock one by one.

*Media.* A row and an object cannot change together; a lost database connection
frees the row lock while the store call is still on its way.

*Moderation.* An action rests on an assessment that may be replaced before it
commits; duplicates lead from report to report.

*History display.* Revision and rows are read in two statements and over several
pages, while the page that reads also adds what it has just saved.

`hazards` in `PROJECT.json` lists these at their lines, with the properties that
catch each.

## 2. Modules

| Module | Models | Role |
|---|---|---|
| `AnswerPromise` | what a user may rely on for one request key | abstract specification |
| `AnswerGeneration` | `answers.py`, `answer_recovery.py`, `generation.py`, `messages.py`, `versions.py`, the loop in `main.py` | detailed specification, implements `AnswerPromise` |
| `CreditLedger`, `CreditConservation` | `credit/service/command.py`, `credit/repository.py`, `billing/service/credits.py`; the ledger's sums | detailed specification; properties that need a fold over movements |
| `PriceQuotes` | `pricing.py`, `policies.py`, `configuration.py`, `quotes.py`, `credits.py` of billing | detailed specification |
| `ProductStatistics` | `attribution.py`, `product_statistics.py`, the usage and statistics repositories and reports | detailed specification |
| `SummaryPlanning` | `summarization.py`, `read_message_window`, `_read_unsummarized` | pure definitions, used by the next two |
| `MemoryWork` | `memory/repository.py`, `workflow/memory.py`, `memory_worker.py` | detailed specification |
| `ContextCompaction` | `answer_preparation.py` with the summaries of `MemoryWork` in one step | detailed specification |
| `MemoryRetrieval` | `retrieval.py`, `invalidation.py`, the search | detailed specification with a reference definition of the selection |
| `LoreSelection` | `activation.py`, `context.py`, `studio_diagnostics.py`, `prompt/service.py` | functions over every short conversation |
| `MailDelivery` | `mail_delivery.py`, `workflow/mail.py`, `adapters.py`, `auth_mail_worker.py` | detailed specification |
| `Accounts` | `authentication.py`, `google.py`, `identity/repository.py` | detailed specification |
| `TabSessions` | `web/lib/api.ts`, `identity/router.py`, `http_security.py` | detailed specification |
| `ChatHistory` | `web/lib/chat-history.ts` and the server's pages and message requests | detailed specification |
| `ContentStore` | `studio_publication.py`, `studio_components.py`, `publication.py` and the repositories under them, as functions on the owner's content | pure definitions |
| `StudioDrafts` | `studio_drafts.py` and its callers, `web/lib/studio-server.ts`, over `ContentStore` | detailed specification |
| `MediaUpload` | `character/service/media.py`, `workflow/media.py`, the parts of `character` that attach, freeze and delete | detailed specification |
| `ContentTags` | `tag/service`, the tag tables of products, characters and lorebooks, the locks of publication | detailed specification |
| `ReviewCases` | `moderation/service/command`, `moderation/repository/review.py` | detailed specification |
| `AnswerProofs`, `BillingProofs`, `StatisticsProofs`, `IdentityProofs`, `WorkQueueProofs`, `ReviewProofs`, `ContentProofs`, `FiniteSums` | — | theorems (section 4) |
| `MC*` | — | constant values, symmetry and composition for TLC |

### How modules are composed

Where components share state, one specification has both: answers with the
conversation, its history and its credit; compaction with the summaries;
attachment, publication and cleanup of media; drafts with the content store. Where they
do not, one run checks several modules, each from its own start: `MCWorkQueues`,
`MCIdentity`, `MCAnswerInputs`, `MCContent` and `MCConversation` have a variable
`part` that says which module's next-state relation applies, the other modules
resting in their initial states. The parts use the same model values for
interchangeable things (clients of one, sessions of another), so that one small
symmetry group serves them all; nothing else is shared.

A component's properties that are about the same thing are one conjunction of
named parts: `SummariesAreSound` is the type invariant, `SummariesTile` and
`OneUnindexed`. `mutants` has at least one faulty variant for each combined
property and, beyond, one for the parts that a different bug would break.

### AnswerGeneration

One conversation. `run[k]` is the generation row of request key `k`; `credit`,
`usage`, `messages`, `historyVersion`, `memoryRequested` are what other tables
hold about it; `worker[w]` is the program counter and locals of an execution of
`generate_answer`, a recovery loop or an operator. Every transaction of the code
begins by locking the conversation, so **one transaction is one action**; between
two actions of one actor anything else may happen. Each action that commits also
has the variant in which the commit took effect and its acknowledgement was lost
(the actor goes to `reconcile` or `confirm`), and each that may fail has the one
in which nothing was stored. `Stop` is the death or cancellation of a process at
any of its steps. `calls[k]` counts requests sent to the provider: it is no
variable of the program but what the properties are about.

The program's clock appears only in comparisons: `leaseOver` is
`answer_lease_until <= now` and `due` is `answer_recovery_next_at <= now`. Both
turn true by steps of their own and are reset by the code. A replay that finds its
run recoverable takes part in the automatic budget, exactly like the loop
(`Resume`); operators do not.

Abstracted: the product character, manual entries and model settings are part of
the `input` reference; the price and whether a run is billed are chosen at
preparation.

### CreditLedger, PriceQuotes

`CreditLedger` is one wallet in one currency. `ledger` is what is committed;
`tx[s]` is the transaction of a session: its view of the ledger, whether it holds
the wallet lock, and the savepoint of a billing reservation with what a rollback
restores. An operation is a function on ledgers (`AfterReserve`, `AfterCommit`,
...) guarded by what the code checks; an operation that raises leaves no trace,
since its own savepoint takes it back, so only successful ones are actions. A
scope poisoned by a joined failure can only roll back, which
`RollbackTransaction` already does. `MaxCredit` is 2^63 - 1 in the code, and the
checks at `command.py` that refuse to pass it are in the guards. Left out: rows of
older schema versions, which the code rejects, and several currencies, which
share nothing.

`PriceQuotes` has the price as a function of the deployed book (`PriceOf`: model,
tier, policies in order, cost floor, rounding) in units of `1 / Scale`, so that
halves round as they do in the code; `ValidBook` is what the configuration check
accepts, and `DeployBook` replaces the book at any time. A buyer's attempt asks
(`AskPrice`, under the advisory lock of its request key), waits for the wallet,
holds, settles or gives up, while the clock passes the expiry of quotes.

### ProductStatistics

A writer records a fact and marks its day in one transaction; `lock` is the row
lock of the day in the queue, which makes jobs and writers wait for each other as
an upsert does. A job claims a marked day, reads money and plays in two statements,
each of which sees what is committed then, writes the day's rows and clears
the mark. A report over a range, of the product or of a version, is read in
statements that share no snapshot: for the usage of a version the product's rows
(`ReadRoots`, `ReadRows`), otherwise the rows at once (`AskRows`); then the users, counted
once over several days (`ReadUsers`); last the pending days (`AnswerReport`). Anything may
be committed between them. `report` is one report under way (reports write nothing, so
one stands for all), `Reported` what it adds up to. The reference is `Metrics` of the
facts themselves. `overtaken` remembers the days rebuilt since the first
statement and is used by properties only: of such a day the rows that were read may be
old although it is not pending any more, and a report with one may call itself
complete and show what the day counted before. The code says so
(`creator_reporting/ARCHITECTURE.md:54-56`, `separate_read_queries`), and the next report
is right, so this is no finding; the property is about all other days.

### SummaryPlanning, MemoryWork, ContextCompaction, MemoryRetrieval

A message is its rank in the conversation with a size. `SummaryPlanning` has what
the code computes from sizes: the protected recent messages, the batch to
summarise, the compaction target and what a reader of a bounded window sees.

`MemoryWork` is the queue. `job` is the row; `summaries` the summaries, each with
the range it covers, the revision of the text and whether its embedding is
stored. A worker goes through the steps of `process_memory_work`; it holds no
transaction over a provider call, so its lease may end and its job be claimed by
another at any step, and it may die or lose an answer at each. Every write asks
whether the claim token is still the job's (`Owns`). The digest over source texts
is subsumed by the history revision: here texts change only with the revision.
`asked` remembers what was due at the last request and is used by properties only.

`ContextCompaction` puts the answer side beside it: prompts with different room,
refused with a target or built, while summaries advance by batches. Preparing
an answer and scheduling its target is one step, as is one batch of a worker
(their interleavings are in `MemoryWork`); retrieved memories are any total
within their budget.

`MemoryRetrieval` is a lookup in its steps: read the provider, embed outside a
transaction, search, select, and later use, while memories appear and are indexed,
the provider is changed and a rewind deletes all of them. Similarity is a
member of `Scores`.

### LoreSelection

Functions of a book, a conversation and the entries a player picked: `Activated`
(triggers within an entry's depth), ranking, budgets and exclusive groups
(`ActiveLore`), the studio's diagnosis (`DraftLore`) and the rendered prompt. The
actions only say a message, pick entries and answer; the run checks every
conversation of up to three messages. `prompt` is what the last answer asked with.

### MailDelivery, Accounts, TabSessions

`MailDelivery` has the outbox rows of one account. A claim counts the attempt and
stores a fresh token, the send may be accepted without the worker learning of it,
and the report counts only if the token still fits. What a proof is good for is
in `Accounts`; here it is usable, spent or deleted, and the account's eligibility
may change at any time.

`Accounts` is everything about one address. Operations that lock the user's row
first are one action each. Three are not atomic and have two: a password is
verified against a row read before (`VerifyPassword`, `OpenSession`), a proof is
read before its user's lock is taken (`ReadProof`, then the use), and the clock of
such a use is read before too. A hash is a secret with a salt, so that a rehash
differs. `linked` is the Google identity. Rate limits appear as refusals; OAuth
state is not modelled; the status of an account is changed by administrators
only, from outside.

`TabSessions` is the browser's half: `jar` is the shared cookies, `page[t]` what
the code of a tab waits for, `call[t]` its call on the way, with the cookies it was
sent with. Answers set and delete cookies when they arrive, which is a step of its
own before the page goes on; `turn` is the Web Lock, `marked` the mark of
uncertainty in the local storage. Tabs close and calls get lost at any time.
Which refusals delete the cookies is `Deletes`: an answer does so whenever it arrives,
whatever the jar holds by then. A late `invalid_session`, or a late refusal of a refresh,
may therefore take away the cookies of a login that came after the call was sent, and a
late exchange of another session may replace them. `http_security.py:142-145` and
`identity/ARCHITECTURE.md:68` agree on this, so it is no finding; `CookiesAreKept` says
that nothing else takes a working session's token, and in particular no answer to a
call that carried only this session's cookies or an expired access token.

### ChatHistory

`rows` and `revision` are the server's; a page is read in two statements. `view`
is what is displayed with its revision and checkpoint, `reads` the reads under
way, of which only the newest may publish; a submission is repeated with its key
until it is confirmed, then appended. `quiet` remembers that nothing changed since
a read began and is used by properties only.

### ContentStore, StudioDrafts

`ContentStore` is what a publication does to an owner's content, as functions:
copies of characters and of the lorebook are created, updated and deleted by a
mapping from the document's local ids, the product is composed and configured,
and a snapshot is taken. Texts stand for every field an editor writes.

`StudioDrafts` has the draft row and two devices that go through the requests of
`publishServerWork` one by one: read, put, prepare, publish. Each request begins by
locking the draft's key, the product and the draft, so it is one action; any answer
may be lost, and the device starts again from its local storage. The owner also
edits and deletes copies and publishes directly. A work published before mappings
existed is one of the initial states.

### MediaUpload, ContentTags, ReviewCases

`MediaUpload` has the files of one character. `media` rows and `object`s change
in separate steps under the row's lock (`mediaLock`), which the code keeps over
the store call. `Lose` is a client or worker whose database connection is gone:
its locks are free, and the call it had made joins `late` and reaches the store at
any later time. `recent` says that `updated_at` is within the cleanup's grace of
24 hours; `GraceEnds` is only possible while no upload attempt of the row is under
way or in flight, that is, **an attempt is taken to last less than the grace**.

`ContentTags` and `ReviewCases` have transactions that take their locks one at a
time, in the order of the code's statements, decide on what is committed then
and write at the commit. In `ContentTags` a lock is a component's row (exclusive),
a tag's row (shared) or the insertion of a name; one definition stands for the
three kinds of components, whose services and tables are alike. In `ReviewCases`
it is an advisory lock of a key or of a target, or a row. A foreign key's lock
counts as exclusive there, which only makes waiting more frequent. Nobody executes
actions in this code base; `Execute` is any executor.

## 3. Runs

Deadlock is checked except where bounded inputs let the system come to rest; the
`.cfg` says why.

| Run | Question | Distinct states |
|---|---|---|
| `answer_replay` | Two executions and a recovery loop work on one key, with lost acknowledgements, deaths and owner's edits. Is the provider asked once, is no call reported as not made, does the service implement its promise? | 875 k |
| `answer_recovery` | Execution, loop and operator compete for one run, the product version expires. Do credit and usage follow the outcome, does the attempt budget end in a quarantine only operators pass, is held credit resolved? | 120 k |
| `conversation` | Answers while the history is edited, summaries, retrieval, lore and prompts, and the display. Is a charged answer shown exactly once with its memory work requested, do the summaries tile a prefix of the current text, does an idle job owe nothing, are the prompt and the display whole? | 1.76 M |
| `answer_inputs` | The wallet under two transactions, prices and quotes, every history of up to five messages, the statistics under two writers and two jobs, and the statements of a report among those of one writer and one job. Sums, holds, bindings, prices, plans, reports. | 701 k |
| `work_queues` | Two memory workers and two mail workers that crash. Is every request and every mail resolved, are deliveries bounded and secrets cleared? | 326 k |
| `identity` | Two clients, two proofs, two sessions and two accounts of one address; two tabs of one browser. | 1.48 M |
| `content` | Two devices and their work, two files, two tag writers, two administrators. | 1.1 M |
| `memory_new_request` | *violation*: is a request that arrives during a claim always left claimable? | — |
| `media_retired` | *violation*: is a file that was retired for deletion out of reach of a retry? | — |
| `history_phantom` | *violation*: does the next synchronisation show the history? | — |
| `lore_diagnosis` | *violation*: is the studio's diagnosis the selection of the answer? | — |
| `token_replayed` | *violation*: is a spent refresh token never replayed after a lost response? | — |

**What the combined properties contain.** `SummariesAreSound`: `SummariesTile`,
`OneUnindexed`. `AnswersAreComplete`: `ShownOnceIfCharged`,
`AnswersRequestMemoryWork`. `QuarantineIsKept`: `ExhaustedIsQuarantined`,
`QuarantineHolds`. `SumsAreRight`: `BalanceIsMovements`, `ReservedIsBacked`,
`WithinCapacity`. `DealsStand`: `QuotesStand`, `HoldsFollowQuotes`.
`PlansAreSound`: `WindowsDecideAlike`, `TargetIsReachable`, `RefusedPromptsFit`,
`PromptIsWhole`. `MemoriesAreUsable`: `RoomIsUsed`, `VectorsAreComparable`.
`LoreIsWellChosen`: `OneOfEveryGroup`, `OldMessagesDoNotMatter`,
`SelectionIgnoresStorage`. `DisplayIsWhole`: `QuietReadsMissNothing`,
`ShownMessagesStay`. `SessionsAreSound`: `SessionsKnowThePassword`,
`ReuseEndsSession`. `MailIsSafe`: `DeliveriesAreBounded`, `SecretsAreCleared`,
`SettledStays`. `MediaStayWhole`: `ReferencedIsReady`, `ReadyIsStored`,
`DeletedIsGone`, `DetachedStays`. `DecisionsStand`: `EvidenceStands`,
`OneJudgementStands`, `OneReversal`. `LinksAreSound`: `LinksAreMeant`,
`AdminLinksStay`. `FactsAreSound`: `NothingOverAttributed`. `ReleasesAreTrue`:
`ReleaseShowsItsRevision`. Most also have the type invariant of their module.

**What the others say.** `answer_inputs`: a settled reservation is paid for once
(`PaidExactlyOnce`) and a hold has its binding or neither exists (`BoundTogether`);
a price is unambiguous, never below cost and less than a credit above what it has
to be (`PricesAreSound`); what the statements of a report read is exact of every day that
is neither pending at the end nor rebuilt between them, and a report of such days only
counts every committed fact, user and payment once (`SettledReportsAreExact`). `identity`: of two proofs the newest alone
works, once (`NewestProofWorksOnce`); an ended session never goes on
(`EndedSessionsStay`); tabs send no refresh token twice (`TokensAreSpentOnce`) and
a working session's token leaves the browser only with the answer to a login, a
logout or a call of other cookies, or is replaced by its own exchange with a newer
one (`CookiesAreKept`). `conversation`: a
pending answer keeps its input (`PendingInputIsCurrent`); memories in a prompt
are still memories of its history (`UsedMemoriesStand`); a prompt says everything
once, in order (`PromptSaysAllOnce`). `content`: a device overwrites only documents
it has seen (`EditsBuildOnSeen`); a request once answered keeps its answer and a
character its copy (`IdentitiesStay`); no set of publications and editors, and no
two administrators, wait for each other (`NoTagDeadlock`, `NoCircularWait`); no
action rests on a judgement that has been replaced (`ActionsAreGrounded`). The
violated properties are `NewRequestKeepsItsClaim`, `RetiredStays`,
`NextSyncShowsTheHistory`, `DiagnosisIsActual` and `FamiliesAreNotRevoked`, in the
order of the table.

**Bounds.** `MaxAttempts` is 2 instead of 5: the hazards are at the first, a
middle and the last attempt, and with 2 the first is the middle one (1 in
`conversation`, which is not about recovery). `MaxHistory`, `MaxRequests`,
`MaxSourceRevision`, `MaxManual`, `MaxUsers`, `MaxHashes`, `MaxRotations`,
`MaxRotation`, `MaxRevision`, `MaxId`, `MaxSubmitted`, `MaxSnapshots`, `MaxEdits`,
`MaxRewinds`, `MaxSaid` and `MaxTime` bound how often someone may do what may always
be done again; each is at least what a stale reader needs to meet a newer state.
`MaxClaims` bounds the deaths of memory workers: a claim from that attempt on is
not overtaken. The code has no such bound (the claim at `memory/repository.py:374`
does not look at the attempt count), so `WorkIsResolved` is relative to workers
that do not die for ever. Claim tokens are as many as can be held at once plus
one; a fresh UUID is any that nobody holds. `Amounts` up to 2 with `MaxCredit` 3
reach both a full wallet and one whose free credit does not suffice. The sizes 1
and 3 with a batch of 2 include a message larger than the batch. A page of history
is one row, so that every history takes several pages. Two works of the studio
are published, which reorders the cast and drops the lorebook between releases;
a third takes part where drafts are only saved, which needs a third revision
that differs from both. After a rewind one memory more is written before the
search that must not use the old ones. The requests on tags name two tags in both orders and share
characters between two products; those of moderation can close a circle of
three duplicates, replace one assessment twice, ask for an action on a judgement that
found nothing, and revoke one action twice, on judgements of different targets, so that
only the row lock of the action keeps the two apart. The statistics have two days, one
payment and two writers and jobs. With reports there are one writer and one job at a
time, and not both while a report is under way: a report reads only what is committed,
and the facts of a claimed day do not change until it is rebuilt, so that nothing is
lost by letting one of the two wait, and commits of either kind still come between the
statements of a report in any number and order. Its range is both days, and sales are
of the smallest amount. Sets
of actors, keys and files that are not told apart are symmetric in the safety runs
and not in those with liveness.

**Fairness.** Assumed only for what the deployment keeps running.
`answer_recovery`: the loop of `main.py:215` repeats its scan for ever and survives
its exceptions (weak fairness of `Scan` and `Complete`); it claims a run that is
due again and again (strong fairness of `Claim`, since replays may take the run
in between); leases and backoffs end. Nothing is assumed of clients, operators
or of any transaction's success. `work_queues` (`MemoryFairness`, `MailFairness`):
the workers poll for ever and are restarted, leases and backoffs end. A worker may
still die in every step of a mail attempt.

### What the runs found

* `memory_new_request`: `fail_memory_work` (`memory/repository.py:481`) marks the job
  failed although a newer generation was requested during the claim, while
  `memory/ARCHITECTURE.md:124` promises such a request the next claim. Completing
  a claim does look at it (`:446`). `IdleOwesNothing` is therefore about idle
  jobs, and `WorkIsResolved` lets a failed job end a request.
* `media_retired`: `reserve_upload` (`media.py:158`) sets a row to pending that it
  read without its lock, and so may take back a row that `prepare_cleanup` has
  retired "to reject future attachment/replay". If a delete call of a lost
  cleanup then arrives late, a row that became ready again has lost its
  object; `ReadyIsStored` excepts such `revived` rows and holds for all others.
* `history_phantom`: a late answer to a save whose message another device has since
  rewound is appended under the revision that a synchronisation has already
  brought (`web/lib/chat-history.ts:116`). Later synchronisations find nothing new
  and leave it there. `QuietReadsMissNothing` is therefore about messages that are
  missing or outdated, not about ones too many.
* `lore_diagnosis`: entries of equal priority and order are ranked by their ids,
  which differ between a draft and its published copy, so the diagnosis of a draft
  may show another entry of an exclusive group than answers will use.
* `token_replayed`: `login` removes the mark of uncertainty that another tab has set
  for its exchange of the new session's token (`web/lib/api.ts:194`); if that
  exchange's answer is lost, the spent token is sent again and the session ends.
  `TokensAreSpentOnce` says that nothing else leads there.

## 4. Proofs

| Module | Proves about | Lines of argument |
|---|---|---|
| `FiniteSums` | finite sets, sums, sorted lists | a library for the others |
| `AnswerProofs` | `AnswerGeneration`, `AnswerPromise`, `MemoryRetrieval`, `ChatHistory`, `LoreSelection` | ownership of the unguarded gap; the budget; the history; what a greedy choice leaves; what was once read; the best of every group |
| `BillingProofs` | `CreditLedger`, `CreditConservation`, `PriceQuotes` | every view of the ledger is sound and extends the committed one; attempts fit the stored quotes and holds |
| `StatisticsProofs` | `ProductStatistics` | what is locked stays as it was read; what a report has read of a settled day; days add up |
| `IdentityProofs` | `Accounts`, `TabSessions` | rows that change together; where a spent token can be; who may still bring or drop a token |
| `WorkQueueProofs` | `SummaryPlanning`, `ContextCompaction`, `MemoryWork`, `MailDelivery` | windows are suffixes; what the owner of a job relies on; the load of a mail |
| `ReviewProofs` | `ReviewCases` | guards of a judgement; the order of the locks |
| `ContentProofs` | `MediaUpload`, `ContentTags`, `StudioDrafts` | which calls to the store may still come; what a held lock preserves; what a mapping names |

No assumption is made but the named `ASSUME`s of the modules, which state types,
disjointness and finiteness of constants, and that there are more claim tokens
than holders. All of them are evaluated by TLC in the runs.

**Induction and sums** (`FiniteSums`). The provers cannot use the induction
theorems of the library, which have an operator as parameter. Two substitutes
carry all that follows. Over a finite set: collect the subsets of which the claim
is wrong; if there is one, one of least size exists (`SmallestBad`, from the
well-foundedness of the naturals), and taking an element out of it gives a smaller
one. And a sum over a set, which the community modules define by a fold, is shown
to be the one function that is 0 of the empty set and grows by an element's value
with the element (`SumStep`, `SumWith`); sums of parts, of equal functions and of larger ones
follow. The models state their sums through it: tokens of a history, movements
and holds of a wallet, amounts of a day.

**Answers** (`AnswerProofs`). `TypeInv` adds to `TypeOK` where actors stand
(`Placed`: an actor at work has a key, and its plan is one of the outcomes of the
step it comes from). `CalledAtMostOnce` is not inductive: an execution that
stands at the call says nothing about others that could. `SafeInv` is about the
gap no transaction covers, from the moment "calling" is durable until a result is
staged: whoever is in it owns the run's token, so no one else is in it; before the
call nothing was called, after it exactly one call was; and a row whose phase is
still before "calling" has never been called, which is what lets a recovery report
a run as never asked. A step either touches none of this (`Quiet`) or is one of
reserving, staging and calling, or finalizing, and each is a lemma.
`BudgetKept` extends "exhausted is quarantined" to settled runs and says that a
run which has not begun is not quarantined, since beginning one resets both. The
claim, which counts before it tries, is the only step that uses a budget up.
`HistoryInv` is about the conversation: one answer at most is owed and its input is
the last message at its revision; only a run that succeeded shows messages, and
then in exactly one place while its history stands; and there are at least as many
requests for memory work as standing answers.

**Memories** (`AnswerProofs`). The ranking orders all memories there are
(`BetterOrders`), so that every set of them has a last one (`LastInRank`) and the
greedy choice, which asks of every memory what was taken before it, has exactly one
outcome; it keeps both limits, and one that it passes over would not fit beside all that it
took. Listing the chosen in the order of the history changes neither their number
nor their sizes. The rest is what a lookup relies on while its conversation goes on
(`RetrievalInv`): memories are of the history they stand in (`MemoriesFit`), the vectors it
compares are of the provider that embedded its query (`Comparable`), and while the
revision it read is the current one, what it found is still there (`StillStands`),
since only a rewind deletes and an indexed memory is not indexed again.

**Display** (`AnswerProofs`). A browser holds rows of the past: in the display, in
reads under way, in the answer to a save. Of all of them one thing stays true whatever
others write (`KnownTo`): no id is ahead of the server's and no revision ahead of the row's.
So a merge, which keeps the greater revision, never loses a row that is still
stored, and a write never brings back a row that was known (`Later`). `Covers` says that
up to a checkpoint nothing is missing or outdated. It is claimed of a display or a read
only while its revision is the server's, which is why a page may be read in two
statements: when the history changes between them, the read is labelled with a
revision that has passed. Beyond its checkpoint a read has nothing but what it went on from, and there
the comparison of row revisions finds what differs (`PageJoinedFits`). That a read
shows all that is displayed and still stored (`Keeps`) is about the newest read, of
which there is one at most: whatever else would change the display supersedes it.

**Lore** (`AnswerProofs`). Priority, order and id rank the entries of a book with
options, the stored place those of one without: a strict order of all places either
way (`LoreIsRanked`), and a strict order of finitely many lists them in exactly one way,
so that `Ranked` means something and only one thing (`RankedInOrder`). Walking down
that list, the selector has at every place what follows from the ranks alone: taken
are the wanted entries seen so far that are the best of their group, and the groups
taken are theirs (`HasBest`, `JudgedKeepsBest`). At the end that is
`OneOfEveryGroup`, with no trace of the walk. An entry looks no further back than its
depth, a depth is at most `RecentLimit` (`LoreAssumption`, from `validate_options` and
the number of messages an answer reads), and the last of the last messages are the
last ones (`LastOfLast`): older messages leave no trace. Of a copy stored the other
way round the ranking is the mirror of the book's, and the two walks mirror
each other step by step (`WalksMirror`). For the prompt, `JoinedLines` says what each line
of `build_prompt` is by its number; that everything is said once is then arithmetic
about the numbers (`LinesSayAllOnce`). The inductive invariant is `LoreInv`: the types
of book, ids, messages and choices, and that the last prompt says all once. What was
selected is a function of the state and needs no memory of how it came about.

**Ledger** (`BillingProofs`). An operation is a function on ledgers, so the
argument is first about ledgers: every operation keeps a ledger `Sound` (typed,
holds covered by balances, within capacity, one consumption per committed part,
settlement keys distinct, and `Balanced`: balances are the sums of the movements
and reserved credit the sum of the open holds) and only `Extends` it (settled holds
and movements stay). It is then about transactions. `WithinCapacity` or
`PaidExactlyOnce` of the committed ledger alone is not inductive, since a commit
publishes a session's view; `LedgerInv` says that every view is sound, that what a
savepoint would restore is too, that exactly the request being bound is `Loose`
between reservation and binding, that a view under the lock extends the committed
ledger, and that one session at most has the lock. Whoever commits is that session,
so its view extends what the others committed.

**Quotes** (`BillingProofs`). About prices there are lemmas, of every validated
book: the ranges of two tiers do not meet (`OneModelFits`), and rounding up finds the
least number of credits that is not below the greater of the policies' price and the
cost floor (`RoundedUp`, `FinalIsFair`), whatever the policies did. `PriceInv` then
says that a stored quote is one of its key and fair, that a hold is for the quote
stored with it, and of attempts, which have what they will commit: the quote of an
attempt is the stored one if there is one, its hold is for that quote (`DealFits`),
no two attempts are under way with one key (`KeysApart`), and no two quotes, stored
or held by an attempt, share an id (`IdsApart`). The last two are why a commit can
neither replace a quote nor bind one reservation twice. A new id is found by
counting (`IdIsFresh`).

**Statistics** (`StatisticsProofs`). `StatInv`: a fact that is written but not
committed fits the facts (`WrittenFits`), because whoever could use up its limit
waits for the same row; its writer marks its day before it commits (`Marked`); a
job holds its day (`HoldsDay`), so that what it has read in two statements is
still true when it writes (`ReadsStand`); and a day outside the queue has the rows
of its facts (`RowsAreBuilt`). `ReportInv` says what each statement of a report has
left in it: of a day that is neither pending nor rebuilt since (`Settled`) its rows, its
place among the roots and, when all days are such, its users are those of the tables
now (`RootsStand`, `RowsStand`, `UsersStand`). It is inductive because a day's rows change
only by a rebuild, which is remembered, and a day once pending is not settled again
without one (`ReportStays`, `ReportOvertaken`). So at the last statement a settled day is as in the
tables, and that a report of several days is then exact is arithmetic on sums and on
unions of users (`TablesAreExact`).

**Accounts and tabs** (`IdentityProofs`). A session that works ties an account, a
proof and a password together, so each step is first classified by what it does to
the account, to a proof and to a session. `AccountInv` has what the code relies on
between two transactions: a request knows the proof or the hash it goes on with,
only a verified account has working sessions, and what was presented to a working
session is older than its newest token. In the browser (`TabInv`) a token that is
not the newest is in the jar only while the mark of uncertainty stands and nobody
is about to send it; the Web Lock itself is not needed for `TokensAreSpentOnce`,
only the mark it protects. `CookiesAreKept` needs to know of every answer on its way, however
late, what it was asked with (`CookieInv`): one that deletes cookies is a logout's or found
over the family its own call carried, which stays over; one that brings a token brings
one of the family it spent or of a family just begun, and that token is newer than any other of the
family in the jar or in a call (`NewTokensAreAlone`). The last follows from the
tables: a token is spent only when it is the newest, and no token anywhere is newer
than its family's number (`TokensBounded`).

**Work queues** (`WorkQueueProofs`). *Plans.* What a target leaves unsummarised
is a suffix; the two windows that are read hold all of the protected suffix and
the batch that precedes it, so that they decide as the whole history does
(`WindowsDecide`). `PlanInv` adds to `PlansAreSound` that every target set for a
refused prompt lies before the protected messages and that reaching it makes the
room. *Memory jobs.* That summaries tile a prefix of the text is not inductive: a
worker writes the range that it planned several steps before. `MemoryInv` says
what the owner of the job relies on at each of its steps (`OwnerKnows`: its range
begins where the summaries end, nothing waits for an embedding unless it is its
own, and if it is the last step of all requested work then nothing will be owed),
that no two workers hold one claim, and that an idle job owes nothing. An edit
takes the claim away, and a new request only takes back the promise that nothing
will be owed. *Mail.* How often a mail was accepted is not inductive: after its lease is
over a mail may be with several workers, each of which may still send it.
`LoadIsCounted` counts them together: the deliveries and the claims that may still
deliver are within the attempts the row has counted, so that the claim, which
counts before it sends, keeps them within `MaxMailAttempts`.

**Moderation** (`ReviewProofs`). A request walks along a fixed sequence of locks,
reads and writes. When it passes the step where it judges it holds the guards of
everything it judges, and two requests hold no guard in common, so that a
judgement is still right at the commit (`ReviewInv`). The same walk with a rank
for each lock shows that two administrators never wait for each other; the
evidence that a chain of duplicates is finite and leads to an original comes from
the closure of the set of reports that lead to one.

**Media and tags** (`ContentProofs`). `MediaInv` says who is at which step of a
medium whose lock he has or has lost, and which calls of lost connections may
still reach the store (`StepsFit`, `MediaRowsFit`); `ReferencedIsReady`,
`ReadyIsStored` and `DeletedIsGone` are inductive with it. `TagInv` says that a
transaction is at a place of a sequence sorted by one order, and that what it read
of the rows and names it holds is still so. A set of transactions that wait for
each other would have a member whose awaited lock is the greatest; it can be
waited for by none of the others (`NoTagDeadlock`, about sets of any size;
`NoCircularWait` is about pairs).

**Studio** (`ContentProofs`). That a release shows its revision is not inductive:
a mapping that named one row for two characters would let a publication write one
over the other. `MapsContent` says that a mapping names each row for one key and
none that was never used, and that every live entry is named. `Composes` says that
the composition has no row twice and the newest snapshot is the last one. Then the
functions of `ContentStore` are taken one after the other (`CharactersWritten`,
`EntriesWritten`, `EntriesDropped`): new rows are the keys' own (`NewIdsAreOwn`, from
a bijection between as many ids), rows of other keys stay, entries that left the
document are gone. What is then frozen is the document (`FrozenAsExpected`,
`AfterPublication`). Edits in other editors end rows or change values but give no
key another row (`MapsStays`). `DraftFits` puts this beside the draft: its receipts
show their revisions (`ReceiptsHold`), and a work that has a release but no mapping
still is what the old studio left, so that its copies are recognised by position and
title (`AdoptedFits`). Of a device that is about to save, `PutFits` says that the
revision it read was the one of the document it has seen, unless the draft has
moved on, in which case its save is refused.

| Theorem | Property |
|---|---|
| `TypeCorrect`, `LedgerTyped` | `TypeOK` of `AnswerGeneration`, of `CreditLedger` |
| `ProviderCalledAtMostOnce` | `CalledAtMostOnce` |
| `ReportsAreTrue` | `UncalledMeansUncalled` |
| `CreditFollowsOutcome` | `SettledWithOutcome` |
| `OutcomesAreFinal` | `TerminalIsFinal`, which `ImplementsPromise` implies in the runs |
| `PromiseIsKept` | `ImplementsPromise` (refinement of `AnswerPromise`) |
| `BudgetEndsInQuarantine` | `QuarantineIsKept` |
| `DeliveredAnswersAreComplete`, `PendingInputStaysCurrent` | `AnswersAreComplete`, `PendingInputIsCurrent` |
| `RetrievedMemoriesAreUsable`, `UsedMemoriesAreCurrent` | `MemoriesAreUsable`, `UsedMemoriesStand` |
| `DisplayStaysWhole` | `DisplayIsWhole` |
| `LoreIsChosenByRank`, `PromptsSayAllOnce` | `LoreIsWellChosen`, `PromptSaysAllOnce` |
| `ReservationsPaidOnce`, `ReservationsAreBound` | `PaidExactlyOnce`, `BoundTogether` |
| `SumsStayRight`, `CapacityHolds` | `SumsAreRight` and its part `WithinCapacity` |
| `SettlementsStand` | `SettlementIsFinal` |
| `PricesStaySound`, `DealsLast` | `PricesAreSound`, `DealsStand` |
| `FactsStaySound`, `ReportsStayExact` | `FactsAreSound`, `SettledReportsAreExact` |
| `PlansStaySound` | `PlansAreSound` |
| `SummariesStaySound`, `IdleStillOwesNothing` | `SummariesAreSound`, `IdleOwesNothing` |
| `MailStaysSafe` | `MailIsSafe` |
| `OnlySoundSessionsWork`, `ProofsWorkOnce`, `SessionsEndForGood` | `SessionsAreSound`, `NewestProofWorksOnce`, `EndedSessionsStay` |
| `TokensAreNotReplayed`, `CookiesStay` | `TokensAreSpentOnce`, `CookiesAreKept` |
| `DecisionsLast`, `RequestsNeverWaitInCircles`, `ActionsRestOnJudgements` | `DecisionsStand`, `NoCircularWait`, `ActionsAreGrounded` |
| `PublishedMediaStay` | `MediaStayWhole` |
| `TagLinksAreSound`, `TagsNeverWaitInCircles` | `LinksAreSound`, `NoTagDeadlock` |
| `ReleasesShowRevisions`, `StudioKeepsIdentities`, `EditsAreSeen` | `ReleasesAreTrue`, `IdentitiesStay`, `EditsBuildOnSeen` |

**What the models owe to the proofs.** Where a definition was opaque to the
provers it was put in another form that TLC still checks against the same
faulty variants: sums through one function (`SumFunction`); sorted lists by what
they are (the one increasing list of a finite set of numbers) rather than by a
sort; the original of a duplicate by a closed set of reports rather than by
recursion; the table `Plan` of the memory worker as a function of one argument after
the other; the loops of a publication over characters and entries by what they leave
(`WithIds`, `WithRows`, `WithoutEntries`: every key without a row gets one of its own,
every named row gets its value), which also leaves open the order of rows
that nothing reads; the greedy choice of memories by the one set of which every member,
and no other memory, fits beside the better members (`Chosen`), where the code walks
down the ranking; the ranking of lorebook entries by the one list that is in order
(`Ranked`), the walk over it by a recursive function, and the history of a prompt by
its numbers, which the input ends; a price that the policies leave without meaning is one that is no
natural number. Assumptions were missing: `MemoryAssumption` now says that a claim
finds a token nobody holds, `QuoteIdsAssumption` the same of the id of a quote
(both are UUIDs in the code), `NoFactAssumption` that `NoFact` is no fact,
`BookAssumption` that the numbers of a price book are numbers,
`RetrievalAssumption` that memories are finitely many and the limits numbers,
`LoreAssumption` that books are lists and their priorities and orders numbers, and
`ContentAssumption`, `NoneAssumption` and `StudioAssumption` that the rows, documents
and numbers of the studio are distinct from the marks for their absence, that ids are
as many as keys, and that there is a model.

**Only model-checked.** Liveness (`HeldCreditIsResolved`, `WorkIsResolved`,
`MailIsResolved`): fairness and ENABLED are out of the prover's reach. Every safety
property of a passing run is stated by a theorem above, with its type invariant where
the proof needs one; the type invariants that no theorem lists are conjuncts of the
inductive invariants or are checked by the runs. The order in which policies are applied
to a price is a fold of the library's, of which nothing is provable for every input: the
theorem on prices holds for every outcome of theirs. Properties of the *violation*
runs are, by their nature, not theorems.

## 5. Not modelled

*Whole parts.* Admin authorization (permission checks per request, no protocol
state beyond roles), LLM routing and providers (their outcomes are choices of the
callers), operations reporting (read-only queries), the web pages and the admin
client (forms and lists: they appear as clients that send any request), migrations
(one-time scripts), parsing and status codes of HTTP.

*Parts of modelled components.* Creating, listing and archiving conversations;
the state of an OAuth flow and the counters of rate limits; account history
queries, several currencies and data of older schema versions in the ledger;
scenes and listings of characters and lorebooks; release notes; the scheduling of
the expiry of snapshots, which is an event of `AnswerGeneration`; the second `PUT` of
`saveServerWork`, which stores the ids of uploaded media in the document under the
revision of the first (`studio-server.ts:100`: like any save, with another payload); templates and
wording of prompts; the steps inside the asset storage adapters. Nothing in the
repository executes a requested moderation action.

*Hazards seen and left out.* `change_product_status` takes `FOR SHARE` on a row it
then writes, so that two administrators who change one product may deadlock and
one of them is told to repeat. The memory worker claims outside the `try` of its
loop, so that an error of the claim ends the process (`memory_worker.py:149`); its
restart is the deployment's. A job whose worker dies at every attempt is claimed
again without end (`memory/repository.py:374`).

## 6. Plan

1. Abstract specifications: a queue that settles every request at most once and
   eventually, implemented by `MailDelivery` and `MemoryWork`; "a settled day shows
   every committed fact" as a specification that `ProductStatistics` implements.
2. Compositions: publication with the freezing of media and with the tags of what
   it publishes (now one module each); a version switch during publication.
3. The status change of products by administrators and owners, with its shared
   locks; the state of OAuth flows; creating and archiving conversations.
