# Agentic Graph RAG: verification

TLA+ models of the Agentic Graph RAG platform (FastAPI, a background worker,
MySQL, MinIO, Qdrant, Neo4j and a React front end), the TLC runs that check
them and the theorems TLAPS proves about them.  Paths below are relative to the
repository root (`src/worker.py` is the Python package's `worker.py`).

Three parts are modelled.  Ingestion: uploads, document deletions, account
deletions and the worker, over the tables and the three stores they share.
Accounts: login sessions, reset links and account status, with the requests that
use them.  The front end with the handlers it calls: the documents page, the
conversations and the turns of the chat page, the support page, the users page,
and who is signed in.  Section 8 lists what is left out.

## 1. Inventory

| component | state it keeps | operations | correct when |
|---|---|---|---|
| Ingestion worker (`src/worker.py`) | job and document status; what it has written to Qdrant and Neo4j; an open read snapshot | reclaim, claim, load, read, index, re-check, take back, commit | every job settles once; nothing is resurrected; no orphan |
| Documents API (`api/routers/documents.py`) | rows and blob of a document | upload, delete (three attempts), list, content | the row is the source of truth: no row without a file, no trace without a row |
| Account deletion (`api/routers/admin.py`) | every row and trace of an account | clean the stores, delete the rows | nothing of the account survives |
| Indexers (`ingestion/qdrant_indexer.py`, `neo4j_indexer.py`) | points keyed by chunk hash, edges keyed by the fact; both tagged with one document id | upsert or merge, delete by document | a ready document is found by its own id |
| Object storage (`storage/minio_client.py`) | one object per document | put, get, delete | an object exists while its row does |
| Authentication (`api/routers/auth.py`, `auth/deps.py`) | sessions, reset tokens, `is_active` | register, login, logout, expiry, forgot, reset, ban | a reset or a ban ends every session; a link works once |
| Conversations (`services/conversations.py`, its router) | conversations, messages, query logs | create, streamed turn, blocking turn, delete | a reply stands beside its question, in a conversation that exists |
| CRAG agent (`agents/`) | none between requests; the graph state within one | validate, retrieve, rerank, grade, rewrite, web search, generate | it ends within the retry bound; degraded paths are reported |
| Retrieval pipeline (`pipeline/`) | none (pure over the stores) | hybrid search, interleave, dedupe, rerank, evaluate | one failed source does not lose the other |
| Support (`api/routers/support.py`) | ticket status and messages | create, reply, resolve, reopen | a reply reopens what it should |
| Query cache (`main.tsx`, @tanstack/react-query) | per query key: data, a stale mark, one fetch | mount, refocus, poll, invalidate, write, arrive, fail | a refetch brings what the change before it did |
| Chat page (`pages/Chat.tsx`, `lib/api.ts`) | active thread, draft, streamed text, two queries | send, stream, switch, delete, auto-create | what is shown belongs to the thread and the document shown; no answer is lost or doubled |
| Documents page (`pages/Documents.tsx`) | the cached list | poll, upload, delete | it polls until all has settled; at rest it shows the truth |
| Support page (`pages/Support.tsx`) | filter, open ticket, reply box, polled lists | reply, resolve, reopen, create | a text is sent once; the list catches up |
| Users page (`pages/Users.tsx`) | the list, open details, the dialog | ban, unban, delete | at rest it shows the truth; the last word counts |
| Sign-in (`context/AuthContext.tsx`, `components/Routes.tsx`, four forms) | user and loading of each tab; two cookies for all of them | check, log in, register, reset, log out, reload | a tab shows the user its requests are sent as |
| Dashboards, listings, home, profile, UI kit, email, configuration, CLI, app shell, deployment | none or read-only | | see section 8 |

How they interact.  The browser calls the API through nginx.  A handler runs in
one SQLAlchemy session (`autoflush=False`, `expire_on_commit=False`, MySQL at
REPEATABLE READ), and calls the stores in between.  The API and the worker share
no memory: an upload leaves a `queued` row in `ingestion_jobs`, which the worker
polls.  MySQL's foreign keys cascade from accounts to documents to jobs; nothing
cascades to MinIO, Qdrant and Neo4j, so each handler cleans them by hand, before
its row transaction (accounts) or after it (documents).

What is hard.  Indexing takes seconds to minutes, during which the document or
its account may be deleted; the worker's read snapshot hides that deletion until
it is ended; a commit may be refused outside any `try`; a request rewrites
`last_used_at` of its session when it commits, so losing the session makes the
commit fail; the worker may stop anywhere and its job is found by age only;
points and edges are keyed by content and tagged with one document.  In the
browser every answer may arrive after the page has moved on: a list is read
before a change and arrives after it, an invalidation meets a first fetch that it
does not replace, a mutation outlives the page that started it, an answer is
lost after the server has committed, and several tabs share one session cookie
of which none is told.  The full list, line by line, is under `hazards` in
`PROJECT.json`.

## 2. Modules

| module | what it is |
|---|---|
| `DocumentLifecycle` | the abstract promise about one `documents` row: uploaded once, settled once, removed for good, never pending for ever |
| `IngestionState` | constants with their assumptions, the shared variables, what the stores' deletions do, `Init` |
| `DocumentsApi` | `upload_document` and `delete_document`, one action per effect another process can see |
| `AdminDeletion` | `admin_delete_user` |
| `IngestionWorker` | `worker.py`: `drain`, `process_job`, `_reclaim_stale_jobs`, the restart |
| `Ingestion` | the three above interleaved; fairness, invariants, refinement, liveness |
| `MCIngestion` | files, owners and facts for TLC |
| `IngestionProofs` | the theorems about ingestion |
| `Accounts` | `auth.py`, `get_current_user`, `admin_set_user_status`, the rows of `admin_delete_user` |
| `Permits` | the abstract promise about access: a request is let in once, by a permit that its first writing spends and that a ban, a new password or the deletion of the account withdraws, all of an account at one instant; the reply of a turn, and the deletion of a document because it may be tried again, have a permit that only the deletion of the account withdraws |
| `MCAccounts` | the symmetry TLC uses |
| `AccountsProofs` | the theorems about accounts |
| `QueryCache` | what the pages rely on of the query cache: one entry, its fetch, its stale mark.  External: modelled from how the pages use it and from the options in `main.tsx` |
| `DocumentsPage` | `Documents.tsx`, and `UserDashboard`, over an INSTANCE of `DocumentLifecycle` as the server |
| `ChatThreads` | the threads of `Chat.tsx` with both its effects, and the conversation handlers |
| `ChatTurns` | a turn from the form through `streamChat` and `stream_conversation_turn` to the messages shown |
| `SupportDesk` | `Support.tsx` and `support.py` |
| `UsersPage` | `Users.tsx` and the handlers of `admin.py` it calls |
| `SignIn` | `AuthProvider`, the guards, the forms, the log-out and the CSRF interceptor in several tabs |
| `MCDocumentsPage`, `MCChatThreads`, `MCChatTurns`, `MCSupportDesk`, `MCUsersPage`, `MCSignIn` | names and symmetry for TLC |
| `QueryCacheLaws` | what the operations of a cache entry keep, stated once; each proofs module of a page proves the laws it uses |
| `DocumentsPageProofs`, `ChatThreadsProofs`, `ChatTurnsProofs`, `SupportDeskProofs`, `UsersPageProofs`, `SignInProofs` | the theorems about each |

`Ingestion` and `Accounts` meet in two places.  Each has the deletion of an
account, one with its stores and one with its sessions.  And the failure kind
`logout` of `Ingestion` stands for what `Accounts` shows in detail: the session
of a request may end before the request commits.

`DocumentsPage` takes for its server the abstract `DocumentLifecycle`, which
`Ingestion` is shown to implement: what the page shows is checked against what
the worker and the handlers together promise, not against their every step.
`ChatThreads` decides which threads exist and which is on screen; `ChatTurns`
lets both change at any time and looks at the messages; the end of a turn is
`TurnEnds` in the first and `TurnDone` in the second.  `SignIn` keeps the cookie
and the page, `Accounts` the rows behind them: whether the server accepts a form
is decided in `Accounts` and left open in `SignIn`.

### State against code: ingestion

| variable | code |
|---|---|
| `userRow` | a `users` row exists |
| `docRow` | `documents.status`; `none` before the insert, `gone` after the delete |
| `job`, `jobId`, `nextId` | `ingestion_jobs.status`, its id, the AUTO_INCREMENT counter |
| `stale` | running jobs whose `started_at` is past `STALE_RUNNING_MINUTES` |
| `blob` | documents with an object in the bucket |
| `points`, `rels` | payload `document_id` of each Qdrant point, `r.document_id` of each Neo4j edge |
| `up`, `del`, `tries` | where the upload and the delete request of a document stand |
| `adm` | where the deletion of an account stands, with the documents it listed |
| `wpc`, `wdoc`, `wchunks`, `wtriples`, `wout`, `taken` | where the worker stands in `drain` and `process_job` |
| `view` | what the worker's open snapshot shows of the document's row |
| `lost`, `outages` | history, in no code: the documents an injected failure excuses, and the number of outages |

A step of the model is what happens between two effects another process can
see.  In `upload_document` these are the object and the row transaction; in
`delete_document` the row transaction and the three cleanups; in the worker each
upsert batch, each `MERGE`, and each commit.  Reads inside a transaction use
`view`, which `Load` opens (`db.get`), the commit of line 98 closes
(`EndSnapshot`) and the re-check of line 103 opens again (`Recheck`).  Writes act
on current rows; an UPDATE that matches no row raises `StaleDataError`, and so
`CommitRefused` is a guard on the current rows.

### State against code: accounts

| variable | code |
|---|---|
| `account` | the `users` row and its `is_active`; `none` before registration, `gone` after deletion |
| `pw` | `users.password_hash`, as the request (registration or reset) that set it |
| `sess`, `expired` | `sessions` rows, named after the request that inserted them; those past `expires_at` |
| `login` | a register or login request: where it stands, its account, the password it verified |
| `link`, `old` | a `password_reset_tokens` row (`used`: `used_at` is set); those past `expires_at` |
| `reset`, `req`, `change` | a reset request, a request under a session, a status request: where it stands, what it read |
| `kind` of a `req` | what its handler does: it writes `once`, it is a streamed `turn`, or the `deletion` of a document |
| `pw` of a `link`, `pw` of a `req` | history: the password when the link was inserted, when the request was let in |

A handler takes two steps: it reads its snapshot, and later (after argon2, after
its work) commits against the rows as they are then.  What the commit sees is
what MySQL evaluates then: foreign keys, the unique address, the `WHERE` of a
bulk delete or update.  What it does not see is what the handler tested before.
A row object is written only where an attribute differs from the value loaded,
hence `differs` in `StatusCommit`.

`get_current_user` assigns `last_used_at`, so the first flush of every
authenticated handler also updates the row of its session; if that row is gone,
SQLAlchemy finds no row to update and raises `StaleDataError`, and nothing of the
handler is written.  `Commit` is the transaction of that flush.  What comes after
it does not write the session again, and so nothing checks it but the foreign keys:

* A streamed turn commits its question (`conversations.py:128`) and later its
  reply (146, 168 or 201): `Commit` leaves it `halfway`, `CommitAgain` stores
  the reply, which needs the conversation, hence the account.  `GiveUp` is a
  conversation that was deleted meanwhile, or a turn that stops.
* `delete_document` tries again after a lock wait (`documents.py:193-203`).  The
  rollback forgets `last_used_at`, and the bulk delete, in which the wait may
  happen, comes before the flush.  `LockWait` leaves the request `retrying`,
  `CommitAgain` is a later attempt that succeeds, `GiveUp` the 409.

`requirements.txt` bounds FastAPI only from below (0.111).  Before 0.118 the commit at
the end of `get_db` runs before a streamed body does, so that it takes the write
of the session with it and the whole turn, its question too, is unguarded by a
revocation between the two.  The model covers both: such a turn is `halfway`
before its question.

Left out: failed logins (nothing is written), tokens and hashes (unguessable by
assumption), cookies and CSRF, the mail itself.  An address is registered
successfully once.  The administrator's own session is taken to last.  A session
is used, or logged out of, only once its login has answered.

### State against code: the pages

An entry of `QueryCache` is one query key: `data` (or `NoData`), `stale`, and one
`fetch` that is `asked`, `served` (the server has read its rows, which are in
`answer`) and then arrives.  Between served and arrived the server may change,
and that is where the hazards of the pages lie.  `invalidateQueries` marks the
entry, and fetches at once what is on screen: a fetch under way is dropped for a
new one, unless it is the very first, which is joined (`AskAgain`); its answer
then clears the mark.  The models note such a change, and every change of which
no refetch was due (a lost answer, another administrator), in the history
variable `unheard` until the list is next read.

| variable | code |
|---|---|
| `row`, `live`, `docRow`, `status`, `said`, `log` | the rows on the server: users or documents, conversations, the document, tickets, their messages |
| `list`, `convs`, `msgs`, `lists` | the cache entries of `['documents']` or `['admin-users']`, `['conversations']`, `['messages', id]`, `['support-threads', isAdmin, filter]` |
| `up`, `del`, `create`, `delete`, `turn`, `post`, `patch`, `opening`, `change`, `removal`, `req` | a request: where it stands (`sent`, read or committed, `done`: answered by the server), what it carries, what its handler has read |
| `watched`, `creating`, `sending`, `submitting` | the mutation whose `isPending` the mounted page observes (useMutation observes its latest call), or the form's `isSubmitting` |
| `page`, `mounted`, `where`, `active`, `filter`, `draft`, `selectedId`, `deleteTarget` | what is on screen: `useState` and the router |
| `auto`, `mine` | `autoCreatedDoc`; the mutations this visit started, whose `onSuccess` may still set its state |
| `isError` | `usersQuery.isError` |
| `sessions`, `cookie`, `csrf`, `user`, `loading`, `me` | `sessions` rows; the two cookies all tabs share; `user` and `loading` of a tab; its `GET /auth/me` |
| `unheard`, `spent`, `behind`, `twice`, `since`, `after` | history, in no code: what a page was not told of; that the one automatic thread of a visit came to nothing; texts whose answer was lost; replies begun since a resolution; rivals of a status change |

A step is one callback, one effect with the render that triggers it, or one
transaction.  What an effect does is part of the action that makes it run: the
two effects of `Chat` run in every action that changes the list or the document
(`Pinned`, `AutoCreate`).  A handler takes two steps where it decides on a row it
has read and commits later (`ReplyRead`, `StatusRead`), as in `Accounts`.
`delete_document`, the deletion of a conversation and the writes of a streamed
turn (`QuestionSaved`, `ReplySaved`) are one step each at their commit.

### Failures of the pages

| kind | what may happen |
|---|---|
| `fetch` | a list, or the pinned document, cannot be fetched, after the retry |
| `lost` | the server has committed and the answer does not arrive |
| `refuse` | the server fails, refuses (401, 403, 500) or is not reached, before it commits |
| `timeout` | nginx answers 504 while a deletion waits for its locks; the server goes on |
| `partial` | `admin_delete_user` answers 502 after it deleted the account |
| `removal`, `elsewhere` | not failures: the document is deleted in another tab; other administrators act, and people register |
| `agent`, `stream` | the agent or the database fails in a turn; the connection of a streamed turn is cut at any point |
| `age` | not a failure: what was fetched outlives `staleTime` (30 s); without it nothing does |
| `network` | a request does not reach the server |

Each module explores the kinds its `FaultKinds` lists.  What the code refuses by
itself needs no kind: a 404 for a thread or a document that is gone, a form
without its CSRF token.

### Failures of ingestion

`Faults` chooses which of these an instance explores.  None is ever forced.

| kind | what may happen |
|---|---|
| `parse` | the file cannot be read or parsed |
| `index` | an embedding, Qdrant, LLM or Neo4j call raises inside the `try` block, after any number of batches |
| `cleanup` | a store cannot be reached while it is cleaned; the code logs and goes on |
| `lock` | a lock wait or deadlock in a request's row transaction |
| `logout` | the session of a request is removed before its commit |
| `crash` | the worker or a request handler stops anywhere |
| `db` | MySQL refuses a statement of the worker outside the `try` block |
| `slow` | ingesting one file may outlast `STALE_RUNNING_MINUTES` |

The history variable `lost` holds a document once an injected failure has
skipped a cleanup for which the code has no second attempt: a failed store
cleanup, a handler that stopped or whose commit failed between the blob and the
rows, a worker that stopped while it still owed the re-check of a document
already gone.  `OrphansAreOwed` excuses these documents; failures inside the
`try` block are *not* excused.  The properties about the stores speak of the
documents of accounts that are not deleted (`Spared`): `admin_delete_user` cleans
the stores before it deletes the rows, so for its own documents none of them holds
(section 7).  That it does no harm to the documents of others is part of them.

### Time

No clock is modelled.  `GracePeriod(d)` says that `STALE_RUNNING_MINUTES` have
passed since the claim of `d`.  It is allowed only where that much time can pass:
while the worker is down, while it has nothing to claim (`Polling`), and, with
`slow`, while it holds a job.  It is not allowed between two jobs of a queue that
is not empty, because the worker leaves such a queue for
`POLL_INTERVAL_SECONDS` = 2 at a time.

### Abstractions

* One upsert batch (64 points) is one chunk; the triples of a file are a
  function of its content although an LLM extracts them.  What a second
  extraction might add is out of the model.
* Points and edges are present or absent with one tag; vectors, payload text,
  scores, entities without an edge and the collection itself are left out.
* An upload that fails validation, or that cannot reach the bucket, changes
  nothing and is not a step.  Every upload draws a fresh uuid, hence one upload
  per document.  At most one delete request per document runs at a time.
* A temporary file, the heartbeat file, the error texts and the counters of a
  job are left out.
* Pages: names, texts, titles, times and the order of lists are left out; "the
  first thread of the list" is any.  A document, a thread, a ticket or a session
  is named by the request that creates it.  A cache entry is never garbage
  collected.  One tab is modelled, and whatever other tabs do to the server is a
  step of the server; `SignIn` has several tabs.  All protected pages are one
  place in `SignIn`; Home is none; the CSRF cookie does not expire.

## 3. Properties

Ingestion:

* `TypeOK`: ranges and bounds, the attempt and cycle limits among them.
* `JobDocAgree`: document and job never disagree, whatever interrupts the worker.
* `RowHasAccount`: no row outlives its account.
* `OrphansAreOwed`: a point, edge or blob of a document that has no row is about
  to be removed, or about to get its row, by a process that is still running.
* `ReadyIsIndexed`, `ReadyIsInGraph`: a ready document has all its points and
  edges under its own id.
* `RowHasBlob`: while the row exists its file does.
  These four are about the documents of accounts that are not being deleted.
* `ImplementsLifecycle`: `docRow` refines `DocumentLifecycle`.
* `ImplementsFairLifecycle`: with its fairness too: no document pends for ever.
* `RemovedLeavesNoTrace`: after a removal the traces go and stay gone.
* `OthersSettle`: a job that can never be committed does not hold up the others.

Accounts:

* `TypeOK`: ranges; only existing sessions are expired ones, and none exists before its
  login has answered.
* `SessionHasAccount`: a login that verified its password before the account was
  deleted leaves no session behind.
* `OpenLinkIsCurrent`: a reset ends every link mailed before it, so an old mail
  never undoes a newer password, unless its request had begun (section 7).
* `RevokedBeginsNothing`: a request let in before a ban, a reset or a deletion of
  its account writes nothing after it, unless it had begun; and nothing at all is
  written for an account that is gone.  No line of the code says so: it rests on
  the update of `last_used_at` described above, and would be lost if that became
  a bulk update or a write-behind.  Had the request begun, the code goes on:
  the wider `RevokedWritesNothing` does not hold (section 7).
* `ImplementsPermits`: `Accounts` refines `Permits`.  Every handler reads, works
  and commits later, and yet each takes effect at one instant: a request holds a
  permit to begin while its session has a row, so the one transaction that
  deletes the rows withdraws all of them, and whatever commits late (a login, a
  link, another status change) brings none back.  Once it no longer writes its
  session it holds a permit that only the deletion of the account withdraws.

Pages.  Each module has a `TypeOK` that, besides the ranges, says what must agree
for the page to stay usable: a button or a form waits only for a request that is
still to be answered; in `SignIn` no protected page is on screen without a user
and no form with one.

* `QuietListIsTrue` (documents, threads, users), `QuietThreadIsTrue` (messages):
  when an entry is fresh, nothing is fetched and no request of the page is under
  way, what is shown is what the server has, unless the page could not know
  (`unheard`).  A missing, misplaced or overtaken invalidation breaks it.  For a
  document shown as being indexed the polling is what brings the rest.
* `ShownNeverGoesBack`: a document shown as settled is never shown as being
  indexed again, and a deleted one that left the list stays away: no answer is
  applied out of order.
* `SettledIsShown`: what is shown as being indexed comes to be shown settled.
* `ActiveIsOfPage`: the thread on screen is of the pinned document, or a general
  one when none is pinned, and there is one when the list has one.
* `DocumentGetsThread`: a visit with a document comes to show a thread of it.
  The code asks for one once in a visit, so the property leaves out the visits
  in which that try was spent in vain (`spent`: it failed, its answer was lost,
  or its thread was deleted again), the list could not be fetched, or an answer
  was lost or came too late for it (`unheard`).  What it says is that the effects,
  the fetches and the invalidations together miss no other visit.
* `RepliesHaveQuestions`: a deletion that overtakes an answer leaves no reply and
  no question behind, and no reply stands without its question.
* `NoQuestionTwice`: the page's copy of a question and the stored one are never
  on screen together.
* `SendingEnds`, `AnswerIsShown`: every send ends, whatever becomes of the
  stream; an answer that was streamed to its end is shown in its thread.
* `NoReplyIsBuried`: no ticket is left resolved with a user's reply that the
  server took up after the resolution.
* `TextIsStoredOnce`: a text typed into the reply box is stored once, although
  tickets, filters and answers change under it.
* `ListCatchesUp`: the polled list comes to show what the server has.
* `LastWordCounts`: a ban or an unban that has committed holds until a request
  for the other status commits that was not over when it was taken up.
  `admin_set_user_status` writes nothing when it loaded the status it wants, and
  lists of different age make administrators ask for what is already so.  Two
  opposite requests that overlap are left out: there the code does not keep the
  later one's word (section 7).
* `QuietUserIsTrue`: a tab that waits for nothing shows the user the server would
  name by its cookie.
* `RequestsAreOfUser`: what a tab sends is never sent as another account than the
  one it shows, not even while sign-ins overlap.

## 4. Runs

Passing runs ("every failure" is every kind the module's `FaultKinds` lists):

| run | instance | shows |
|---|---|---|
| `ingest_safety` | two accounts, one of them deletable, whose file is oversized, all failures but `parse` and `db` | `TypeOK`, `JobDocAgree`, `RowHasAccount`, `RowHasBlob`, `ImplementsLifecycle` |
| `ingest_indexed` | two files of their own, one of them oversized, no account deletions, every failure | `ReadyIsIndexed`, `ReadyIsInGraph` |
| `ingest_liveness` | shared fact, one crash or database error, slow ingestion, one job per cycle | `ImplementsFairLifecycle`, `RemovedLeavesNoTrace` |
| `ingest_queue` | two uploads that share a fact; the first never fits its column, ingestion is quick; no `index` failures and account deletions | `OrphansAreOwed`, `OthersSettle` |
| `accounts_safety` | two accounts, two logins, links and status changes, one reset, one request of any kind | `TypeOK`, `SessionHasAccount`, `OpenLinkIsCurrent`, `RevokedBeginsNothing`, `ImplementsPermits` |
| `documents_page` | two documents, every failure | `TypeOK`, `QuietListIsTrue`, `ShownNeverGoesBack`, `SettledIsShown` |
| `chat_threads` | two threads, one document; lists that cannot be fetched, creates and deletes that are refused, fail or lose their answer, a document removed | `TypeOK`, `QuietListIsTrue`, `ActiveIsOfPage`, `DocumentGetsThread` |
| `chat_turns` | two turns in one thread, every failure | `TypeOK`, `RepliesHaveQuestions`, `QuietThreadIsTrue`, `NoQuestionTwice`, `SendingEnds`, `AnswerIsShown` |
| `support_desk` | one ticket, user and administrator, two replies or a reply and a status change, two filters, every failure | `TypeOK`, `NoReplyIsBuried`, `TextIsStoredOnce`, `ListCatchesUp` |
| `users_page` | one account, two status changes, every failure | `TypeOK`, `QuietListIsTrue`, `LastWordCounts` |
| `sign_in` | two tabs, two accounts, two forms or log-outs, every failure | `TypeOK`, `QuietUserIsTrue`, `RequestsAreOfUser` |

One run contradicts what the repository says of itself: `ingest_oversized`
(section 7).

Bounds of ingestion, and why they are enough.  Two documents give every interference between
two documents the code has: a shared key, the order of the queue, one job
claimed while another is deleted.  No handler looks at more than one document
except `admin_delete_user`, which treats the documents it lists one by one.
`MaxJobsPerCycle` is 1 (4 in the code): with two documents a cycle ends at its
limit, and the next on an empty queue.
`MaxDeleteAttempts` is 1 or 2 (3 in the code): a first and a last attempt; a
middle one does what the first does.  `MaxOutages` is 0 or 1: a second outage
finds the tables in a state that one outage, or none, can leave.  Files are one or two batches long, so a
failure, a crash or a deletion can fall between two batches.  No symmetry is
used: `Owner`, `ContentOf` and the job order tell the documents apart.  No
ingestion run switches deadlock checking off: the worker polls for ever.

Bounds of accounts.  Every property speaks of one account and of one or two
requests, so two logins, links and status changes, over two accounts, give each a
rival on its own account and a bystander on another.  One reset and one
authenticated request are enough for what is checked: they read nothing that
another one writes, except that two resets may share a link, which is the case of
section 7 (`LinkWorksOnce`, with a second reset).  Requests of
one kind, links and accounts are interchangeable (no action or property names
one of them), so symmetry is sound; these runs check no liveness.  An instance has
finitely many requests, and when all have answered it stops: deadlock checking
is off.

Bounds of the pages.  The properties speak of one document, thread, ticket or
account and of the requests about it, and no handler looks at two, so the
instances are chosen for the interference: two documents, because the list is one
entry and the delete buttons are shared; two threads, because one is shown and
another created; two turns in one thread, because they share its entry (the
instance with two threads, 2.4 million states, was also checked, but takes
longer); two rival status changes of one account; one ticket with two replies,
or a reply and a status change, each of this tab or elsewhere (replies differ
only by their names, so a new one takes a fixed unused name).
Two tabs with two requests give each sign-in a rival in its own tab and in the
other.  The theorems of section 6 hold for any number of each.  The runs of pages
need no deadlock exception: a window can always be focused or a page left.
`sign_in` uses symmetry (it checks invariants only, and tabs, accounts and
requests are interchangeable).

Mutants of the code's definitions stand in the modules beside them ("Mutant of
..."), one at least for each property of a passing run; the pairs are under
`mutants` in `PROJECT.json`.  No specification uses one.

## 5. Fairness

`Accounts`, `UsersPage` and `SignIn` state no liveness and assume no fairness.  For
`Ingestion`:

* `WF(WorkerStep)`: `main` loops for ever and nothing in a step waits for
  another process without a time limit.
* `WF(Restart)`: a stopped worker is started again.  The compose file gives the
  service no restart policy, so this is an assumption about its operator.
* `SF(GracePeriod(d))`: a running job that nobody finishes is at some time older
  than the cutoff.  Weak fairness would not do: the worker leaves and enters the
  places where time passes.
* `WF` of `UploadCommit`, `DeleteRows` and the cleanups of one delete request,
  and of a started account deletion: a request that was accepted runs to its end.
* No fairness for starting an upload or a deletion, nor for any failure.

For the pages, where nobody need ever click:

* `WF(Poll)`: an interval that is due ticks.
* `SF(ListServed)`, `SF(ListArrives)` and the same of messages: of the requests
  made for one list, not all fail or are dropped for newer ones for ever.  Weak
  fairness would not do: with a failure or a newer invalidation the step is
  disabled again and again, and it is the polling, the next visit or the next
  change that asks anew.  Where no further attempt is due, the property says so:
  `DocumentGetsThread` and `AnswerIsShown` excuse an entry that is stale and not
  fetched.
* `WF(WorkerSettles(d))`: what `ImplementsFairLifecycle` says of the server.
* `WF(ServerTurn(q))`, `WF(TurnDone(q))`, `WF(TurnErrors(q))`, `WF(CreateCommitted(c))`,
  `WF(CreateSucceeds(c))`: a request that was accepted is answered.  That no
  stream hangs for ever is nginx's `proxy_read_timeout`, which cuts it.
* No fairness for a click, a visit, a focus or a failure.

## 6. Proofs

`IngestionProofs` proves, for every value of the constants allowed by
`NoDocAssumption`, `DataAssumption` and `BoundAssumption`:

| theorem | needs | states |
|---|---|---|
| `TypeCorrect` | | `Spec => []TypeOK` |
| `JobsAndDocumentsAgree` | | `Spec => []JobDocAgree` |
| `RowsHaveAccounts` | | `Spec => []RowHasAccount` |
| `LifecycleImplemented` | | `Spec => ImplementsLifecycle` |
| `RowsHaveBlobs` | | `Spec => []RowHasBlob` |
| `OrphansOwed` | no `index` failure | `Spec => []OrphansAreOwed` |
| `ReadyIndexed` | chunks of its own per document | `Spec => []ReadyIsIndexed` |
| `ReadyInGraph` | facts of its own per document | `Spec => []ReadyIsInGraph` |

Any set of accounts may be deleted meanwhile (`AdminTargets`); the last four are
about the documents of the others (`Spared`).  The extra hypotheses are needed:
without any one of them TLC finds a violation (section 7), and facts shared by
two documents behave like chunks shared by two.

The argument is a tower of inductive invariants, each proved with one lemma for
the API, the account deletions and the worker, one step per action.

1. `TypeOK`.
2. `TableInv`, about the tables: `JobDocAgree` is not inductive by itself.  It
   needs that a document has neither job nor delete request before its upload
   committed (`NothingBeforeUpload`), that only running jobs go stale
   (`StaleIsRunning`), that the job the worker holds stays `running`, or loses
   its row, until the worker lets go of it (`ClaimIsKept`), and that a document
   once seen missing is missing (`MissingIsMissing`).  `ClaimIsKept` rests on
   there being one worker: reclaiming happens only while it holds no job.
3. `LifecycleImplemented`: each step that changes `docRow` is an `Upload`, a
   `Settle` or a `Remove`; `TableInv` gives the guards.
4. `BlobInv` adds `CleanupAfterRows`: a delete request touches the stores only
   when the row is gone, which is what `RowHasBlob` needs, and the reason for
   the order of steps in `delete_document`.  It also adds `AdminHasOwn`: an
   account deletion is at work on documents of its own account only, so that
   none of its steps changes the rows, objects, points or edges of a spared
   document (`SparesOthers`), for which alone it is used below.
5. `OrphansAreOwed` is inductive on top of `BlobInv`.
6. `ChunksWritten` and `TriplesWritten` say what the worker has already written
   of a document that still exists, batch by batch, with `LeftIsOwn` for what is
   left; with the files' keys disjoint they carry `ReadyIsIndexed` and
   `ReadyIsInGraph` through the commit.

`AccountsProofs` proves, for every value of the constants allowed by
`AccountsAssumption` (requests of different kinds are different, `Nobody` is
none of them):

| theorem | states |
|---|---|
| `TypeCorrect` | `Spec => []TypeOK` |
| `SessionsHaveAccounts` | `Spec => []SessionHasAccount` |
| `OpenLinksAreCurrent` | `Spec => []OpenLinkIsCurrent` |
| `RevokedRequestsBeginNothing` | `Spec => RevokedBeginsNothing` |
| `PermitsImplemented` | `Spec => ImplementsPermits` |

The inductive invariant is `CredInv`.  `SessionsAnswered`: a session's account
exists and its login has answered, so no later commit inserts it again.
`LinksOfAccounts`: a link that is asked for has a registered account, without
which a later registration could set the first password under an open link.
`AnsweredRegistered`: whose login has answered was registered, so that an account
without a row is one that is gone.
`RequestsAnswered` and `NotRevoked`: while a request has yet to write and its
session is there, its account is active and its password is the one it was let in with.
This is the heart of the matter: each of the three revocations deletes the
sessions in the transaction that revokes, and only an answered login can be the
session of a request, so a login that commits late cannot bring one back.

`PermitsImplemented` needs of it that the session of a running request is an
answered one, whose account no later step renames, and that only an issued link
ages (`OldIssued`).  A lemma per kind of request names the step of `Permits` that
each commit is: `RegisterCommit` is `Open`, `Authenticate` is `Enter`, `Commit` is
`Begin` while the session is there, or `Finish` of a deletion, and without it a
stutter, or `Stop` of a deletion; `CommitAgain` is `Finish` while the account is
there, `GiveUp` is `Stop`, the end of a session is `Drop`, `ResetCommit` is
`Renew`, and a `StatusCommit` is `Ban`, `Reinstate` or `Drop` by what its handler
had loaded.  The first step of every other handler is a stutter.  `Renew` asks
for a link that was issued, not for one that is still valid: that is as much as
the code keeps (section 7).

The theorems about pages hold for every value of the constants allowed by the
module's one ASSUME (the `No...` value is none of the others, `Faults` is a set of
the kinds above), and for every choice of failures:

| module | theorems |
|---|---|
| `DocumentsPageProofs` | `TypeCorrect`, `QuietListsAreTrue` (`QuietListIsTrue`), `ShownNeverBack` (`ShownNeverGoesBack`) |
| `ChatThreadsProofs` | `TypeCorrect`, `ActiveOfPage` (`ActiveIsOfPage`), `QuietListsAreTrue` (`QuietListIsTrue`) |
| `ChatTurnsProofs` | `TypeCorrect`, `RepliesKept` (`RepliesHaveQuestions`), `QuestionsOnce` (`NoQuestionTwice`), `QuietThreadsAreTrue` (`QuietThreadIsTrue`) |
| `SupportDeskProofs` | `TypeCorrect`, `NoRepliesBuried` (`NoReplyIsBuried`), `TextsStoredOnce` (`TextIsStoredOnce`) |
| `UsersPageProofs` | `TypeCorrect`, `LastWordsCount` (`LastWordCounts`), `QuietListsAreTrue` (`QuietListIsTrue`) |
| `SignInProofs` | `TypeCorrect`, `RequestsOfUser` (`RequestsAreOfUser`), `QuietUserTrue` (`QuietUserIsTrue`) |

* What a page shows.  "A list at rest is the server's" is not inductive: the
  answer that is on its way will be the list.  `IsTrue` of `QueryCacheLaws`
  adds it: an entry is true of what is stored if its data is, when it rests
  fresh, and its answer is, when it has been served.  Each `QuietInv` asks this
  of an entry unless a change is committed of which the page has yet to be told
  (`Dirty`, or a turn that is not over) or never will be (`unheard`).  Two
  laws of the cache carry it: what does not touch the rows keeps it
  (`TrueStaysLaw`); serving, and an invalidation that is not too late for the
  answer on its way, establish it (`TrueAgainLaw`).
* The documents page cannot ask as much, because the worker settles documents
  behind its back.  Its `QuietInv` asks of each document by itself that what was
  read *matches* its row (`Matches`): it is the row, or it was read as pending
  and has settled since.  `QuietListIsTrue` follows for what is not
  shown as pending; for what is, the page goes on polling (`SettledIsShown`).
* `OrderInv`: the answer on its way has reached, document by document, no less
  than the list (what the list shows settled it does not have pending, what has
  left both the table and the list it does not bring back), and a deletion is
  asked only for a row that the list has.  The second is what rules out that a
  list read before an upload arrives after the document has come and gone.
* `ActiveInv`: every action leaves the active thread as the effect chose it from
  the list that action leaves behind (`Turns`), and a name never used for a
  thread is in no list, answer or table (`UnusedAreNew`), so that naming a new
  thread's document changes nothing that is shown.
* `LogInv`: a turn that waits for its reply has its question stored, if its
  thread is still there, so that the reply joins it.
* `CopyInv`: what is stored or on its way from the server holds no copies of the
  page, and no message of a question that was never asked; a list that holds a
  copy does not hold the stored question.
* `ReplyInv`: a reply read since the last resolution, of a ticket that is still
  resolved, has read that it is (`BegunSince`), and so it will reopen it.
* `TextInv`: a reply of this page that is under way is the one the button waits
  for (`OwnIsWatched`), and a text that is neither lost nor still to be sent is
  not in the box (`NotAgain`).
* `StatusInv`: a request that loaded the status it wants finds it still in force
  unless a rival has committed since (`ChangesSee`), so that writing nothing is
  right but for that overlap.
* `CookieInv`: the cookie is of a sign-in that was answered, and a session check
  of a tab that has missed nothing carries that cookie.
* `QuietInv` of `SignInProofs` adds to it what makes a user at rest true: a request
  carries a session whose sign-in is over, so that no sign-in can bring back a
  session that a log-out has ended (`TokensInv`), and a tab that has missed nothing
  and shows anybody but the owner of the cookie has a log-out of its own under
  way, served or failed, of which it is about to be told (`TabIsTrue`).

Only model-checked: everything about liveness (`ImplementsFairLifecycle`,
`RemovedLeavesNoTrace`, `OthersSettle`, `SettledIsShown`, `DocumentGetsThread`,
`SendingEnds`, `AnswerIsShown`, `ListCatchesUp`), which needs fairness and
ENABLED.  Every invariant of a passing run is stated by a theorem.  The
theorems rest on the modules' ASSUMEs and on nothing else; TLC evaluates each
ASSUME in the runs of its module.

## 7. Where code and claims part

* `ingest_oversized`: `text_content` is a 64 KB TEXT column and receives up to a
  million characters; the refused commit is outside the `try` block, so the job
  is retried every 15 minutes for ever and the document stays pending.
* In `ingest_queue` ingestion is quick.  With `slow` among its faults TLC refutes
  `OthersSettle`: if such a job takes longer than the grace period, it is stale
  the moment it aborts, is reclaimed and, being the oldest, claimed again, and
  nothing behind it is ever processed.

The rest of this section was met while modelling.  No run is kept for it: each
is seen by the change of a cfg that is named, which makes TLC print the behaviour.

* Same file twice.  Point ids are hashes of the file's bytes
  (`ingestion/qdrant_indexer.py:65`, `parser.py:142`), so a second upload of the
  same file takes the points of the first, which stays ready and has no chunks
  (`ingest_indexed` with `ContentOf <- SameFile`).  The same holds of facts
  (`TriplesOf <- SharedFact`): `MERGE` finds the edge of another document and
  `SET` replaces its tag.
* When an indexer raises after the document was deleted, the except branch reads
  the expired job (`worker.py:127`), itself raises, and what was written stays
  (`ingest_queue` with `index` among its faults, against `OrphansAreOwed`).
* Account deletion cleans the stores first (`admin.py:199`), so what an upload or
  the worker writes before the rows go is left for ever, and what the worker
  then settles as ready is not in the stores (`ingest_queue` and `ingest_indexed`
  with the account in `AdminTargets`, against `OrphansAreOwed` and
  `ReadyIsIndexed` asked of all `Docs` in place of `Spared`).  When the row
  transaction then fails on a lock (`admin.py:234`), which is not retried, the
  rows stay without their files (`RowHasBlob` of `ingest_safety`, asked the same way).
* Two resets with one link both find it unused and both succeed: the row is then
  written by its id, without asking `used_at` again (`auth.py:168`; `LinkWorksOnce`
  in `accounts_safety` with a second reset).
* A request that has begun goes on after a ban, a reset or a log-out: a streamed
  turn still stores its reply (`conversations.py:146`, 168, 201), and a deletion
  that waited for a lock still deletes its document (`documents.py:193-203`).
  Only the first transaction writes the session (`RevokedWritesNothing` in
  `accounts_safety`, after a ban or a reset).
* A login that verified the old password before a reset inserts its session after
  it; that session is not revoked (`auth.py:110`; `SessionHasPassword`).
* `Documents.tsx:91` means to refetch after a failed deletion so that "the stale
  list should never keep showing a deleted row".  On a 504 the refetch comes
  before the server has deleted it, and nothing asks again until the next focus
  or visit (`DeletedIsHidden` in `documents_page`).
* `Chat.tsx:134` creates a thread "when a document is pinned and has none yet".
  It looks at the list it holds: one that is stale, or could not be fetched at
  all, has none, and a second thread is created (`AutoCreateIsFirst` in
  `chat_threads`).
* That creation is tried once in a visit.  `createConversation` has no `onError`
  and `autoCreatedDoc` stays set (`Chat.tsx:144`, 167), so when the request
  fails, or its answer is lost, no thread comes on screen until the user clicks
  New or returns to the page (`DocumentGetsThread` without `spent`).
* A create or a delete of a thread that was committed and whose answer was lost
  is not in the list: the page refetches on success only (`Chat.tsx:175`, 185),
  so the list at rest lacks it until the next focus or visit.  `QuietListIsTrue`
  excepts it as unheard.
* A turn whose stream is refused or breaks refetches nothing (`api.ts:64`,
  `Chat.tsx:220`): the page's copy of the question stays, also when it was never
  stored, and a reply that was stored after all is seen at the next focus or
  visit.  `QuietThreadIsTrue` excuses both as unheard.
* `streamText` belongs to the page: who turns to another thread while an answer
  streams reads it there (`Chat.tsx:484`).
* A reply that was read before a resolution commits writes no status: the ticket
  stays resolved (`support.py:142`).  `NoReplyIsBuried` speaks of later replies.
* The reply box is never disabled: what is typed while a reply is being sent is
  thrown away by its success (`Support.tsx:79`, in `ReplySucceeds`).
* `admin_delete_user` answers 502 after it has deleted the account
  (`admin.py:236`); the page treats it as an error and goes on showing it
  (`RemovalErrors`).  A failed refetch replaces the whole users page by a card
  that asks for administrator access (`Users.tsx:112`).
* `logout` returns a response of its own, so that `clear_session_cookie` has no
  effect (`auth.py:127`); the session row is gone, hence no harm.  When the
  request fails, the page forgets the user and the session lives on
  (`AuthContext.tsx:50`).
* The query cache is not cleared when the user changes: the lists of the account
  before are shown until refetched.  No module has both.
* `Users.tsx:267` reads `full_name` from the details, which
  `AdminUserDetailResponse` nests under `profile`.
* Two administrators change one account at once.  The handler that loaded the
  status it wants writes no status, whatever the other has written since, and
  answers with its own (`admin.py:180`): both read banned, the unban commits, the
  second ban commits and the account stays active.  `LastWordCounts` leaves
  opposite requests that overlap out.

## 8. Not modelled

* The CRAG agent: a request runs its graph alone, from end to end, and writes
  nothing before it returns.  `ChatTurns` has its outcomes.
* The retrieval pipeline: it reads the stores and keeps no state.  When one of
  the two searches fails, `retrievers.py:75` still names the list of that search,
  which is unbound; the UnboundLocalError is caught with every other exception by
  the `retrieve` node, which goes on without documents.
* The blocking turn (`POST /messages`) and the renaming of a conversation, which
  the front end does not use.
* The text that has streamed in so far, the document viewer and the choice of
  models in `Chat.tsx`; the texts of forms, except the reply box; the numbers of
  the details in `Users.tsx`.
* The order of threads, messages and tickets; garbage collection in the query
  cache; what one account leaves in it for the next.
* `/reset-password` without a token, which shows no form; the page a login
  returns to (`from`); the lifetime of the CSRF cookie.
* Pages that show one or two queries and change nothing: the administrator's
  dashboard and listings, Home, Profile; the UI kit.
* Email (one outbound call whose failure is logged), configuration, command line
  and logging (read once), application shell, schemas and health probes (wiring
  and reads), the text splitting inside the parser, deployment files (only the
  single worker and the proxy's time limit are taken from them).

## 9. What could come next

1. `CragAgent` and `Retrieval`: the retry bound and the degraded paths as a
   refinement of "asks, then answers once"; interleave and dedupe as recursive
   functions against a reference definition.
2. One query cache under all pages with `SignIn`, for what one account leaves
   behind for the next.
3. `Permits` as the environment of `SignIn`, in place of its bare set of sessions.
