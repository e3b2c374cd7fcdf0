# ParcelPilot operations copilot: TLA+ models and proofs

This directory holds TLA+ models of the copilot's core, the TLC runs that check
them on small instances and the TLAPS proofs that hold for every instance.
`PROJECT.json` lists the components, the runs, the line range each definition
models, the hazards and the theorems.

Check a run with `tlc -config <cfg> <module>` and the proofs of a module with
`tlapm <module>.tla`.

## 1. The system

ParcelPilot is a FastAPI server (`src/app/api`) over one SQLite file. The file
is rebuilt from source documents and a workbook by an offline ingestion script.
A request carries a demo-user id, which the server resolves to a role and a set
of accounts (`AuthContext`, where `account_scope = None` means unrestricted).
Everything the caller reads is filtered by that scope. Handlers are synchronous:
each runs in a worker thread with a SQLite connection of its own.

| Component | State it keeps | Operations | Interacts with |
|---|---|---|---|
| Escalation workflow (`actions/`, `api/routes/actions.py`) | table `actions`: one row per proposed escalation, which is also its audit log | prepare, confirm, execute, get | reads `tickets`; `domain/sla.py` decides eligibility; scope of the caller |
| Agent orchestrator (`agent/orchestrator.py` and the modules it calls) | per request: plan, tool results, iterations, LLM calls | `run_agent` | planner, tools, LLM gateway |
| Entity resolution, intent, planner (`agent/entities.py`, `clarification.py`, `intent.py`, `planner.py`) | none | pure functions of the question, the scope and the tables | called by `run_agent` |
| Support rules (`domain/`, `policy/`) | none | cancellation, service credit, SLA, severity, which clause applies | called by the tools and by prepare |
| LLM gateway and providers (`llm/`) | `last_run` of a gateway object | `complete`: retries inside a provider, fallback between providers | called by the composer |
| Operations radar (`detection/`, `api/routes/radar.py`) | none | detection rules, deduplication, ranking | reads orders, tickets, documents |
| Structured data access (`structured_data/`, `authorization/`) | tables `accounts`, `orders`, `tickets` | get and search under a scope | everything |
| Ingestion and readiness (`scripts/ingest_sources.py`, `db/`, `api/routes/health.py`) | the database file | drop and rebuild; report readiness | running requests hold connections |
| Documents and retrieval (`documents/`) | table `document_chunks` and its FTS index | parse, chunk, search | the search tool |
| API shell (`api/`) | demo-user registry, settings | dependencies, error handlers, middleware | all routes |
| Browser front end (`api/static/`) | `lastAction`, current user | buttons for chat, radar and the workflow | the routes |
| Observability, evaluation | spans, reports | none the program reads back | |

### What is hard about it

- **Interleaving.** The workflow runs without a transaction around a handler.
  Between `get_action`, `get_ticket` and the conditional `UPDATE` of one call,
  the statements of other calls run. The record written back is a copy read
  earlier.
- **Crashes and failures.** Any statement can fail and becomes a bare 500; the
  process can die after a commit and before the response.
- **Stale authority.** The scope of a user may change between prepare and
  confirm, and a record may change its account between the entity resolution of
  a chat request and the tool that uses it.
- **Time.** A confirmation window with an inclusive end, tool timeouts noticed
  only afterwards, retries, and a wall-clock budget.
- **An untrusted writer.** The LLM may write any text with any citation markers,
  fail, or fail again on the repair.
- **Silence.** A tool that fails or is late simply contributes nothing to the
  evidence, so the aggregated trust state must not depend on it by accident.

### What makes each component correct

- *Escalation workflow*: each transition of an action has one winner; the row
  tells exactly what was committed; only the owner confirms, what was prepared,
  in time and within scope; only the owner or an admin executes; timestamps and
  replies are truthful; audit rows only grow; every accepted call ends.
- *Agent*: the answer rests on evidence of this request; a refused lookup shows
  nothing; the plan does not depend on records the caller may not see; the worst
  finding decides trust, status and review flag; budgets hold whatever times out
  or is retried; every request ends.
- *LLM gateway*: attempts are bounded by retries times candidates; a permanent
  error stops the fallback; the answer comes from the last attempt.
- *Support rules*: the classification is a function of the record; boundaries
  (exactly 30 minutes, exactly the deadline, exactly the threshold) fall on the
  documented side; an inactive agreement never wins.
- *Radar*: what a caller sees depends on the caller's accounts only; merging by
  id loses no finding; an id keeps its meaning; whoever sees more finds no less; a
  ticket near its deadline is shown, and once.
- *Ingestion*: a request computes from the old or the new database, never from half of
  one or from both; only a pack that says one thing is served; a rebuild ends.
- *Front end*: a button acts on the record it shows; nothing is sent twice; a card is
  current whatever order the answers come in; no panel stays busy.

## 2. Plan

| # | Module | Of | State |
|---|---|---|---|
| 1 | `Actions` | escalation workflow, one step per SQL statement | done |
| 2 | `ActionLedger` | what the workflow promises its callers | done, refinement checked and proved |
| 3 | `ActionsProofs`, `LedgerProofs` | inductive invariant, safety theorems, refinement | done |
| 4 | `Planning` | entities, clarification, intent, plan | done |
| 5 | `Agent` | `run_agent`, tools, gates, composition and repair (uses `Planning`) | done |
| 6 | `LlmGateway`, `GatewayProofs` | provider retries under provider fallback, pricing of the answer | done, invariants proved |
| 7 | `SlaRules` | severity, applicability and first-response deadlines, as pure operators | done |
| 8 | `Radar`, `RadarProofs` | detection rules, their joint run, the panel and the fetch by id | done, every property proved |
| 9 | `SupportRules`, `SupportProofs` | cancellation and service credit decisions over the radar's packs | done, proved |
| 10 | `SourcePack`, `Dataset`, `DatasetProofs` | ingestion of a source pack, requests and the container that open its file meanwhile | done, invariants proved |
| 11 | `ActionPanel`, `PanelProofs` | the page's panels and its one `lastAction` in front of the ledger | done, invariants and refinement proved |
| 12 | `AgentProofs` | types, budgets and what an answer may show, for every plan and every LLM | done, every invariant proved |
| 13 | `SlaRules` and `Planning` | what classification, lookup and the planner return, as lemmas of their own | next |

`Agent` EXTENDS `Planning`, `Radar` EXTENDS `SlaRules`, `SupportRules` EXTENDS `Radar` and
`Dataset` EXTENDS `SourcePack`. `LlmGateway` is what happens inside each of the two LLM
actions of `Agent`. `ActionLedger` is the one abstract specification; both sides of the
workflow implement it: the handlers, statement by statement (`Actions`), and the page
with a server of one step per request (`ActionPanel`).

Every invariant and action property that a run checks is also a theorem; what is left to TLC is
liveness (section 5). The next theorems worth having are about the pure operators by themselves:
that `classify_severity` is the one severity with the most signals, that `lookup_sla_target`
never prefers a plan's row to the account's, and which intents a plan can serve. Modules meant for proofs declare no RECURSIVE operator.

## 3. The modules

### Actions

An action per SQL statement, plus one for the dependencies of the route
(`Receive`) and one for the response (`Respond`). `pc[c]` is the next statement
of call `c`: `p_*` belong to `prepare_escalation`, `c_*` to `confirm_action`,
`x_*` to the execute route and `execute_action`, `g_get` to the get route.

| State | Code |
|---|---|
| `rows` | table `actions`, one row per action id |
| `tickets`, `AccountOf` | the columns of `tickets` that the workflow reads |
| `scope`, `now` | demo-user registry and `meta.snapshot_time` |
| `req[c]` | the request and what FastAPI's dependencies resolved for it |
| `seen[c]` | the local variable `record`, as stale as it has become |
| `landed[c]` | history: which write of this call was committed |
| `reply[c]` | the `ActionOutcome` or HTTP error |

`save_action_if_status` overwrites status and timestamps with the caller's copy,
as the code does; that this never loses a timestamp is a property
(`AuditTrailOnlyGrows`), not part of the model. The environment closes, reopens
or deletes tickets, moves the snapshot time, fails any statement (`DbError`),
kills the process (`Crash`) and redeploys with another registry (`Redeploy`).

Abstracted: the payload hash is its input (target and breach flag); the severity
and deadline that `calculate_sla` finds are constants per ticket; reasons,
logging and response bodies are left out. Request statements are assumed
atomic: SQLite serialises writers and each statement is its own transaction.
`DbError` stands for a statement that was rolled back; a commit that succeeded
and whose response was lost is `Crash`.

### ActionLedger

One status per action that moves forward in atomic steps, one effect per call,
and answers that never claim more than the ledger shows. `ActionsProperties`
maps `Actions` to it: `rows` to `ledger`, `landed` to `effect`, and the pair of
`pc` and `reply` to `answer`.

### Planning

Operators from a question to a plan. A question is the record of what the code's
regular expressions find in it: the id tokens in order, the account names, the
keyword patterns, whether it is an aggregate question and whether it is blank.
The tables are a function from ids to the account they belong to. `LookupError`
is the exception of the three `get_*` functions, with the order of their checks:
`get_account` refuses before it looks, the others after.

### Agent

One request. Requests share no mutable state, so one suffices; what other
actors do is `RecordChange` (nothing in the repository moves a record while it serves; the
branches that meet such a change are the code's second line of defence, checked as such). `pc` follows `run_agent`: `received` (resolve,
classify, plan), `tools` (the loop head with its budget checks), `attempt`
(inside `execute_tool`), `evidence` (the gates), `compose`, `repair`, `done`.

| State | Code |
|---|---|
| `owner` | `accounts`, `orders`, `tickets` as id -> account |
| `plan`, `results`, `iterations` | locals of `run_agent` |
| `attempt`, `started` | the loop of `execute_tool` |
| `draft` | an answer that failed validation |
| `llm_calls` | history: LLM calls really made |
| `result` | the `AgentRunResult`; `http_500` for an exception that leaves |

A tool run ends in an error or in an output. The errors are the exception its
lookups raise on the current database, or one that no lookup explains. The
outputs are every outcome the domain service can return (`evaluate_cancellation`
and its siblings), with every citation it can carry. A result that is late is thrown away.
An answer is the set of citation markers in its text, chosen freely by the LLM.

Abstracted: BM25 ranking (a search returns any set of documents the filter
lets through), token and cost estimates (a nondeterministic `fits`), the
overlap test of document sufficiency (a nondeterministic `sufficient`, false
without documents), one timeout for all tools, prompt texts, state and tool
traces, assumptions and conflicts.

### LlmGateway

The gateway object of one request; `run_agent` calls `complete` on it once or
twice. `pc` is `idle` between two completions, `candidate` at the head of the
gateway's loop, `create` in the provider's retry loop, `price` between the answer
of the API and its return.

| State | Code |
|---|---|
| `candidates` | `self._candidates`; the runs start from several lists |
| `index`, `attempts` | the gateway's loop and its list of `ProviderAttempt` |
| `attempt` | the loop of `AnthropicProvider.complete` |
| `last_run` | the attribute, with `fallback_used` and `fallback_reason` |
| `reply` | the response or which exception was raised |
| `sent`, `produced` | history: calls of `messages.create` per candidate, and whether one answered |

A call of the API answers, fails in one of the ways that
`is_retryable_provider_error` names, or fails in any other way. Abstracted: the
texts, token counts, latencies and the length of the back-off. An error is the
candidate it came from. What the SDK does inside `messages.create` is one call.

### SlaRules

Operators over a database: `classify_severity` on the number of definition
signals of each severity in a ticket's text, `resolve_applicability` (agreement
while its term lasts, otherwise the policy) and `calculate_sla`. A row of
`sla_targets` is a duration, business time or neither of them, the three outcomes
of `_parse_duration`; on the last one the code raises a `TypeError`
(`timedelta(minutes=None)`, `sla.py:155`). Which of several equally preferred rows
`LIMIT 1` returns is a fixed but unknown choice (`fetchone`).

### Radar

The rules are pure functions from a data pack, a scope and a window to a set of
alerts; what makes a system of them is who sees which result, and when. A request
only reads, on one connection, so one action is one request; between requests the
server can be redeployed on another pack.

| State | Code |
|---|---|
| `data` | the SQLite file: tickets, orders, terms of agreements, plans, SLA targets, mentions of known issues, snapshot time |
| `redeploys` | history: which pack it is |
| `panel[u]` | what the last run returned to the user `u`, from the page or the agent's tool, with what was asked; nothing after a 403 |
| `link` | one `GET /api/radar/alerts/{id}`: who asked, for which alert of anybody's panel, and the answer |

Actions: `run_radar`, `detect_issues_tool` (which narrows the scope to the
accounts that are asked for), `get_alert` and `close` (the caller has read the answer),
`Redeploy`. Abstracted: titles, reasons, evidence
lists, counts (the number of records), the order of the alerts, the digest of an id
(taken to be one-to-one) and the grouping by account. A ticket's and an issue's
significant words are sets of tokens.

### SupportRules

`evaluate_cancellation` and `evaluate_service_credit` over the packs of `Radar`, with
`governing`, the applicability of a clause on one topic. An agreement whose term does not cover
the snapshot is replaced by the policy, and the decision asks for a review. Times
are in the unit of `SlaRules`, amounts whole rupees, an evidence list is the
clause that governs. `SupportProperties` relates two decisions, about the same order
at another time or under other agreements, and a decision to the radar's alerts.

### SourcePack and Dataset

`SourcePack` is what `ingest` checks of a pack before it touches the database (files and
checksums, the facts of each PDF against the manifest's, the versions that
"supersedes" names, targets, foreign keys of the workbook) and what the schema's
constraints check afterwards (`InsertsPass`). A pack passes the first and
fails the second when, for example, two sections yield the same chunk id.

`Dataset` is the file. `files` holds every file that ever existed at the path, `path`
the one a new connection gets; unlinking changes `path` only, so whoever has
a file open goes on using it.

| State | Code |
|---|---|
| `path`, `files` | `PARCELPILOT_DB_PATH`, and the inodes that were there |
| `pc[i]`, `conn[i]` | an ingestion: `look` and `unlink` (`init_db`), `open`, `meta` and `rest` (`schema.sql` statement by statement), `insert` (`_write_db`), then `complete`, `failed` by itself or `broken` from outside |
| `pc[r]`, `conn[r]` | a request: `connect` (after `get_conn` found the file), `clock` (`get_clock` or `/ready`), `query`, `query2`, `write` |
| `clock[r]`, `seen[r]`, `status[r]` | whose snapshot time it read, which datasets answered, the HTTP status |
| `server`, `secret`, `decoded` | the container of `docker-entrypoint.sh`: down, decoding the prebuilt database, up |

`sqlite3.connect` creates an empty file when there is none, so a request that found the
file and was overtaken by the unlink recreates it, and the ingestion then builds its schema in
that one; a second ingestion meanwhile unlinks the first one's file or
stops at a table that is already there. Faults kill an ingestion at any statement,
fail a request's statement, break the decoding or stop the container.

### ActionPanel

One page of `app.js`. A request is `idle`, `waiting`, `served` or `lost` on the server and
`idle`, `open`, `delivered` or `failed` on the page; `Deliver` and `Reject` are the two
continuations of `api()`, whose answers come in any order. `lastAction` is the
request whose record `state.lastAction` is and `out[k]` what a panel shows. A handler is one step that
keeps to the ledger: it may refuse for reasons the page does not see (ticket, window, scope).
The radar's button is disabled while a run is under way, the copilot's too but for
Ctrl-Enter; changing the identity leaves everything as it is; a reload
forgets everything but what the server does.

## 4. The runs

Passing runs:

| Run | Instance | Shows |
|---|---|---|
| `race` | 1 prepare, 2 confirms, 2 executes by one user on one proposal, symmetric; 1 external event; a window of 0 minutes and times 0..1 | each transition has one winner (`OneWinner`), the row is the history (`AuditRowMatchesHistory`), callers are told the truth (`HonestReplies`), audit rows only grow (`AuditTrailOnlyGrows`) |
| `window` | 1 prepare, 1 confirm, 1 execute, 1 get by a user and an admin; 1 external event; a window of 0 minutes and times 0..1 | only the owner confirms, within the scope of the confirming request (`ConfirmedByOwner`); only the owner or an admin executes (`ExecutedByOwnerOrAdmin`); timestamps and expiry at the boundary (`AuditTimes`) |
| `ledger` | 1 prepare, 2 confirms, 1 execute by one user; 1 external event | the statements implement `ActionLedger`, fairness included (`ImplementsLedger`); every accepted call ends (`EveryCallEnds`) |
| `questions` | 16 questions, one for every branch of planner and clarification gate and one that plans six steps of every kind, 3 scopes, 2 orders, 1 ticket, 2 accounts, 2 documents, 5 possible answers; 1 record change; clock stopped | types; answers are grounded (`AnswersAreGrounded`); a refused lookup shows nothing (`RefusalShowsNothing`); hidden records do not show (`HiddenRecordsDoNotShow`); the worst finding shows (`WorstFindingShows`) |
| `budgets` | one question, retryable tools, timeout 0, limits of 3 tools, 3 iterations, 2 LLM calls, time 3 | the budgets hold whatever is retried (`BudgetsKept`); every request ends (`RequestEnds`) |
| `gateway` | gateways of 2 and 3 candidates, with and without the mock, one model without a price, 2 retries, 2 completions | calls per candidate are bounded (`CallsBounded`); fallback is ordered and stops at a permanent failure (`FallbackInOrder`); a fallback answer is marked (`NoSilentFallback`); every completion ends (`CompleteEnds`) |
| `radar` | 3 users (an admin, an agent of one account, a restricted one), 2 accounts, 2 tickets, 2 orders; 6 packs; windows of 1 and 2 days; thresholds of 2, known issues of 1; 1 redeployment; decisions compared with those 1, 2, 4 and 24 hours later | what is shown depends on the caller's own rows (`OnlyOwnAccountsShow`); merging loses nothing (`NothingLostToDuplicates`); wider scopes and windows that end with 200 find no less (`WiderSeesMore`); the last quarter before a deadline and what follows is shown once (`LastQuarterShownOnce`); ids keep their meaning and lead back to the alert or, with an unparsed target among the caller's open tickets, to a 500 (`LinksKeepTheirMeaning`); a confident decision does not silently become another (`ConfidentIsFinal`); no agreement decides whether an order can be cancelled (`WaiverStopsAtPickup`); who is told of a credit for a missing pickup that nobody asked to cancel sees the overdue pickup (`CreditMeansOverdue`) |
| `dataset` | 2 ingestions of a sound, a drifted, a dangling or an ambiguous pack, started 3 times; 1 request or probe; with and without a database and a prebuilt one; 1 fault | a request computes from one dataset (`OneDatasetPerRequest`); a snapshot time means a whole database (`SnapshotMeansWhole`); only coherent packs are served and refused ones cost nothing (`ServedIsCoherent`); success means served (`SuccessIsServed`); an acknowledged action survives all but an ingestion (`AcknowledgedSurvives`); a rebuild ends with a database (`RebuildServes`) |
| `panel` | 2 prepares, 2 confirms, 1 execute, or 1 prepare, 1 confirm, 2 executes, or 2 radar runs, or 2 questions; 2 identities, one an admin; 1 change of identity, 1 reload, 1 fault | a button acts on what is shown (`ClickActsOnWhatIsShown`); no action is confirmed or executed by two requests (`OneRequestPerStep`); a card is current (`CardIsCurrent`); the radar panel shows the last run (`RadarShowsLastRun`); panels settle (`PanelsSettle`); page and server keep to the ledger (`KeepsToLedger`) |

Runs that end in a violation, each of something a comment or a document of the
repository says:

| Run | Says | The code |
|---|---|---|
| `target` | confirm validates that the target's state has not changed | ticket and action are two statements; a ticket closed in between is confirmed |
| `cited` | a citation that corresponds to nothing collected is reported | all records share the source id `SRC-07`, which is enough for a marker to pass |
| `unpriced` | a model without a pricing entry is no reason to block a request | the answer is priced after the call; the `KeyError` counts as a permanent provider failure. The default model of `deps.py` has no entry |

More divergences show in the models without a run of their own.

In `Agent`: the wall clock is compared only before a tool (`orchestrator.py:182`), so a
composition or a late tool runs past it (`budgets.py:1-3` says a request never
silently continues past a budget); `BudgetsKept` states what is kept. The repair
prompt is sent without a budget check (`orchestrator.py:334`). An order looked up successfully does not count as grounding unless a
calculation ran (`orchestrator.py:240`; `evidence_sufficiency.py:12-14` says a
structured record suffices). The result of a failed composition carries no
citations (`orchestrator.py:298`; the comment at 294-296 says they are preserved).
A question about an order of another account is answered from a document search
if one finds something (`orchestrator.py:160`; the docstring at 10-13 says the
request ends in INSUFFICIENT_EVIDENCE).

In `Actions`: the idempotency key of a prepare is the id the call itself generates
(`workflow.py:122`), so a client that repeats a prepare gets a second action. The
page does just that on a second click: the Prepare button stays enabled while a request is
under way, and `OneRequestPerStep` forbids only a second confirm or execute of a record.
The clock is the snapshot time of the ingested pack and moves only with an
ingestion, which replaces the actions too; in a deployment no row outlives its window. `AuditTimes`
speaks of a clock that does move, which the handlers take as a parameter.

In `Radar`: the rule for overdue pickups does not read `cancellation_requested_at`
(`rules.py:492-496`), so a BOOKED order that is to be cancelled raises an alert; the docstring at
`rules.py:483-484` and the alert's own reason say "no cancellation".
`CreditMeansOverdue` takes no side: it leaves out orders whose cancellation was requested,
and would hold as well of code that follows the docstring.
`get_alert` runs all rules, and the two rules about deadlines raise on an open ticket whose
target could not be parsed; so an alert that a run of the pattern rules alone has
shown is a 500 when it is asked for by its id by a caller with such a ticket. `LinksKeepTheirMeaning`
states exactly that. For the same reason a wider run may end with 500 where
a narrower one shows alerts; `WiderSeesMore` compares runs that end with 200. An alert of another than the default window cannot be fetched by its
id, since `get_alert` runs the rules with the default window and the window is part
of the id; `LinksKeepTheirMeaning` therefore promises the way back for default
windows only. "Resolved" is looked for in each mention of a known issue by itself
(`rules.py:317-331`), so an issue that is mentioned again without the word still
raises alerts; the docstring of `detect_known_issue_patterns` says it never does.
That rule also counts closed tickets, as its docstring says and the comment at
`rules.py:65` does not.

In `SupportRules`: a service credit is denied with confidence when
`carrier_fault` is False (`service_credit.py:115-138`), also for a delayed pickup; `docs/initial_rules.md:101-103`
(R3.5) asks for a verification there. No property depends on it.

In `LlmGateway`: the mark of a fallback, `last_run`, is read by the command line tool
(`scripts/run_agent_cli.py:109`) and by tests, and by nothing in the API server. `NoSilentFallback` says
that the mark is right, not that a caller of the API sees it.

### Why the bounds are enough

- Two confirms and two executes are all a race needs: a transition has a
  source status and a target status, and a third competitor finds the row as the second did.
  The proofs remove the bound on calls, users, actions and tickets.
- `MaxExternal` bounds failures, crashes, ticket changes, clock steps and
  redeployments together. One puts an event between any two statements.
- A window of 0 minutes and times 0..1 reach "exactly at" and "after" the end,
  the two sides of the comparison; the proofs cover longer windows and several
  events.
- `MaxChanges` is 1: a record that disappears or moves between any two steps of
  a request. `MaxElapsed` is the smallest value past the limit in question.
- The budget constants are smaller than the code's 6, 6 and 2, so that they are
  reached; `MAX_TOOL_CALLS = 3` cuts a question about two orders off.
- The proofs remove the bounds of `questions` and `budgets` for everything but `RequestEnds`.
- Retryable tools do not exist in today's registry, but the loop for them does;
  `budgets` turns two of them on so that it runs.
- The packs of `radar` put a ticket at every boundary: the start of the last
  quarter, the deadline and past it, the oldest moment of each window and just
  before it, an agreement without end, on its last day and ended. A threshold of
  2 with two accounts is reached only by a caller who sees both. The rules look at a
  third ticket as they look at the second; the proofs remove the bounds.
- The decisions of `radar` are compared with those of times one unit, two units (a
  threshold), four (the other) and a day later: on both sides of every threshold of the
  rules and of the end of an agreement. The proofs remove the bound.
- Two ingestions and three starts in `dataset` let one be restarted while another is
  under way. One fault and one request reach every state a fault finds; three
  files may be open at once. The four packs offered are one for each outcome: sound,
  refused for its documents, refused for its workbook, and stopped by the
  schema. The proofs remove the bounds on starts, faults, requests and packs.
- A user of `panel` keeps to the action panel, the radar or the copilot, since the panels share no
  state but the identity. Two proposals and two confirms are what a
  shared `lastAction` can mix up; a second execute is what a second press of that button needs.
- The lists of `gateway` contain a live model before the mock (the list that
  `build_default_provider` makes), two live models before it, and no mock at all,
  so that every branch of the loop is reached; a second completion shows that
  nothing of the first is left over.

### Fairness

`Actions` assumes weak fairness of each call's handler: once it has begun, its
thread is scheduled and its statement returns or fails. It assumes nothing of
the environment, nor that a call is ever made. `Agent` assumes weak fairness of the request's
own steps: the thread keeps running and each LLM call returns or raises, which
the providers' timeouts ensure. Time and record changes are not fair. `LlmGateway` assumes weak
fairness of the loop once `complete` was called: `messages.create` is given a timeout
and the back-off is at most 8 seconds. `Radar` has no liveness property and assumes nothing.
`Dataset` assumes only that as long as some begun process can go on, one does (weak fairness of `Progress`,
the disjunction of all their steps); a failed ingestion is started again by its operator
and a container that stopped by its platform. Nobody has to ask, nor to start an ingestion.
`ActionPanel` assumes that as long as requests are waiting the server answers one of them, and that as long as fetches
end the browser runs one of their continuations (no timeout exists in `app.js`); nobody has to click.

## 5. The proofs

`ActionsProofs` proves for every set of calls, users, tickets and actions, every
registry and every bound:

- `TypeCorrect`, `AtMostOneWinner`, `AuditIsHistory`, `OwnersConfirm`,
  `OwnersOrAdminsExecute`, `TimesAreRight`, `RepliesAreHonest` (invariants), and
- `AuditTrailGrows` (action property).

They rest on the inductive invariant `IndInv`. None of the properties is
inductive alone, because a handler writes back what it read statements earlier.
`IndInv` says what a snapshot still means when it is used, however stale:

- `ConfirmOK`: between its read and its save, a confirm's snapshot agrees with
  the row in everything that was proposed, and it carried PENDING_CONFIRMATION;
  what was checked of it (owner, hash, window) therefore holds of the row.
- `ExecuteOK`: once an execute has seen CONFIRMED, the row is CONFIRMED with the
  same `confirmed_at`, or EXECUTED; so an execute that loses, lost to another execute.
- `RowOK`: the timestamps of a row fit its status and its window.
- `RequestOK`, `OutcomeOK`, `HistoryOK`: what a call has committed, what the row
  says of it and what the caller is told agree.

The step that carries the argument is the lemma `Evolution`: every step of every
actor takes every row only to what `Evolves` allows. From it `OthersKept` shows
that a call's snapshot stays right under other calls' steps, and one lemma per
statement (`ConfirmGetKept`, `ExecuteSavedKept`, ...) shows that the call's own
step establishes its next condition. `CallsStep`, `RowsStep` and `HistoryStep`
collect them into `InductionStep`.

`LedgerProofs` proves `LedgerRefinement`: every behaviour of `Actions` is one of
the ledger's safety specification. Requests map to `Begin`, the insert and the
three saves to the ledger's moves, responses to `Succeed` or `Refuse`, crashes to
`Lose`, everything else to stuttering.

`GatewayProofs` proves `GatewayTypes`, `CallsAreBounded`, `FallbackIsOrdered` and
`FallbackIsNeverSilent` for every list of candidates, every number of retries and
every pricing table. The inductive invariant `GatewayInv` ties the two loops
together: `Running` says that every candidate before `index` has made all its
calls and failed transiently, `AtCandidate` that the ones from `index` on have not
been called, and `InProvider` that the provider's attempt number is the number
of its calls. A provider that gives up on a transient failure does so at
`attempt = max_retries`, which is what carries `Running` to the next candidate
(`RaisesKept`).

`RadarProofs` proves `OthersDoNotShow`, `NoFindingIsLost`, `IdsKeepTheirMeaning`, `WiderRunsSeeMore`
and `LastQuarterIsShownOnce` for every data pack,
user registry, threshold, window and selection. The first rests on `SameRun`:
running the rules without scope on the pack reduced to the visible rows gives what
running them with the scope on the whole pack gives. There is one lemma for each
rule (`SameBreaches`, ..., `SamePickups`), over `SameRows` (the searches) and
`SameDeadline` (`calculate_sla` reads no other ticket). For alerts fetched by id,
`DetectedInScope` bounds the accounts of everything a rule can find. The second
theorem rests on `IdsTellApart`: the id names the type and the records (with the
issue), and these determine severity, carrier and accounts because every pattern has
a record and no record two severities or carriers (`RecurringForm`, `CarrierForm`). The
invariant `RadarInv` says that a panel of the present pack is what the rules find
in it now: a redeployment raises `redeploys` above every panel's `pack`. Of panels of
any pack it says that each alert's id is the one its own fields give (`WellFormed`); an id that is
asked for after a redeployment can then only name the same records (`SameIdSameRecords`),
since ids of issues are not ids of tickets. `FoundUnderItsId` is the way back on one pack: the
rules without a window find the same alert in any window and in every scope that holds its row
(`FollowsItsRow`), and no other alert has its id; `AllRulesRaise` says
when the lookup is a 500 instead. `WiderRunsSeeMore` needs that no narrower run raises
where a wider one does not (`WiderRaises`), and that the tables of
a pack are finite (`IsDataset`), so that a larger set has no smaller cardinality
(`ThresholdStays`). `LastQuarterIsShownOnce` rests on `OnTheClock` (what `calculate_sla` returns for a
ticket with a deadline), on the arithmetic of `OneRuleApplies` (from the last quarter on, a
ticket is approaching exactly when it is not breached), and on `RowAlerts`.

`AgentProofs` proves `TypesAreKept`, `BudgetsAreKept`, `RefusalsShowNothing`, `WorstFindingDecides`,
`AnswersGrounded` and `HiddenRecordsDoNotMatter` for every question, database, scope, set of
documents and answers, every set of retryable tools and all limits, zero included. The inductive invariant
`AgentInv` has three parts:

- `Typing`: `TypeOK`, that a plan holds only steps their tools can run (`Runnable`), and that
  what was collected is what a tool can leave (`Collected`): a failed or late tool contributes no
  finding, document or citation, a calculation that succeeded comes with evidence. It
  rests on `PlanType`, that the planner yields such steps for whatever `resolve_entities` finds. The
  tokens of one table in the order of their mention are an increasing enumeration
  of their positions (`InOrder`); that one exists is proved by taking the last position off
  (`InOrderLists`).
- `Budgets`: what each point of the loop may still spend. The attempts exceed `MAX_ITERATIONS` only
  by the retries of the running tool because a tool starts below the limit; the second LLM call
  is made only from `repair`, which is entered with one call made and two allowed.
- `Shown`: until the end nothing is shown and no refusal was collected; an answer carries the
  whole pack of the collected results and markers that were validated against it.

From it `WorstFindingDecides` follows by `TrustOfPack` (the aggregated trust state is that of the
worst finding, and never `CONFIDENT` without one). `HiddenRecordsDoNotMatter` compares two databases:
`MaskedEntities` shows that resolving a question is the same on the real one and
on the one without the hidden records, since an id that is refused and one that does not exist
resolve alike.

`SupportProofs` adds `FinalStaysFinal` (for every pack, agreement and span of time), `WaiversStopAtPickup`
and `CreditsAreOnTheRadar`. The last one combines `RadarInv` (what a panel
shows is what the rules find now) with `NoFindingIsLost`: the alert the rule finds is
in the panel under its own id. A delay above a threshold is positive, so the window has ended
for the radar too; that is where `threshold \in Nat` is needed.

`DatasetProofs` proves `DatasetTypes`, `RequestsKeepOneDataset`, `SnapshotComesLast`,
`OnlyCoherentServed`, `SuccessServes` and `AcknowledgedStays` for any number of files, ingestions, requests,
restarts and faults. The inductive invariant `DatasetInv` says what each actor may still rely on:

- `FileOK`: every file, on the path or not, names its rows' pack, and only once all
  tables are there and the pack passed checks and schema. This makes a request's
  second query agree with its first, in a file nobody else sees any more.
- `IngestionOK`, `AloneOK`: which tables an ingestion has already made in its file,
  and that this file is the one at the path while no other ingestion began.
- `RequestOK`, `AcknowledgedOK`: what a request has read is still what its file
  says; its action is in the served file until an ingestion replaces it.
- `ServerOK`, `ReplacedOK`: nobody works while the container decodes, and what it
  decodes is sound; only a pack that passed the checks ever unlinks a database.

`ChecksMakeTruthful` connects the two halves: what `ingest` checks implies what the engines assume
of their rows; that a resolved reference exists needs the largest index of a
finite set (`WFMin`).

`PanelProofs` proves `PanelTypes`, `ShownIsActedOn`, `NothingAskedTwice`, `CardsAreCurrent`,
`LastRunShows` and `PanelKeepsToLedger` (the refinement without fairness) for any number of
requests, actions and users. The key of `PanelInv` is `UnspentOK`: as long as a success is
shown or may still be delivered, the row has the status it reports and no other request
has taken the step its button offers. It holds because a click replaces the card by
"busy", so each card is spent once; `CallOK` ties a request's stage on the page to its
stage on the server, and `CardOK` the card to `lastAction`.

Assumptions on the constants are `GatewayConstants`, `SlaConstants`, `RadarConstants`
(every pack is well typed with finite tables, ids of issues are not ids of tickets), `IdsAreDistinct`, `AgentConstants`, `SupportConstants`,
`DatasetConstants`, `PacksOK` (a prebuilt database was built by an ingestion, a manifest is a
list), `PanelConstants` (the action panel's requests are no questions),
`NoRowIsNoRow`, `ConstantsOK` (the types of `Actions`; ids and NULLs are
distinct from values) and `NoRowIsNoRecord`; TLC evaluates them in the runs of their modules.

Only model-checked: liveness, which is out of the prover's reach (`EveryCallEnds`, the fairness
in `ImplementsLedger`, `RequestEnds`, `CompleteEnds`, `RebuildServes`, `PanelsSettle`).
`ENABLED` is out of reach with it. The properties of the runs that end in a violation are false and have no theorem.

## 6. Not modelled, and why

- Text: PDF extraction, chunking, tokenising, regular expressions, ranking,
  prompts. They transform data and keep no state; where a property depends on
  their outcome it is a nondeterministic choice.
- `Agent` and `Actions` take the outcomes of the support rules and of `calculate_sla`
  freely instead of using `SupportRules` and `SlaRules`, whose time is another one.
- Alert summaries (`detection/summary.py`): one LLM call that writes prose beside alerts
  already decided; no route calls it.
- Composition of `Agent` and `LlmGateway`: in `Agent` an LLM call succeeds or raises, whatever
  `LlmGateway` does inside it.
- In `Dataset`: SQLite's waiting for locks (a lock delays a statement or fails it), its
  rollback journal, which outlives the unlinking of its file, and an operator who
  ingests while the container decodes.
- In `ActionPanel`: several pages (they share no ids), tabs and rendering, the static list
  of identities, the readiness badge. Two hazards are listed without a property,
  since the page makes no promise there: the copilot's panel shows the answer
  that arrives last, and a change of identity keeps the earlier user's answers.
- Tracing, logging, middleware headers: nothing reads their state back.
- Evaluation and inspection scripts (`scripts/run_*`, `inspect_sources.py`): offline
  measurement, outside the running system.
