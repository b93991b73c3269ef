# Supernova Goal-1: a TLA+ verification project

These modules model the part of `src/src/supernova_goal1` that decides what
counts as evidence: who may register work, who may answer it, what a closed run
contains and what it cost, how an executor is contained, how the authority to run
is published, what is admitted as a product, and which benchmark a check speaks
of. TLC checks them on small instances; TLAPS proves the main invariants for
every value of the constants.

## 1. The system

Goal 1 compares five arms (ordinary, portfolio, product-only, multi-fidelity,
verified chain) on a set of problems, sixteen attempts per problem and arm.
Every attempt is *registered* before it runs, *executed*, *verified*, *signed*
once, and *joined* with all others when the run closes; a *bridge* turns the
closed run into evaluator input.

| Component | State | Operations | Talks to |
|---|---|---|---|
| Dispatch authority (`dispatch.py`) | three SQLite tables per run: state row, entries, completions | open, `current_manifest`, `register`, `close`, `read_closed_join`, `verify_closed_join`, `abort` | every executor and the coordinator, through one database file |
| Completion signer (`dispatch.py`) | a one-time key, in memory | `generate`, `complete` | its executor |
| Verifier adapter (`verifier.py`) | a process group | `run_verifier` | an external verifier and its descendants |
| Control arms (`execution/baselines.py`, `execution/product_controls.py`) | none of their own | `execute_ordinary`, `execute_portfolio_attempt`, `execute_product_only_step`, `execute_multi_fidelity_stage`, all through `_execute_baseline_attempt` | dispatch authority, model port (a chat host), verifier port |
| Verified-chain execution (`execution/verified_chain.py`) | one SQLite table of executions | `_record_execution`, `verify_admitted_product`, `verify_retry`, `execute_verified_chain_step` | dispatch authority, its own ledger |
| Product chain (`arms/verified_chain.py`) | a five-state machine in memory | `propose`, `verify_pending`, `consume_verified`, `discard_rejected`, `finalize` | verifier adapter |
| Hermetic supervisor (`confirmatory_supervisor.py`) | a Docker container per attempt | create, inspect, start, tear down, sign | the Docker daemon |
| Activation (`confirmatory_supervisor.py`, `execution_authority.py`) | two files in `goal1/` | publish, reload, roll back, load | provisioners and loaders, through the file system |
| Evidence ledger and bridge (`evidence_bridge.py`) | three SQLite tables: bindings, execution receipts, hermetic instances | `_register_dispatch`, `_record_completion`, `verify_complete_join`, `bridge_closed_evidence` | dispatch authority, supervisor |
| Confirmatory evaluation (`evaluate_confirmatory.py`, `statistics.py`, `evaluate.py`) | the accumulators of one loop | authenticate, validate, decide; McNemar and Holm | the bridge's bundles |
| Product admission (`admission.py`) | none | `evaluate_product_admission`, `AdmissionPolicy.from_mapping` | the product chain it stands behind, whoever holds the keys |
| Cost accounting (`cost.py`) | none | events, traces, reports, totals | the bridge that reconciles them with signed receipts |
| Benchmark lock and runtime check (`scripts/import_benchmark.py`, `scripts/verify_benchmark_runtime.py`) | a directory of benchmark files and the identity files of a Lean runtime | `build_lock`, `verify_lock`, `check_benchmark_runtime` | editors of those files, `run_verifier` |
| Assignment, manifests, contracts | none | pure functions over immutable values | each other |
| Dry cohort and pilot (`integration/`) | none | drivers of a whole run | all of the above |

What is hard here. Readers of the dispatch authority run in autocommit, so
another process's commit can fall between two of their SELECTs. Signers and
signed records live in memory only, so a crash loses them while the registration
stays. Two ledgers are two databases, so an executor can die between the two
commits. The verifier's leader can exit while its descendants live on. The
activation pair is two files, each linked and unlinked by name, by processes
that may be interrupted between any two system calls. A chat host answers late,
or the wrong call. A directory is hashed file by file while others write to it,
and what a check reads between two verifications it reads unverified.

What makes each component correct:

- dispatch authority: an append-only log with one answer per logical key, and a
  single end that is exact or empty;
- verifier: a verdict is the leader's own exit, a timeout is hard, and a killed
  tree is dead;
- activation: success is durable, refusal withdraws, and nothing loads before it
  is committed;
- verified-chain execution: what the model is shown is genuine, each dispatch is
  used one way, and the two ledgers agree;
- supervisor: no receipt for a container that still exists, and no container
  left behind without a report;
- product chain: only what the configured verifier passed is consumed, once;
- bridge: a bundle covers exactly the plan, stays backed by the ledgers, and
  credits the cost the receipts sign;
- control arms: a product shown to a model is a signed product of an earlier
  attempt, a response counts for its own dispatch, and a port's failure loses
  nothing;
- admission: nobody admits his own product;
- benchmark lock and runtime check: a lock is what the directory once contained,
  and a PASS report speaks of what it names;
- evaluation: only a complete and unblemished cohort is put to the test, faults
  outrank gaps, and the test is the closed test it is meant to be.

## 2. Modules

| Module | Models | Proofs |
|---|---|---|
| `RunLedger` | the abstract promise of the dispatch authority | |
| `Dispatch`, `MCDispatch` | the authority, its processes and their memory | `DispatchProofs` |
| `Verifier`, `MCVerifier` | `run_verifier` on POSIX with its process group | `VerifierProofs` |
| `BenchmarkLock` | one walk of a directory that others edit | `VerifierProofs` |
| `RuntimeCheck`, `MCRuntimeCheck` | `check_benchmark_runtime`, over `BenchmarkLock` and `Verifier` | `VerifierProofs` |
| `Activation`, `MCActivation` | provisioners and loaders of the activation pair | `ActivationProofs` |
| `VerifiedChainExecution`, `MCVerifiedChainExecution` | verified-chain steps over `RunLedger` and the execution ledger | `VerifiedChainProofs` |
| `Supervisor`, `MCSupervisor` | the hermetic supervisor and the Docker daemon | `SupervisorProofs` |
| `Lineage` | the abstract promise of a product chain | |
| `ProductChain` | one `VerifiedChain` and its overlapping callers | `ProductProofs` |
| `Admission` | the decision of `evaluate_product_admission` | `ProductProofs` |
| `AdmittedChain`, `MCProductChain` | a chain and the admission of what it ends with | `ProductProofs` |
| `Controls`, `MCControls` | the four control arms over `RunLedger` and a chat host | `ProductProofs` |
| `EvidenceBridge` | execution ledger and bridge over `RunLedger` | `EvidenceBridgeProofs` |
| `Cost` | cost events, traces, reports and totals | `EvidenceBridgeProofs` |
| `CreditedBridge`, `MCEvidenceBridge` | the bridge with the cost reports it is handed | `EvidenceBridgeProofs` |
| `Statistics` | the exact McNemar p-value and Holm's correction, each with a reference | `EvaluationProofs` |
| `Evaluation`, `MCEvaluation` | the evaluator's validation loop and decision | `EvaluationProofs` |

Which composes which: `Dispatch` is shown to implement `RunLedger`, and
`VerifiedChainExecution`, `Controls` and `EvidenceBridge` are built over it
(`Ledger == INSTANCE RunLedger`) and are each shown to be behaviours of it
(`StepsKeepTheLedger`, `ControlsKeepTheLedger`, `BridgeKeepsTheLedger`). `ProductChain` is shown to implement `Lineage`.
`AdmittedChain` is `ProductChain` with `Admission` behind it, `CreditedBridge` is
`EvidenceBridge` with `Cost`, and `RuntimeCheck` runs `Verifier` between two walks
of `BenchmarkLock`; each is shown to implement the module it extends. The context
receipts of `EvidenceBridge` are those `Supervisor` signs.

### Dispatch

`row`, `entries` and `completions` are the three tables. `view`, `keyring` and
`records` are what each process holds in memory: its manifest, its signers and
the completion records it was given. `BEGIN IMMEDIATE` makes `register`, `close`
and `abort` one action each; a refused call is rolled back and is a stutter.
`current_manifest` and `read_closed_join` are one action per SELECT (`ReadEntries`,
`ReadHead`, `ReadJoinEntries`, `ReadJoinHead`, `ReadJoinState`, `ReadJoinRows`),
and `close` performs the latter itself after its commit, on a new connection.
`Crash` empties a process's memory; `Open` reopens the database. SHA-256 is
symbolic (a digest is the record of what it digests), and so are the one-time
signatures: `signed` holds the bodies that signers have signed, and a signature
verifies over nothing else. `close` may be passed what its caller holds and what it
makes up (`Forged`): another outcome under the registered key, a body under another
key, a dispatch that was never registered.

### Verifier

The host walks through `run_verifier`: spawn, wait, timeout, `poll`, `killpg`,
drain, recovery and the error handler. The leader exits, and descendants are
forked, close their pipe and exit, at any moment. `communicate`, `os.killpg` and the
`process.kill()` of the recovery (line 172) may each fail; when the last is denied
its exception escapes and leaves the leader running, and so does an interrupt
(`Interrupted`), which no handler catches. `trouble` is a history of what the host
met with, so that the properties can say what they need. Fairness is on the host's
steps alone: the operating system schedules the host, timers fire, and a killed
process dies; nothing is assumed of the verifier, which may run for ever, and nobody
need interrupt.

`VerdictIsItsOwnExit` asks of a verdict that the timeout had not expired, so a leader
that exits between the expiry and the kill cannot pass. `NoLeaderLeft` says of a
result that the leader is dead, and of an exception that only a denied kill or an
interrupt leaves it alive. `HardTimeout` excuses a host only in the two waits that
have no timeout, after `communicate` or a kill has failed, and only while a process
it cannot or did not kill holds the output or is not reaped (`Stuck`).

### BenchmarkLock and RuntimeCheck

`build_lock` is a sequence of file-system calls, and `BenchmarkLock` has an action
for each: list and sign the directory, look at a file, read it, look again
(`_sha256_file`), then the second walk without hashing and the last look at every
file and the directory (`_validate_snapshot`). Any file may be put, overwritten or
deleted between any two. A signature (device, inode, size, mtime) is a number, new
with every edit, unless an overwrite falls into one tick of the clock of the file
system: `blurred` remembers that one did, and the properties ask for none.
`history` is what the directory contained after each edit.

`RuntimeCheck` is `check_benchmark_runtime` from the first verification of the lock
to the report. `ReadRecords` reads the validation file by name, with no signature
taken, and `RunSample` are the steps of `run_verifier`, which runs Lean in whatever
runtime is installed then. `Upgrade` changes the identity files of the runtime.
One statement is sampled, the identity files are one, the command that asks for
Lean's version is only its outcome, and the lock file itself stays as it is: it is
read twice in the same way as the runtime.

### Activation

Each provisioner performs its existence checks, preflight, writes, the two
links, the appends to `published`, the reload and the two handlers one system
call at a time, and may be interrupted or die at each. Loaders read the trust
root and then the authority. A file is named by the provisioner that wrote it,
and an authority verifies under a trust root when both carry one root key.
Temporary files have unguessable names and are left out. A provisioner has a root
key (`RootKey`) and nothing keeps two from having the same, so what is shown of a
loader is `MintedUnderALinkedRoot`: whatever it mints was signed with the key of a
trust root that was linked. `RaisedWithdraws` speaks of what a provisioner recorded
and of what it linked but was interrupted before recording: of the latter at most
one file is left, never a pair that loads.

### VerifiedChainExecution

One executor step is: authenticate products and retry predecessor, register,
answer and sign, record, return. The run is `RunLedger`, which `Dispatch`
implements, so a step's manifest is the number of entries it has seen. Both
ledgers only ever gain rows, so the checks of one call, each on a connection of
its own, hold together when the last is made; they are one action. Dispatches
registered and answered outside the step interface are there too
(`DirectRegister`, `DirectAnswer`): the dispatch authority cannot tell them apart.

### Supervisor

A run (`run_hermetic_preflight` or `run_supervised_attempt`) is one container.
Its program counter follows `_run_fresh_container`: identify, create, inspect,
start, attached, reinspect, then `remove` and `probe` of `_observed_teardown`,
then the signature. Every docker command may fail or be interrupted before or
after the daemon did what it was asked, the attached client may return 0 while
the executor runs, and `rm` may return 0 with the container still there.
`failing` says that the except clause is executing. `Seal` is the part of
`provision_execution_authority` that takes the digest of a preflight's receipt;
`Activation` models how it is published. The clean image digest is a pair of the
docker runtime and the container's configuration; that a configuration is
accepted stands for the comparison field by field. Docker is identified once,
at the start of a run: an upgrade between that and the start of the container
goes unnoticed, and the properties speak of the runtime as the run read it.

### ProductChain and Lineage

The five states of the chain, `pending`, `verified`, `last_consumed`, the used
ids and the history are the object's fields. The object has no lock and
`verify_pending` waits for its verifier in the middle, so that part is two
actions (`VerifyPending`, then `VerifierDecides` or `VerifierFails`) and any call
may come in between; the other methods, which do not wait, are one action each.
Callers in threads that overlap inside those are outside the model. `runs` is a
history of what the verifier decided. The verifier is deterministic, as the
docstring of `verify_pending` says of it: an outcome is a function of the
content. `Lineage` is a growing line of accepted products with an end.

### Admission and AdmittedChain

`evaluate_product_admission` collects reasons against a candidate and admits when
there is none. `Admission` is that decision as a predicate, one conjunct for the
absence of each kind of reason, and what `from_mapping` refuses in a policy.
SHA-256 is injective, and the proof of an item is the key under which its HMAC
verifies. `AdmittedChain` presents a candidate, a list of evidence, a policy and a
key ring at the end of a chain, as the dry cohort does, but any that the holders
of the keys can sign: an honest key signs what the chain's verifier decided,
another signs anything. Items that do not stand only reject, so lists are made of
those that do; the decision is evaluated on each list in full.

### Controls

One action for each stage of a call: the checks before registration, `Register`,
the model call, the verifier call with the signature, the return. The chat host
says something once of a dispatch (`Say`), and `ModelCall` may be handed any of its
responses, also one to another call. Either port may raise or return a value that
makes no result. `ResultRaises` is the one path where an exception leaves the call
after registration: an error text that no UTF-8 encodes. `held` are the completions
that reached a caller, `emitted` the products that product-only steps handed out.
Only a product-only step asks for products; in the other arms an observation without
an answer may carry visible text, which may read like a product (`ValidSaid`), and
only the check of the cell keeps it from being shown as one.
A caller may show any product whose completion it holds or makes up. The bytes of
a request are those rendered from the products the call is given and stand for
them. What a request only carries is left out: the name and rank of a stage, and
the number of the attempt it says it retries, which is compared with its own number
only. An aborted run is to a call what a closed one is, and aborts are left out.

### EvidenceBridge

`bindings`, `receipts` and `instances` are the three tables. A problem of the
model is a native problem id, a `Version` is what else its identity is made of,
and a `Place` is an (arm, attempt) pair, so that two requests may have different
logical keys and one slot of the plan. `bound` says that `_slot_for_request`
accepts a request. `mode` is chosen at the start: a draft ledger issues its own
context receipts and keeps no instances. Completions are the answers of
`RunLedger`, but `_record_completion` checks no signature and relies on the adapter
that calls it: it may also be handed a body that nobody has signed (`Unsigned`),
which only the comparison with the joined completion in `CompleteJoin` keeps out of
a bundle. The bridge reads receipts and bindings in two steps, and issues the
bundle with the second. A cost report fits or it does not (`BridgeRaises`); what
fits is the business of `CreditedBridge`.

### Cost and CreditedBridge

`Cost` translates what makes an event, a trace and a report valid and complete, and
the total of a trace. In `CreditedBridge` a caller hands the bridge a report for
each problem. What it may hand in is the constant `Reports`, of which nothing is
assumed, so that the theorems are about any reports. In the run it is the exact
report, the same with its events from last to first, or one in which a trace has an
event dropped, repeated, taken from another arm, given another basis or measured
otherwise, with its own manifest cut to fit or not, and its accounting declared
complete or not.
`Usage` is what the execution receipt of an answer signs; it is a function of the
answer, as a dispatch has one receipt. `arms` says which places of the plan are
attempts of one arm.

### Evaluation and Statistics

The input is any bundle the authority's key may have signed (`Bundle`), because
the evaluator does not rely on the bridge having been careful. What the classes
of a bundle and its records refuse themselves is not asked again: a cell twice,
a status vector of another length, untyped fields. `bound` stands for the
comparison of a record's digests with its bundle and with the experiment,
`evidence` for its eight vectors of digests, and `cost` for what the checks make
of the cost vector: a record with too few calls leaves the loop without a
snapshot and counts as a gap, one above the ceiling as a fault. `Refuse` is
authentication failing, also of a bundle that is signed, since the authority may
be unavailable. `Examine` is one iteration, `Decide` the checks after the loop
and the decision. In `decision`, `SHORT` is the last check of the cohort's size,
which can never decide.

A probability is a pair of integers. `Statistics` follows the code: running
coefficients with a floor division, a doubled and capped tail, a stable sort and
a rejection that stops for good. Its references do not: `CountedP` counts
outcomes, `ClosedRejects` is the closed Bonferroni test, whose familywise error
is known to be controlled. `BootstrapPassed` is the older evaluator's decision on
the same cohort. The descriptive prefix frontier and the report of realized
usage decide nothing and are left out.

## 3. Runs

| Run | Instance | Shows |
|---|---|---|
| `dispatch_core` | 2 processes, 3 requests on 2 keys, 3 signers, 2 outcomes, batches of at most 2 records, signed or not | the safety of the run ledger and that it implements `RunLedger` |
| `verifier` | leader and 2 descendants, denied kills, interrupts; 2 files with 2 contents, 3 runtimes of which 2 fit the pins, 2 edits | verdicts, containment, the hard timeout; that a lock was there; what a PASS report speaks of |
| `verifier_timeout_claim` | leader and 2 descendants | the docstring's claim about TIMEOUT fails |
| `activation` | 3 provisioners of which 2 share a root key, 1 loader | success, refusal and crash of a publication |
| `activation_shared_root_key` | same, one key | the commit-marker comment fails when a root key is used twice |
| `verified_chain_execution` | 2 executors, 1 cell, attempts 0 to 2, 3 outcomes, 1 direct dispatch | lineage, single use, agreement of the ledgers, loss by crash |
| `supervisor` | 1 preflight, 2 attempts, 2 accepted configurations and a drifted one, 1 upgrade | earned receipts, authorised starts, no silent leftovers, every attempt ends |
| `product_chain` | 4 product ids, 2 contents of which 1 accepted, 2 callers; 3 policies, 3 key rings, 2 items of evidence, 1 admission | evidence is of the product, the chain implements `Lineage`, what is admitted was passed by another |
| `controls` | 2 executors, 4 slots of one problem, 3 dispatches, 2 responses of the host | what is shown, what is signed, what is lost, what can be shown later |
| `evidence_bridge` | 2 slots laid out as 1 or 2 arms, 4 requests, 2 outcomes, 2 instances, 2 bridgers, both modes, reports reordered or wrong in one place | what a bundle credits and at what cost, instances, finality |
| `evidence_bridge_late_binding` | same as `evidence_bridge`, 1 outcome, 1 instance, 1 bridger | a "pre-dispatch" binding made after the answer |
| `evaluation` | 4 problems, 3 controls, every cohort up to the order of the problems; every pair of 16 kinds of flaws in one cohort | what may be decided, and that the decision is the closed test's |

Why the bounds are enough. Two processes are the least that race, and three
requests of which two share a key are the least with both a conflict and a
longer log; a batch of two can be exact, partial, replayed or forged. Two
descendants allow one to outlive the leader while another holds the pipe. Two
edits are the least that make a mixture of a file from before one and a file from
after the other, and two files the least that can be mixed; of the three runtimes
one is installed, one fits as well and one does not. Three
provisioners allow a winner, a loser and one that arrives after a withdrawal.
Three attempts allow product, retry and use of a retried product in one chain;
the code's sixteen add length only, and the proofs hold for any number. Two
attempts under one preflight let one be authorised and the other drift; one
upgrade may fall before, between or after them. Four products allow a line of
accepted ones with a rejected and a late one. The three policies are the dry
cohort's with a second check, one under which the judge also authors and the
solver also verifies, and one that must be refused; the key rings hold all keys,
miss one, or hold a substitute. Three product-only slots let a third attempt show
the products of two earlier ones, and two responses with two executors let each
reach the wrong call; at most three of the four slots are dispatched. They are of
one problem: to the code a product of another problem is one of another cell, like
that of the portfolio slot. The two
layouts of the bridge put two attempts in one cell, or one in each of two, between
which an event can be moved. A report is reordered or wrong in one place, since each check of
the bridge is about one event or one manifest. The amounts of a receipt depend on
its place and not on its outcome, so the symmetry of the outcomes is sound. The four requests of the bridge
are the two planned ones, a double of the first slot under another identity and
one the plan does not bind; two instances let both slots be filled, or one dispatch
be supervised twice, and two bridgers let one bundle follow another.
With four problems the p-values are 1/8, 1/4, 1/2, 5/8 and 1; the familywise
error of the run is 5/8, so that the thresholds of three hypotheses, 5/24, 5/16
and 5/8, each separate some of them (with the code's 0.05 nothing would ever be
rejected on so few problems). Problems that trade places make the same cohort.

The type invariants and `TerminalIsFinal` of `Dispatch` are proved and not repeated
in the runs, and so is that `AdmittedChain`, `CreditedBridge` and `RuntimeCheck`
implement the module they extend. `RacesEndWell` is the conjunction
of `RaisedWithdraws` and `RaceHasOneWinner`, and `LedgerAgrees` includes
`ClosedRunIsRecorded`; the parts are proved under their own names.

Every property has a mutant in `PROJECT.json`: a definition changed the way a
plausible bug would change it, under which TLC finds the property violated.

Deadlock is checked in `dispatch_core`. The other systems do stop: a host that
returned, provisioners that ended, a run that is closed, containers that are
gone, a chain that is complete, an evaluation that has decided.

Fairness is assumed in two places. In `Verifier`, and in `RuntimeCheck` which runs
it, it is on the host's steps, interrupts not among them. In
`Supervisor` it is on the steps of a run: `docker start` ends by its timeout, and
of the other commands, which have none, it is assumed that the daemon answers.
That the executor ends or the attached client returns is not assumed.

### What the violated runs say

- `verifier.py:126-127` says TIMEOUT is returned only after the process tree is
  terminated. `_kill_process_tree` returns early when its poll finds the leader
  exited (line 86), be it before the timeout expires or between the expiry and the
  poll, so descendants survive a TIMEOUT. What does hold is `KilledTreeIsDead`: when
  the group was killed, it is dead. The same docstring says that containment failures
  are ERROR; a denied `process.kill()` (line 172) is one that raises instead, which
  `Recover` models and `NoLeaderLeft` allows for.
- `confirmatory_supervisor.py:1212-1213` calls the trust root the commit marker.
  It names a key and not an authority, so with one root key used for two
  provisionings a loader can accept the second authority under the first
  marker. What does hold, and is proved, is `MintedUnderALinkedRoot`.
- `evidence_bridge.py:1334` refuses a completion that "has no pre-dispatch
  protocol binding receipt". `_register_dispatch` (line 921) accepts a dispatch
  that has already been answered, so what the check finds need not have been
  there before the answer.

## 4. Proofs

All proof modules follow one plan: a strengthened invariant `IInv`, shown
to hold initially and to be preserved by each action (one step of the proof per
action, one below it per conjunct it disturbs), and the theorems read from it.

- `DispatchProofs`. `IInv` adds to the typing that the head is the digest of the
  entries, that keys and signers are unique in the log, that every held manifest
  is a prefix of the log, that every record held anywhere, though not every record
  passed to `close`, was signed by the signer its entry commits to, and, per program counter, what a half-finished
  read has seen relative to the tables. The last part is why a join assembled
  from five SELECTs is exact: the head it compared pins the entries. The
  refinement theorem maps every action to a `RunLedger` step or a stutter.
- `VerifierProofs`. For `Verifier`, `IInv` says per program counter whether the
  leader and the group may still live and what trouble the host has had; an interrupt
  keeps it from wherever it comes (`InterruptIInv`). `CheckRunsVerifier` shows that a step of
  `RuntimeCheck` is a step of `Verifier` or leaves it alone, so these theorems hold
  in the check. For the lock, `LockInv` says that signatures come from the edits in
  their order and that two looks at a file with one signature saw one content;
  hence a walk whose looks agree saw, in every file, what was there between its
  first and its last look, and the moment of the lock, when the second walk lists
  the directory, lies between them for all files at once. For the report,
  `ReportInv` carries that moment for both verifications; a content that is the
  same at both and never came back was there all along, and with it the records
  that were read in between.
- `ActivationProofs`. `IInv` relates each file to the program counter of the
  provisioner that wrote it: who has linked and not withdrawn owns the path, so
  no handler that unlinks by name can reach another's file. A loader that holds a
  trust root read it when it was linked, and mints from an authority only under the
  same key; nothing is assumed of who has which key.
- `VerifiedChainProofs`. `IInv` says that what an executor authenticated stays
  true (rows are never removed), that the executor of a dispatch is the only one
  that can sign and record it, and that a completion reaches a caller only after
  its row exists; the last is why a close cannot overtake a recording.
- `SupervisorProofs`. `IInv` is three parts by progress: before the digest is
  known nothing has run (`Early`), from the inspection on the digest is that of
  the container and of the authority (`Measured`), and after the lifecycle the
  container is gone and the executor ended cleanly (`Late`).
- `ProductProofs`. What is pending or verified is the successor of the last
  consumed product and not yet in the history; a caller that comes back late
  either holds the pending product itself or changes nothing. The refinement
  theorem maps consumption to growth of the line and all else to stuttering.
  `DecisionIsIndependent` is about one decision: as a valid policy commits no key
  for two authorities, an item from another authority is under another key.
  `AdmissionIsIndependent` puts it behind the chain, where outcomes stay decided,
  and `AdmittedImplements` shows that admission leaves the chain alone.
  For `Controls`, `ControlInv` follows each call from its checks to its return
  (`CallInv`): the products it has checked were signed by earlier attempts of its
  cell and stay so, because the log and the answers only grow (`Grows`); what it
  observed is a response to its own dispatch or an error (`Obtained`); what it
  signed is what it observed (`SignedResult`). A dispatch that is neither held by
  a caller nor under way is then one whose process died or whose result raised. That
  what a step shows is a product rests on the arm (`ShowsInItsArm`): elsewhere a
  signed text without an answer need not be one.
- `EvidenceBridgeProofs`. A closed run is frozen and has one answer and at most
  one receipt for each dispatch; so when the receipts a bridger read cover the
  join, it has read all there will ever be (`CoveredIsAll`), whatever was
  recorded between its two reads. `CreditedImplements` carries all of it over to
  the bridge with cost reports (`CreditedIsBacked`). `CreditsAreSigned` is about the numbers. A report
  that was accepted holds, for each cell, one event of each kind for each joined
  answer, with the amounts its receipt signs, and nothing else (`ReconciledIsExact`),
  in whatever order the caller listed them and whatever reports callers may hand in
  (`Reports` is open). The code folds over that list, the
  reference adds over the set of answers; both sums are counted as a number of
  units, one for each token or millisecond of each term (`SumCounts`,
  `TotalCounts`), and terms that correspond one to one have the same number
  (`CorrespondingSums`).
- `EvaluationProofs`. The loop invariant says what the accumulators know of the
  records seen so far (`Accumulates`), that no blocker means no fault among them
  (`NoFaultSeen`), and that no name twice in the accumulated evidence means no
  evidence twice in the records (`NoReplaySeen`, `NoTraceReplaySeen`). After the
  last record these speak of the bundle, and the priorities follow.
  The statistics are functions of the cohort and are settled step by step.
  `LowerTailCounts`: the running coefficient, divided down at each step, is the
  number of subsets of its size (`Ways`; the division is exact since `k` times the
  one is `n - k + 1` times the other, counted as pairs), so the tail is a number of
  subsets. `McNemarCounts`: doubled and capped it is, over `2^n`, the share of the
  outcomes at least as uneven. `HolmIsClosed`: the ranks of a stable sort are
  places in a linear order, so a set of hypotheses that holds the one in question
  has a member whose rank leaves it at least as many as the set has; stepping down
  and testing every set come to the same. `OrderIsNoMatter`: the closed test knows
  hypotheses and no order, whence both evaluators pass the same contrasts.
  `McNemarIsMonotone`: one problem more doubles the outcomes but at most doubles
  the tail (`TailGrows`), and doubles it at least when it ends one later
  (`TailShrinks`), so who is ahead gains by a win more and by a loss less. Only
  `Decide` writes the decision, so these facts about one cohort are invariants.
  The same counts say what `FAMILYWISE_ALPHA` is for. `Chance` is any finite set
  of equally likely cohorts. The candidate is no different from a control
  (`OnlyChance`) when, of the cohorts in which the two differ on a given set of
  problems, as many have one part of that set fall to the candidate as any other:
  every set of cohorts closed under handing single problems from one arm to the
  other is of this kind, and nothing is asked of the other arms. `McNemarIsValid`:
  of the `2^n` ways at most a share `alpha` has a p-value of at most `alpha`, since
  they are among those at least as uneven as the most even of them. `ChanceIsValid`
  carries this to cohorts, one set of discordant problems at a time.
  `ClosedTestHoldsLevel`: whatever true hypothesis is rejected, the set of all the
  true ones was tested, and that happens with at most the sum of the shares
  (`UnionBound`), however the contrasts depend on each other. Hence
  `FamilywiseErrorIsHeld`: whichever controls only chance separates from the
  candidate, it passes one of them in at most a share `Alpha` of the cohorts.

Induction over data takes a form the prover accepts. The library's induction
theorems have an operator parameter; `Induction` and `FiniteInduction` (in
`EvaluationProofs`, the latter in `EvidenceBridgeProofs` too) are about a set
instead: a set of numbers closed under the successor, or of subsets closed under
adding an element, holds them all, since by `WFMin` its complement would have a
least member. Recursive functions and folds are unfolded one step at a time, and
the set is the set of the arguments for which the claim is right.

Assumptions are the named `ASSUME`s on the constants, evaluated by TLC in every
run. Nothing else is assumed. Those of `Evaluation` are that the two lists of the
controls are sequences of the same distinct arms, that the canonical order lists
each cell once, and that the level is a fraction; the number of controls, of
problems and the level are open. In `Statistics` a p-value is a pair of integers:
that the code's floats order and compare like the fractions is not proved.

Model-checked only: the liveness properties `HardTimeout` and `AttemptEnds`, since
liveness and ENABLED are outside what the prover handles. Every other property of
a passing run is a theorem.

## 5. Not modelled

- Manifests (`confirmatory_manifest.py`, `run_manifest.py`), contracts, artifacts
  and problems are immutable values validated field by field. They have no state
  and no order of events; the models use them as records. The typed contracts of
  the control arms (`arms/`, but for the verified chain) state again what the
  adapters of `Controls` check.
- Assignment is a seeded permutation; what it computes is a property of a hash.
- Of `cost.py`, `compare_complete_cost` and `budget_violations` order and bound two
  totals; nothing that accepts a run calls them.
- Predecessor receipts of the bridge are recomputed from the plan alone and say
  `RECONCILED` of whatever was planned; there is nothing a caller could get wrong.
- The Go executor and the toolchain probe keep no state from one request to the
  next. Of the benchmark scripts, assembling records, validating a confirmatory
  benchmark, writing the lock file and `evaluate_goal1` are one-shot conversions.
- The drivers of `integration/` call each operation once, in order, and raise at
  the first failure; what they put together is in `AdmittedChain`.
- The Windows branch of the verifier, the field-by-field validation of the
  activation artifacts and of the container configuration, the launcher's file
  checks, and symbolic links and junctions in a benchmark tree are left out.
- That the bytes a supervisor is given are the canonical frozen request, whose
  digest the ledger expects in the context receipt, is the caller's business; the
  model takes it for granted.
- Of the docker commands and of the ports of the control arms, those without a
  timeout may hang their caller; no document promises otherwise, and no liveness
  property speaks of it.

`PROJECT.json` lists every component with its status and the hazards with the
property that covers it.

## 6. Plan

Done, in order of importance: `RunLedger` and `Dispatch`; `Verifier`;
`Activation`; `VerifiedChainExecution`; `Supervisor`; `ProductChain` and `Lineage`;
`EvidenceBridge`; `Statistics` and `Evaluation`; `Controls`; `Admission` and
`AdmittedChain`; `Cost` and `CreditedBridge`; `BenchmarkLock` and `RuntimeCheck`; the
proofs of every safety property the runs check.

To come:

1. `Cohort`: the drivers of a whole run over the composed system, the sixteen
   attempts of a cell (an off-by-one would drop the last or ask for one more), with
   the assignment of arms to problems, and the liveness of a run: it is closed or
   aborted.
2. An abstract statement of what a credited run is, which `CreditedBridge`
   implements, and the Windows branch of the verifier.
