# Formal model of the outcome-verified settlement verifier

TLA+ modules, TLC configurations and TLAPS proofs for the settlement core
(`packages/core/src/chainaim_settlement_core`) and the HTTP service
(`services/settlement-verifier`). Paths below are relative to the repository
root; `core/` stands for the first of the two directories, `svc/` for the second.

- [1. The system](#1-the-system) — inventory, interactions, what is hard
- [2. The modules](#2-the-modules) — what models what
- [3. The runs](#3-the-runs) — what TLC checks, bounds, fairness, mutants
- [4. The proofs](#4-the-proofs)
- [5. Where the documentation and the code differ](#5-where-the-documentation-and-the-code-differ)
- [6. Not modelled](#6-not-modelled)

## 1. The system

A buyer opens a *deal* (`ref`) with a rate per unit, a cap and a commitment (a
criterion and, for `artifact_match`, the sha256 of each unit). Units are
delivered one by one. A unit that passes the gate ladder releases one tick of
the rate, as far as the cap goes; the first one that fails closes the stream.

| component | source | state | operations |
|---|---|---|---|
| wire contract | `core/contract.py` | none | validation of requests |
| gate ladder | `core/gates.py` | none | `evaluate_unit`: L1 arrived, L2 declared checksum, L3 committed bytes |
| engine | `core/engine.py` | open request, plugin, tick, settled total, closed flag, verdicts, trace, seen seqs | `open`, `advance`, `close`, `receipt` |
| trace | `core/trace.py` | the lines in the engine | six line emitters; validators read them back by position |
| display | `core/engine.py` `_render_display` | none | the transcript in each answer |
| metering plugin | `nest_plugins_reference` (not in the repository) | clock, drained amount | `open_stream`, `advance`, `close_stream` |
| signing | `core/signing.py` | the process's private key | `sign_verdict`, `verify_verdict` |
| attestor guard | `core/attestor.py` | allow-list, payee key | `clear_for_release`, `sign_attestation` |
| HTTP service | `svc/app.py` | sessions by ref, `open_lock`, one lock per session | `/settle/open`, `/advance`, `/close`, `/verify`; read-only `/`, `/health`, `/skill.md`, `/pubkey` |
| demo run | `svc/app.py` `_run_demo` | none | `/demo/settlement`: an engine of its own plays two units it makes itself |
| smoke program | `svc/smoke.py` | three fixture files | good, l3 and l2 runs over the fixtures with an exit code; `--regen` rewrites them |

**How they interact.** The service validates a request with the contract models,
takes the lock, in the `signed` tier asks the attestor guard, then awaits the
engine. The engine calls the ladder synchronously and the plugin through
`await`. The engine's answer is signed (signed tier) and returned. Outsiders —
validators, the buyer — see answers, traces and signatures only.

**What is hard.**

- `advance` and `close` suspend at the plugin's awaits with the engine half
  updated: the tick is bumped before the await and the money added after it
  (`engine.py:202-204`); the closed flag is set after the await
  (`engine.py:249-252`). Correctness rests on the caller's lock.
- `/settle/open` checks before an await and registers after it
  (`app.py:264-274`); `/settle/advance` looks the session up before it has the
  lock (`app.py:279-284`).
- There are three accounts of the same money: the engine's total, the plugin's
  ledger and the tick lines of the trace. A fourth, the transcript, is derived.
- The cap may cut a tick, be met exactly, or be used up when a unit passes.
- A raised error in the middle of `advance` leaves the seq seen and the trace
  longer (`engine.py:148-181`).
- Retries: a lost answer, the same seq again, close twice, a unit after close.
- A plugin call that raises, or a task cancelled while it waits for one, ends the
  method at its await, before or after the plugin has moved; nothing in
  `engine.py` catches that and the session goes on being served.
- Restarts: sessions are in memory, and the signing key may be too.
- The smoke fixtures outlive the program that made them, and `--regen` can be
  killed between or inside its three writes.

**What makes each component correct.**

- *ladder*: a unit passes exactly when it meets every part of its criterion;
  stricter criteria pass fewer units; the reason names the first failure.
- *engine*: `billed <= rate * verified` and `billed <= cap` at every await;
  nothing moves after a failure or a close; answers are cumulative; every call
  returns; a failure closes without a caller.
- *trace, display*: the trace alone yields what was billed and verified; the
  transcript says the same.
- *guard, signing*: nothing unvouched enters a signed deal; a signed answer
  verifies.
- *service*: all of the above while requests interleave; one session per deal;
  every request is answered.
- *demo, smoke*: what a run reports is what its engine did, on whatever files it
  finds; every run ends.

`PROJECT.json` lists the hazards one by one, at their lines, with the properties
that would show each going wrong.

## 2. The modules

```
Contract ── Gates ── GateLadder ── MCGateLadder, GateLadderProofs
   │          │
   │          └─ EngineState (+ PaymentStream, TraceLines, Display)
   │               ├─ Meter
   │               ├─ SettlementEngine ── EngineProperties (+ Meter, TraceValidator)
   │               │    │                   ├─ MCSettlementEngine
   │               │    │                   └─ EngineFaults ── MCEngineFaults
   │               │    └─ DemoRuns ── MCDemoRuns
   │               └─ SettlementService (+ Attestor) ── ServiceProperties
   │                                                      └─ MCSettlementService
   └─ Settlement   (abstract; instantiated by EngineProperties, MCSettlementService)

EngineStateProofs   (lemmas about Meter and EngineState)
   ├─ SettlementEngineProofs ── DemoRunsProofs
   │         └──────────────┐
   └─ TraceProofs ──────────┴─ EngineRecordProofs ── EngineFaultsProofs
          └─ ServiceProofs
```

**Contract** — the admitted requests as sets. What a pydantic validator refuses
is outside the sets, so the models start where the handlers start. Refs and
delivered byte strings are atoms. A digest is the pair of algorithm and chunk:
hashing is injective, and a digest of one algorithm is never one of another.
Algorithms fall into three kinds by the shape of their hex digest, because
`declared_checksum` must have 64 hex digits whatever `algo` is, and because
`hexdigest()` of an extendable-output digest raises. `Embedded[c]` is the set of
refs that occur in the bytes of chunk `c`.

**Gates** — `evaluate_unit` with its early returns in the code's order, and when
it raises. **GateLadder** puts arbitrary units to it and states, without any
order, what each criterion asks.

**PaymentStream** — *external*: the metering plugin as the engine's use of it
assumes it. `advance(now)` pays the rate for every tick since the last
settlement, as far as the cap goes; it knows nothing of verdicts. Whether
`close_stream` settles ticks elapsed since the last `advance` cannot be read off
the engine, so both happen in the model, and the properties hold either way.

**TraceLines / TraceValidator / Display** — a trace line is a record; the
validator's reading turns a line into the sequence of its `:`-separated parts
and takes fields by position, like `_billed_from_trace` of
`packages/core/tests/test_engine.py`. `RefParts` says into how many parts a ref
falls. The display keeps what its sentences claim (which rows read PAID, the
totals, finished or not) and drops the wording.

**EngineState** — the fields of one engine and the synchronous stretches of its
methods, from one await to the next, as functions from state to state. They are
shared by the two modules below, which is what makes the composition faithful:
the service runs the same stretches the engine module is proved about.

**SettlementEngine** — one engine and a caller that uses one method at a time.
Each stretch is an action: `AdvancePass` runs from the call to the await of
`plugin.advance`, `PluginAdvance` is the plugin, `AdvanceResume` the rest of
the method. `call` holds the await a method has reached and its local variables
(`seq`, `reason`, the plugin's result), `outcome` how the last method ended,
`out` the last answer. Errors are actions: opened twice, never opened, another
deal's ref, a duplicate seq, a rate or cap of 0, the `TypeError` of a digest
without length.

**Meter** — the relation between the engine's tick and total, the plugin's clock
and ledger and the verdicts, for each await a method can be at. It knows nothing
of callers: the engine's and the service's invariants both use it.

**EngineFaults** — a `SettlementEngine` whose plugin fails: `Interrupted` ends
the method at whatever await it has reached, with everything done so far kept,
so a call may fail before the plugin has moved (`advance`, `close_stream`) or
after (`drained`, `receipt`). A stream the plugin has closed takes no further
call. Everything else is `SettlementEngine`'s own step.

**DemoRuns** — the smoke program and `_run_demo` as sequential clients of an
engine of their own (the actions are `SettlementEngine`'s, called in the order
of the scripts, with no handler between an error and the exit code). Smoke runs
read the fixture files: `disk` keeps each as its content, missing, or torn by a
write that was cut short. `--regen` is one action per file; it can be killed
between and inside the writes, and between runs a developer edits the scenario
in the program or a payload in a file. `--rate` and `--max-total` override the
commitment. An artifact is the bytes and their checksum; `Flip` is the bit the l2
mode inverts.

**Settlement** — the promise, without machinery: terms, verdicts, billed total,
status. A unit is judged when everything due is paid, released at once, the
first refusal ends the session. `EngineProperties!KeepsPromise` instantiates it
with the engine's fields.

**Attestor** — keys, signatures and the tier guard. Ed25519 is ideal: a
signature is the pair of key and message. Public keys travel as text that is
normalized before it is compared.

**SettlementService** — request slots, session table, locks. `asyncio.Lock` is
external and serves waiters in order, so a lock is the queue of the requests
that asked for it. A slot is reused after its answer, so any sequence of
requests is possible, concurrent up to the number of slots, and a client whose
answer was lost is one that sends again. `Restart` empties the process: sessions
gone, requests in flight unanswered, and a new key unless the seed is pinned.
Handlers are not cancelled when a client disconnects, so there is no such action;
what a failing plugin does to one engine is `EngineFaults`.

**MC*** modules give the constants their values. Operators named as *mutants* in
a comment stand next to the definition they distort; `PROJECT.json` pairs each
property with one of them, and TLC finds the property violated when the mutant
takes the definition's place.

## 3. The runs

| run | instance | shows |
|---|---|---|
| `gate_ladder` | 2 refs, 2 chunks, all criteria, four algorithms of all kinds | `LadderSound`, `CriteriaOrdered`, `ReasonNamesFirstFailure`, `CommitmentBinds` |
| `engine` | 4 budgets + zeros, 3 criteria, 8 deliveries on 4 seqs | the accounts, the trace, the transcript, finality, refinement, liveness |
| `engine_xof` | the same with `shake_128` | the accounts survive the `TypeError`: `TraceReconciles`, `HalfDoneIsUnpaid`, refinement |
| `engine_faults` | the instance of `engine`, any plugin call may fail | what survives: `FaultInv`, `BilledWithinVerified`, `TicksAreEarned`, `TraceNeverOverstates`, `ClosedIsFinal` |
| `service_race` | 3 slots, 1 deal, 7 bodies, slot symmetry | locks: `LedgersAgree`, `TracesAgree`, `AnswersAgree`, `OpenNeverReplaces` |
| `service_deals` | 2 slots, a hash-only and a signed deal, 10 bodies | `DealsKeepPromise`, `RequestsAnswered` |
| `service_signed` | 2 slots, signed tier, 9 attestations and none, 1 restart, pinned seed | `OnlyVouchedUnitsEnter`, `SignedAnswersVerify` |
| `demo_runs` | 2 scenarios, 2 edits, 5 overrides, all modes, any number of runs | `GoodRunsPass`, `BadRunsShowOneRefusal`, `DemoAnswers`, `RunsEnd` |
| `engine_paid_items`, `engine_split`, `engine_algo`, `service_reopen` | one property each | violated: see section 5 |

**Bounds.** Rate and cap are drawn from (2,3), (2,4), (5,3) and (1,9): the cap
cuts the second tick, is met exactly by the second, cuts the first, is never
reached; (0,3) and (2,0) are refused. Under `checksum` and `ack_received` three
seqs can pass, one more than the tight budgets pay for, so the `cap-reached`
close happens. Seq 0 can be genuine, corrupted (checksum of other bytes) or
swapped (honest checksum, wrong bytes); other deliveries carry no checksum, a
checksum of another 64-digit algorithm, an uncommitted seq, or the right bytes
for another deal. Longer deals repeat these situations: the state that matters
between calls is whether money is left, whether the session is closed, and
which seqs are used. In `service_deals` the hash-only deal gets
units that come genuine or corrupted, so a failure closes it while the other deal
and its other requests go on, and units arrive after that; the signed deal's cap (3,
rate 5) is used up by its first unit, so the second one ends it with `cap-reached`
when it is vouched for and is turned away with 403, holding the lock, when it is
not. Two slots make every two-party interleaving at the awaits;
the third lets a request queue behind two others. One restart separates two
lives of the process. In `demo_runs` a payload is a name and its last bit; the
overrides leave the commitment as it is, let the cap cut the second tick, be
reached by the first and cut it, and ask for a rate of 0; the edits are new bytes
and the second body with its last bit inverted, each with and without a new
checksum. Nothing in the engine is bounded artificially: seqs are finite, so runs
end by themselves, and the only counter with a bound is `MaxRestarts`.

**Symmetry** is used in `service_race` only, over request slots, which are
interchangeable, and in a run with no liveness property.

**Deadlock** is checked in every run: a client may always call again.

**Fairness.** `SettlementEngine` has weak fairness on `Resume`: the event loop
resumes a coroutine whose await is over, and the plugin's methods end (they are
in-memory computations). Calling is never fair: no property assumes that a
caller closes, or delivers. `SettlementService` has weak fairness for the
handler of every slot, for the same reason; a queued request is continuously
enabled from the moment it heads the queue, so weak fairness is enough. Restart
is not fair. `DemoSpec` is weakly fair to a run in progress and to a
`--regen` in progress (a process that runs goes on), never to starting, killing
or editing. `FaultSpec` has no fairness and is used for safety only.

**Some properties, in words.**

- `MeterInv` — the engine's clock and ledger against the plugin's and the
  verdicts, separately for each await. The clock runs one tick ahead only while
  a verified unit waits for its money.
- `TraceReconciles`, `TicksAreEarned` — a validator that sees only the trace
  arrives at the settled total; each tick line directly follows the line that
  cleared its unit; no seq is paid twice.
- `DisplayMatchesTrace` — the transcript's total is the sum of the ticks, and
  a refused row comes last, on a finished settlement, with no tick.
- `CommitmentBinds` — over pairs of a unit and a deal: whatever else is delivered
  under the hash a unit passed with passes only as the same bytes, and only for a
  deal these bytes name.
- `HalfDoneIsUnpaid` — a unit whose digest raised counts as seen and has no verdict;
  its ack line is all the trace ever says of it, and its session has paid nothing.
- `AnswersAgree` — of any two answers about one deal one trace extends the
  other, and the totals with it, whoever got them.
- `OnlyVouchedUnitsEnter` — every ack line of a signed deal belongs to exact
  bytes that an allowed, non-payee key signed for this deal and this seq.
- `LedgersAgree`, `TracesAgree` — with no request inside a deal's engine, the
  plugin's ledger, the engine's total and the sum of the trace's ticks are one
  number, within rate × verified and the cap.
- `FaultInv` — with a failing plugin the accounts no longer agree, but keep an
  order: plugin clock <= engine tick <= verified units, and engine total <=
  plugin ledger <= what the clock and the cap allow. A payment the engine missed
  is made up for by the next unit's or by the close. `TraceNeverOverstates` — what
  the ticks claim never exceeds what the plugin moved; what they miss shows as the
  difference to the close line, which states the plugin's own total.
  `NothingAfterRefusal` is *not* among the properties of `engine_faults`: when
  `close_stream` raises on a refused unit the session stays open, and a later
  genuine unit is paid. It holds as long as the plugin's calls return.
- `GoodRunsPass` — once past the fixture check a good run never ends UNEXPECTED,
  and no edited payload got past the check. `BadRunsShowOneRefusal` — on files
  that belong together, a bad run shows one tick and one refusal for the right
  reason, and exits 0 exactly if the cap leaves something over.
- `KeepsPromise` / `DealsKeepPromise` — refinement of `Settlement`, including
  its liveness: what is due is released, and a refusal ends in a close.

## 4. The proofs

TLAPS checks these for all values of the constants: any refs, chunks, sets of
requests and units, rates and caps, any criterion and digest.

`GateLadderProofs` — `TypeCorrect`, `LadderSoundAlways`, `CriteriaOrderedAlways`,
`ReasonNamesFirstFailureAlways`, `CommitmentBindsAlways`. The invariant
`Answered` (the result on record is the ladder's answer to the unit on record)
is inductive by inspection; the content is the case analysis of the ladder
against the order-free statement (`EvaluateSound`).

`EngineStateProofs` — lemmas about each stretch of `EngineState`: its type, what
it does to the meter (`MeterPays`, `MeterBilled`, `MeterCloses`, …: from the
relation of one await to that of the next), what it appends to verdicts and trace
(`Grows…`), and when the ladder passes a unit (`LadderPasses`). They mention no
caller, so the theorems about one engine, about the service and about the
demonstrations rest on the same ones.

`TraceProofs` — what a validator recovers from a trace, stretch by stretch.
`Tells(t, rate, billed, verified, closed)` says that the lines of `t`, split by
position, state these numbers; `TellsOpened`, `TellsReceived`, `TellsJudged`,
`TellsBilled` and `TellsClosed` show that each stretch moves the engine's fields
and what its trace tells by the same amounts. The sum over the tick lines is a
recursive function, so that one more line adds its amount needs an induction. The
library's induction theorems cannot be used (they take an operator as parameter);
`SetInduction` states induction for a *set* of naturals and gets it from the
least element of what is missing (`WFMin` on `<`). From it come that the sum
exists for every trace (`TallyExists`) and does not depend on later lines
(`TallyPrefix`). All of it assumes `PlainRefs`, that no ref contains the
separator: without it the fields shift, which is the finding `engine_split`.

`SettlementEngineProofs`:

- `TypeCorrect` — `Spec => []TypeOK`; `TypeStep` has one step per action.
- `MeterCorrect` — `Spec => []MeterInv`. `BilledWithinVerified` is not
  inductive: while the plugin has paid and the engine has not yet added it up,
  the bound on the total says nothing about what is about to be added. `MeterInv`
  is the strengthening: it fixes, per await, the plugin's clock and ledger
  relative to the engine's, and the total as exactly
  `min(rate * verified, cap)` (`Settled`), that of one unit fewer (`Unpaid`), or
  still to be added (`PaidOut`). The arithmetic is that one more tick pays what
  one more verified unit is due.
- From it: `BilledWithinVerifiedAlways`,
  `NothingAfterRefusalAlways` (whichever way `close_stream` treats elapsed
  ticks), and, from the actions' guards, `ClosedIsFinalAlways`.
- The parts of two liveness properties that need no fairness: `NoMethodLoops` (a
  method in progress runs alone, `AwaitsLeft` falls with each of its awaits, and it
  no longer raises, so `CallsComplete` rests on nothing but the plugin's calls
  ending) and `RefusalIsClosing` (no reachable state has a refusal and a stream
  that nobody is closing).

`EngineRecordProofs`:

- `CumulativeOutAlways` needs the invariant `AnswerOnRecord` (the last answer is
  a prefix of what the engine has on record) and that every step grows the record.
- `TicksAreEarnedAlways` and `SeenUnitsAreJudgedAlways` rest on `RecordInv`:
  the tick lines and verdicts in the trace are those of seen seqs, and a unit
  that waits for its money has its clearing line last. The second theorem
  assumes a digest of fixed length; `engine_algo` shows what happens otherwise.
- `TraceReconcilesAlways` (for `PlainRefs`): the invariant `TraceInv` says that
  the trace tells of the total and the verdicts at every await, and which amount
  is still missing from both; `TraceReconciles` is that at rest, and `rate *
  verified` comes from `MeterInv`.
- `DisplayMatchesTraceAlways` (for `PlainRefs`): the transcript is rendered from
  the verdicts and the total of an engine at rest, whose trace tells the same
  (`SnapshotMatches`); that a refused row is the last one is an invariant of its
  own, for a closed engine takes no unit.
- `KeepsPromiseSafely`: under the mapping `Promise`, the initial states of
  `SettlementEngine` are initial states of `Settlement`, and each of its steps is
  a step of `Settlement` or a stutter: the verdict of a unit and the payment it
  releases are the abstract steps, taken where the engine's fields move.
- `PaidUnlessCapUsed`: the invariant `ReleaseInv` says of every verified unit that
  it was paid at least one unit of money, is the last one and waits for its money
  at this await, or met a cap of which nothing is left and is being closed. What
  the transcript shows as PAID is this, on a snapshot.
- `SplitIsUnambiguousForPlainRefs` (for `PlainRefs`): every line of an answer's trace,
  split by position, gives back the fields its emitter wrote, each in its place
  (`ReadsBack`, by kind of line), and the amounts read from the ticks add up to the
  stated total.
- `HalfDoneIsUnpaidAlways`, for every digest: the invariant `HalfDoneInv` says that
  only seen units have lines, that one without a verdict has its ack line and no
  other, that such units exist only where the digest can raise, and that no unit of
  such a session ever passes. That nothing was paid is then `MeterInv`.

`EngineFaultsProofs` — `FaultInvCorrect`, from which
`BilledWithinVerifiedUnderFaults` and `ClosedIsFinalUnderFaults` follow,
`FaultTypeCorrect`, `TraceNeverOverstatesAlways` (for `PlainRefs`; `FaultTraceInv`: an
open session's trace still tells what the engine has on its books, and the one line
that may state more is the last), and `TicksAreEarnedUnderFaults`: `RecordInv` does not mention the money, so losing an
answer leaves it inductive. `MeterInv` is lost with the first failure; `FaultInv` weakens
its equations to the inequalities a missed answer leaves standing, and has to
bound the plugin's ledger by its own clock, for the engine's total no longer says
what the plugin did.

`ServiceProofs` — the handlers inside an engine are shown to be one of two kinds
of step, `Stay` and `Leave`, that moves one session's engine by one stretch
(`EngineAdvances`). `ServiceInv` says for every slot what its stage entitles it
to (whoever opens heads `open_lock` and found no session, whoever is inside an
engine heads its session's lock), and for every session that its engine is
metered as the await of the one request inside it demands, or at rest if there is
none. Without the locks neither half is inductive.

- `QueuesCorrect` adds `QueueInv`: each lock's queue holds exactly the requests
  that asked for it and are not answered, each once; every step moves a queue in
  one of three ways (`QueueStep`: a newcomer joins at the end, the head leaves, or
  nothing happens), except a restart, which empties them all.
  `ServiceTypeOKAlways` follows.
- The safety half of `RequestsAnswered`: `EveryLockHasItsHolder` (whoever waits has
  a request at the head of its queue that may run, or waits for the plugin inside;
  no lock stays with a request that was answered or lost).
- `LedgersAgreeAlways` follows from `ServiceInv`, `OpenNeverReplacesAlways`
  from how sessions move under it.
- `OnlyVouchedUnitsEnterAlways`: a judged unit adds a delivery line of its own
  bytes only, and only when the tier guard cleared it (`ClearedIsVouched`).
- `AnswersAgreeAlways`: every answer of the present life is a prefix of its
  session's record (`ReplyOK`), so a new answer agrees with all the older ones.
- `TracesAgreeAlways` (for `PlainRefs`): the books of every session, total and
  trace, tell the same whatever its await, by the lemmas of `TraceProofs`.
- `DealsKeepPromiseSafely`: for an arbitrary ref `r` — the run has two — the
  instance `Deal(r)` of `Settlement` on the fields of that session. Requests on
  other deals are stutters of `r`'s promise; a restart, which no session survives,
  takes it back to its initial state.
- `SignedAnswersVerifyAlways` (for `SeedPinned`): a slot that holds an answer of a
  signed deal holds a signature of the pinned key over exactly that answer
  (`SignedOK`), and restarts do not change the key.
- `AnswersKeepTheCap`: an answer's first trace line states the terms its session was
  opened with (`HeadInv`), a session keeps within them (`SessionsWithinTerms`), and so
  does every answer on record (`CapOK`), also one of an earlier life.

`DemoRunsProofs` — a step of a demonstration is a step some caller of
`SettlementEngine` can take, or the start of a new engine (`DemoIsEngine`), so the
types and `MeterInv` carry over. `DemoInv` adds what the files on disk can be
after any sequence of writes, cuts and edits (`DiskInv`), what a script read from
them can therefore be (`ScriptInv`), and that the engine has judged exactly the
units delivered to it, up to the first it refused (`Keeping`). `DemoCorrect`
is `DemoSpec => [](TypeOK /\ MeterInv /\ DemoInv)`; `GoodRunsPassAlways`,
`BadRunsShowOneRefusalAlways` and `DemoAnswersAlways` compute from it what an
ended run reports: the verdicts from the script (`VerdictOnScript`), the totals
from the number of passes (`ReportedFacts`).

Hypotheses of single theorems: `PlainRefs` (a ref is one part of its line, as
`trace.py:17-19` presumes; not enforced, hence the finding), `SeedPinned` (as
`svc/app.py:117-129` asks of a deployment whose receipts are to last) and, for
`SeenUnitsAreJudgedAlways`, a digest of fixed length. TLC's instances satisfy each of them.

Assumptions used: `ContractAssumption` (seqs are naturals, `Embedded` is a
function to sets of refs), `NullAssumption` (a missing value is no ref or
digest), `AlgoAssumption` (the check of `engine.py:73`), `InputAssumption` and
`BodyAssumption` (inputs pass the contract), `NoSessionAssumption` (no session is
not a session), `SignatureAssumption` (no signature is not a signature),
`ServiceAssumption` (sha256, the bound on restarts) and `ScriptAssumption` (what
the demonstrations open and deliver is among the inputs, and they use sha256). TLC
evaluates each of them in the runs.

Model-checked only: the liveness properties `CallsComplete`, `RefusalCloses`,
`RequestsAnswered` and `RunsEnd`, and the liveness part of the two refinements
`KeepsPromise` and `DealsKeepPromise`: fairness and ENABLED are outside the
prover's reach. What of the first three needs no fairness is proved, as said
above. Every invariant and every step property the runs check is also a
theorem.

## 5. Where the documentation and the code differ

Each has a run whose counterexample shows it, and a theorem that says how far the
statement holds after all.

- **Items shown as PAID that were not** (`engine_paid_items`). A unit verified
  when the cap is used up closes the stream without a release, and its row still
  reads PAID (`engine.py:304`). `SKILL.md:58`: "which items were paid".
  `PaidUnlessCapUsed`: this is one item at most, the last of a settlement finished
  with nothing of its cap left.
- **The trace does not always split** (`engine_split`). `ref` is any string
  (`contract.py:169`); with a `:` in it the fields shift. `trace.py:17-19`:
  "Every embedded value is colon-free". `SplitIsUnambiguousForPlainRefs`: where that
  is true of the refs, every line of every answer's trace splits into the emitter's
  fields.
- **Not every unusable digest fails at open** (`engine_algo`). `shake_128` is
  in `hashlib.algorithms_available`, its `hexdigest()` raises `TypeError` in the
  middle of the first content unit (`gates.py:62`). `engine.py:71-72`: "fails
  fast at open, not per unit at decision time". `HalfDoneIsUnpaidAlways`: what the
  late failure leaves behind is one ack line for the unit, and no money was paid.
- **The cap holds for a session, not for a deal** (`service_reopen`). Sessions
  are a local of `create_app` (`app.py:205`). After a restart, which
  `railway.json` asks for, a deal is unknown and can be opened again; what is
  released on it before and after adds up to more than its cap. `SKILL.md:115`:
  "spending cap; the rest stays unspent". `AnswersKeepTheCap`: each single answer, of
  any life, keeps within the terms its own first trace line states.

Smaller observations without a run: `SKILL.md:78` gives `settled_total` as rate ×
units paid, which the cap may cut (`engine.py:203`); the l2 mode of the smoke
program mangles the good fixture without checking it first (`smoke.py:215`), so
only `good` runs vouch for it; without `SETTLEMENT_SIGNING_SEED` a restart draws
a new key (`app.py:117-129`) and earlier receipts no longer verify, which is why
`service_signed` pins the seed.

## 6. Not modelled

- The wording of the transcript and of printed reports, byte-level encodings
  (canonical JSON, hex, seeds, key files), pydantic's error texts: data no
  property here is about. Numbers are unbounded, as Python's are.
- The read-only endpoints and the landing page: they return constants.
- Build and packaging, except the restart policy (`Restart`).
- The balances, refunds and transfers of the metering plugin, which is not in
  the repository; its calls are modelled from how the engine uses them.
- A failing plugin *under the service*: `EngineFaults` shows what it does to one
  engine; the session lock is released by `async with` either way, and the
  request is answered with 500, so the next request finds the engine as
  `Interrupted` left it.
- Altered receipts and traces sent to `/verify`: with ideal signatures, that
  nothing altered verifies is an assumption of the model, not a result.
