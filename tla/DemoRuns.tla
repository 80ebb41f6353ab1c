-------------------------------- MODULE DemoRuns --------------------------------
(***************************************************************************)
(* The two built-in demonstrations, each a sequential client of one engine *)
(* of its own: the smoke program (smoke.py), which plays fixture files     *)
(* against it and turns the result into an exit code, and /demo/settlement *)
(* of the service (_run_demo), which plays units it makes itself.          *)
(*                                                                         *)
(* The fixtures outlive a run.  --regen writes the three files one after   *)
(* the other and may be killed on the way; between runs a developer edits  *)
(* a file or the scenario in the program.  A file is Null when missing and *)
(* Torn when a write was cut short.                                        *)
(***************************************************************************)
EXTENDS SettlementEngine, SequencesExt

CONSTANTS DemoRef,   \* REF of smoke.py, DEMO_REF of app.py
          Scenarios, \* <<chunk 0, chunk 1, swapped chunk>>, versions of the scenario
          Overrides, \* --rate and --max-total, each Null when not given
          Edits,     \* payloads a developer may leave in a fixture
          Flip,      \* Flip[c]: the bytes of c with the last bit of the last one inverted
          Torn

ASSUME DemoAssumption ==
  /\ DemoRef \in Ref /\ Edits \subseteq Chunk /\ Torn # Null
  /\ Flip \in [Chunk -> Chunk] /\ \A c \in Chunk : Flip[c] # c /\ Flip[Flip[c]] = c
  /\ \A s \in Scenarios : /\ s \in Chunk \X Chunk \X Chunk /\ s[3] # s[2]
                          /\ \A i \in 1 .. 3 : s[i] \notin Edits /\ DemoRef \in Embedded[s[i]]

VARIABLES scenario, \* the scenario in the program's source
          disk,     \* demo_data: [committed, good, bad]
          proc      \* the run in progress or the last one

demoVars == <<vars, scenario, disk, proc>>

RATE == 100
MAX_TOTAL == 500

Smoke == {"good", "l3", "l2"}       \* the case, and --fail-mode when it is bad
Demo == {"demo-good", "demo-bad"}

---------------------------------------------------------------------------------
(* Fixtures *)

\* An artifact and the checksum it is declared with.
Artifact(seq, chunk) ==
  [seq |-> seq, chunk |-> chunk, declared_checksum |-> Digest("sha256", chunk)]

Commitment(chunk0, chunk1) ==
  [ref |-> DemoRef, rate |-> RATE, max_total |-> MAX_TOTAL, attestor |-> "hash-only",
   committed_reference |->
     [criterion |-> "artifact_match", task_id |-> DemoRef,
      expected |-> [seq \in {0, 1} |->
                      Digest("sha256", IF seq = 0 THEN chunk0 ELSE chunk1)]]]

Files == <<"committed", "good", "bad">>  \* in the order regen() writes them

Fixtures(s) ==
  [committed |-> Commitment(s[1], s[2]),
   good |-> <<Artifact(0, s[1]), Artifact(1, s[2])>>,
   bad |-> <<Artifact(0, s[1]), Artifact(1, s[3])>>]

Unreadable(file) == file \in {Null, Torn}

Overridden(open_in, over) ==
  [open_in EXCEPT !.rate = IF over.rate = Null THEN @ ELSE over.rate,
                  !.max_total = IF over.max_total = Null THEN @ ELSE over.max_total]

LoadOpen(over) == Overridden(disk.committed, over)

\* What the demonstrations open and deliver is what the contract admits, and their
\* engines have the default digest.
ASSUME ScriptAssumption ==
  /\ Algo = "sha256"
  /\ \A s \in Scenarios :
       /\ Commitment(s[1], s[2]) \in OpenInputs
       /\ \A over \in Overrides : Overridden(Commitment(s[1], s[2]), over) \in OpenInputs
  /\ [seq : {0, 1}, chunk : Chunk, declared_checksum : {"sha256"} \X Chunk] \subseteq UnitInputs

\* Mutant of CorruptL2: the checksum is taken again over the flipped bytes.
CorruptL2Honest(unit) == Artifact(unit.seq, Flip[unit.chunk])

\* One byte flipped, the declared checksum kept.
CorruptL2(unit) == [unit EXCEPT !.chunk = Flip[@]]

\* Mutant of GoodFixtureHolds: every checksum is honest, whatever was committed to.
GoodFixtureUncommitted(open_in, units) ==
  \A i \in DOMAIN units :
    units[i].declared_checksum = Digest("sha256", units[i].chunk)

\* _verify_good_fixture
GoodFixtureHolds(open_in, units) ==
  LET expected == open_in.committed_reference.expected
  IN  \A i \in DOMAIN units :
        LET digest == Digest("sha256", units[i].chunk)
        IN  /\ units[i].declared_checksum = digest
            /\ units[i].seq \in DOMAIN expected /\ expected[units[i].seq] = digest

\* The file a case delivers from: l2 mangles the last unit of the good one.
DeliveryOf(case) == IF case = "l3" THEN disk.bad ELSE disk.good

UnitsOf(case) ==
  LET units == DeliveryOf(case)
  IN  IF case = "l2" THEN Append(Front(units), CorruptL2(Last(units))) ELSE units

\* Mutant of DemoUnits: the swapped artifact goes out with the promised checksum.
DemoUnitsStale(case) ==
  <<Artifact(0, scenario[1]),
    IF case = "demo-good" THEN Artifact(1, scenario[2])
    ELSE [Artifact(1, scenario[3]) EXCEPT !.declared_checksum = Digest("sha256", scenario[2])]>>

DemoUnits(case) ==
  <<Artifact(0, scenario[1]),
    Artifact(1, IF case = "demo-good" THEN scenario[2] ELSE scenario[3])>>

---------------------------------------------------------------------------------
(* Starting a run *)

NewRun == [stage |-> "idle", case |-> "good", open_in |-> Null, units |-> <<>>,
           done |-> 0, exit |-> "none"]

NoFixtures == [committed |-> Null, good |-> Null, bad |-> Null]

\* The fixtures are part of the repository, and --regen makes them when they are not there.
DemoInit ==
  /\ Init
  /\ scenario \in Scenarios
  /\ disk \in {NoFixtures, Fixtures(scenario)}
  /\ proc = NewRun

AtRest == proc.stage \in {"idle", "ended"}

Ends(exit) == proc' = [proc EXCEPT !.stage = "ended", !.exit = exit]

\* A run gets an engine of its own; done counts the calls made of it.
Plays(case, open_in, units) ==
  /\ proc' = [NewRun EXCEPT !.stage = "playing", !.case = case, !.open_in = open_in,
                            !.units = units]
  /\ eng' = NewEngine /\ call' = NoCall /\ outcome' = "none" /\ out' = Null

Fails(case, exit) ==
  /\ proc' = [NewRun EXCEPT !.stage = "ended", !.case = case, !.exit = exit]
  /\ UNCHANGED vars

StartSmoke(case, over) ==
  /\ AtRest
  /\ \/ disk.committed = Null /\ Fails(case, "missing fixtures")
     \/ /\ disk.committed # Null
        /\ Unreadable(disk.committed) \/ Unreadable(DeliveryOf(case))
        /\ Fails(case, "traceback")
     \/ /\ ~Unreadable(disk.committed) /\ ~Unreadable(DeliveryOf(case))
        /\ LET open_in == LoadOpen(over)
               units == UnitsOf(case)
           IN  IF case = "good" /\ ~GoodFixtureHolds(open_in, units)
               THEN Fails(case, "fixture broken")
               ELSE Plays(case, open_in, units)
  /\ UNCHANGED <<scenario, disk>>

StartDemo(case) ==
  /\ AtRest
  /\ Plays(case, Commitment(scenario[1], scenario[2]), DemoUnits(case))
  /\ UNCHANGED <<scenario, disk>>

---------------------------------------------------------------------------------
(* Playing the script: open, every unit, close *)

Playing == proc.stage = "playing"

Called == proc' = [proc EXCEPT !.done = @ + 1] /\ UNCHANGED <<scenario, disk>>

PlayOpen ==
  /\ Playing /\ proc.done = 0
  /\ OpenRefused(proc.open_in) \/ OpenBegin(proc.open_in)
  /\ Called

\* The units go on being delivered when the stream has closed on one of them.
PlayUnit ==
  /\ Playing /\ outcome = "ok" /\ proc.done \in 1 .. Len(proc.units)
  /\ Advance(proc.units[proc.done]) \/ AdvanceClosed
  /\ Called

PlayClose ==
  /\ Playing /\ outcome = "ok" /\ proc.done = Len(proc.units) + 1
  /\ CloseBegin \/ CloseAgain
  /\ Called

PlayOn == Playing /\ Resume /\ UNCHANGED <<scenario, disk, proc>>

\* No handler between the engine and the interpreter: an error ends the run.
PlayFails ==
  /\ Playing /\ Idle /\ outcome \notin {"none", "ok"}
  /\ Ends("traceback")
  /\ UNCHANGED <<vars, scenario, disk>>

ExpectedOk ==
  LET failures == {i \in DOMAIN out.per_unit : ~Passed(out.per_unit[i])}
  IN  IF proc.case = "good"
      THEN /\ failures = {}
           /\ out.settled_total = Lesser(proc.open_in.rate * Len(proc.units),
                                         proc.open_in.max_total)
      ELSE Cardinality(failures) = 1 /\ out.remainder_unspent > 0

PlayEnds ==
  /\ Playing /\ Idle /\ outcome = "ok" /\ proc.done = Len(proc.units) + 2
  /\ Ends(IF proc.case \in Demo THEN "answered"
          ELSE IF ExpectedOk THEN "OK" ELSE "UNEXPECTED")
  /\ UNCHANGED <<vars, scenario, disk>>

---------------------------------------------------------------------------------
(* Between runs *)

RegenStarts ==
  /\ AtRest
  /\ proc' = [NewRun EXCEPT !.stage = "regen"]
  /\ UNCHANGED <<vars, scenario, disk>>

RegenWrites ==
  /\ proc.stage = "regen" /\ proc.done < 3
  /\ LET file == Files[proc.done + 1]
     IN  disk' = [disk EXCEPT ![file] = Fixtures(scenario)[file]]
  /\ proc' = [proc EXCEPT !.done = @ + 1]
  /\ UNCHANGED <<vars, scenario>>

RegenEnds ==
  /\ proc.stage = "regen" /\ proc.done = 3
  /\ Ends("regenerated")
  /\ UNCHANGED <<vars, scenario, disk>>

\* Killed between two writes or in the middle of one.
RegenKilled ==
  /\ proc.stage = "regen"
  /\ \/ UNCHANGED disk
     \/ proc.done < 3 /\ disk' = [disk EXCEPT ![Files[proc.done + 1]] = Torn]
  /\ Ends("killed")
  /\ UNCHANGED <<vars, scenario>>

\* A developer changes the scenario, or the last payload of the good fixture, with or
\* without taking its checksum again.
EditScenario ==
  /\ AtRest /\ scenario' \in Scenarios
  /\ UNCHANGED <<vars, disk, proc>>

EditGood ==
  /\ AtRest /\ ~Unreadable(disk.good)
  /\ \E chunk \in Edits :
       LET edited == [Last(disk.good) EXCEPT !.chunk = chunk]
       IN  \E unit \in {edited, Artifact(edited.seq, chunk)} :
             disk' = [disk EXCEPT !.good = Append(Front(@), unit)]
  /\ proc' = NewRun
  /\ UNCHANGED <<vars, scenario>>

---------------------------------------------------------------------------------
Play == PlayOpen \/ PlayUnit \/ PlayClose \/ PlayOn \/ PlayFails \/ PlayEnds

Regen == RegenWrites \/ RegenEnds

DemoNext ==
  \/ \E case \in Smoke, over \in Overrides : StartSmoke(case, over)
  \/ \E case \in Demo : StartDemo(case)
  \/ Play
  \/ RegenStarts
  \/ Regen
  \/ RegenKilled
  \/ EditScenario
  \/ EditGood

\* A process that runs goes on running; nobody need start one.
DemoSpec == DemoInit /\ [][DemoNext]_demoVars /\ WF_demoVars(Play) /\ WF_demoVars(Regen)

---------------------------------------------------------------------------------
(***************************************************************************)
(* Properties.                                                             *)
(***************************************************************************)

Finished(case) == proc.stage = "ended" /\ proc.case = case

\* Past the fixture check a good run never ends UNEXPECTED, whatever was regenerated,
\* interrupted or edited before it and whatever rate and cap it is given: what the check
\* accepts, the engine settles to the last unit the cap pays for (smoke.py:142-171).
GoodRunsPass ==
  Finished("good") /\ proc.exit \in {"OK", "UNEXPECTED"} =>
    /\ proc.exit = "OK"
    /\ \A i \in DOMAIN proc.units : proc.units[i].chunk \notin Edits

\* Do the three files belong together?
Consistent == \E s \in Scenarios : disk = Fixtures(s)

\* On fixtures that belong together a bad run shows one tick and one refusal, at the
\* rung its mode is about, and exits 0 exactly when the tick left something unspent
\* (smoke.py:8-15, 134-139, 172-173).
BadRunsShowOneRefusal ==
  \A case \in {"l3", "l2"} :
    Finished(case) /\ Consistent /\ proc.exit \in {"OK", "UNEXPECTED"} =>
      /\ proc.exit = "OK" <=> proc.open_in.rate < proc.open_in.max_total
      /\ Len(out.per_unit) = 2 /\ Passed(out.per_unit[1])
      /\ out.per_unit[2].reason =
           IF case = "l3" THEN "artifact-mismatch" ELSE "checksum-mismatch"
      /\ out.settled_total = Lesser(proc.open_in.rate, proc.open_in.max_total)

\* The two calls anyone is invited to check the service with (SKILL.md:62-67): both
\* items paid, 200 settled and 300 left; or item 1 refused as artifact-mismatch with
\* 400 left.
DemoAnswers ==
  proc.exit = "answered" =>
    /\ eng.closed
    /\ proc.case = "demo-good" =>
         /\ \A i \in 1 .. 2 : Passed(out.per_unit[i])
         /\ out.settled_total = 200 /\ out.remainder_unspent = 300
    /\ proc.case = "demo-bad" =>
         /\ Passed(out.per_unit[1]) /\ out.per_unit[2].reason = "artifact-mismatch"
         /\ out.settled_total = 100 /\ out.remainder_unspent = 400

\* Every run comes to an exit code.
RunsEnd == ~AtRest ~> AtRest
=================================================================================
