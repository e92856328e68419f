# cpybkc in TLA+

cpybkc compiles a layout of record-oriented files into an intermediate
representation (the IR), hands that to generators, merges what they leave into
a project, and holds generators in every language to one conformance corpus.
This directory models the parts of it that keep state and take steps: the run
that merges generated files and the generators it waits for, the sequencing
compiler, the resolution of a copybook into records, the readers and writers
that walk what is compiled, over records and over framed bytes, the two commands that write files beside
other programs, and the conformance engine. TLC checks each on a small instance; TLAPS proves the
main invariants for every instance.

Paths below are relative to the repository. `PROJECT.json` maps each definition
to the lines it stands for.

## 1. Inventory

### Parts that keep state

| part | state | operations | talks to |
|---|---|---|---|
| `internal/generate` | the project's tree, the record `cpybkc.gen.json`, scratch directories, the plan, what is stale | `Runner.Run`: read the record, run the generators, plan, refuse, prune, tidy, merge, write the record | `internal/plugin` (a verdict for each generator), the filesystem, signals, the person who edits the project |
| `internal/resolve` (sequencing) | the graph under construction: states, transitions, registers, acceptance | one rule for each operator, then pruning, the register proof, the ambiguity proof | `internal/layoutmodel` before it, `internal/assemble` after it |
| generated reader and writer (`cmd/cpybkc-gen-go`) | state of the automaton, registers, what was consumed, the window in hand, the segment at which a record is | `Reader.Next` (`leading`, selection, `admit`, `trailing`), `Writer.Write`, `Writer.Close` | each other, through a file whose writes may fail part of the way |
| `internal/emit` | a temporary name and a file | `Write` with `writeFile`, `createBeside` | other emissions, through the directory |
| `internal/scaffold` | a temporary name, what was linked | `Write`, `undo` | other runs of `init`, a person, signals |
| `internal/conformance/engine` | the request outstanding, the entries left, the report, one adapter process | `Engine.Run` with `pass`, `hello`, `offered`, `ask`, `end`, `abandon` | an adapter, over two pipes; timers; cancellation |
| `internal/plugin` | a goroutine, a descriptor, a process and two streams for each generator | `Runner.Run`, `invoke`, `run`, `surface`, `splitLines` | generators, and what they leave behind; `internal/generate` waits for it |
| `cmd/cpybkc` | whether a signal has come and whether the next one kills; the relay's mutex | arguments, `cancellable`, `cancelled`, the relay of lines, exit codes | all of the above |

### Parts that are pure

Layout, schema, definitions and manifest readers; `internal/project`, which
calls them in order; resolution of one record (`resolve`, `shape`, `odo`,
`schedule`, `discriminator`); `internal/assemble`; the emission of text in the
two generators; the corpus and its comparison; what a scaffold says;
diagnostics. They map one input to one output or to diagnostics. Of these the
resolution of one record is modelled, as operators. Where another part's
behaviour depends on the result of one of the rest, that result is a CONSTANT
of its module. `PROJECT.json` lists all of them with the reason, and the build,
release and example parts too.

### What makes each part correct, and what makes it hard

* **generate.** Nothing changes before every generator has succeeded and
  everything that can be refused was refused; a run touches only what the plan
  and the last record entitle it to; runs repair one another. Hard: faults in
  the middle of a merge, sudden death, a path that is a file in one run and a
  directory in the next, files of a person's in the same directories, and links
  a person puts where directories were.
* **sequencing.** The files a reader takes are the files the layout describes;
  no register is read before it is bound; never two transitions for one record.
  Hard: operators nest, each rewriting the entries, exits and empty ways of its
  body; registers have no scope.
* **resolution of one record.** Every byte of a record is that of the item the
  copybook puts there; a count can be read before it is needed; a record fits
  its dataset. Hard: no node carries an offset, so a position is a sum of what
  is ahead of it, in which alignment, redefinitions of unequal length, tables
  that slide and alternatives of one occurrence all take part; whether an item
  is a table at all depends on how the compiler that wrote the file read
  `DEPENDING ON`.
* **reader and writer.** What is written is read back, in order and as the same
  types; what is cut short is said to be, and a damaged byte stays in its record.
  Hard: the writer knows a record's type, the reader only its bytes, and
  transitions are told apart by order; a record is written in several calls, the
  length of one is stated by another, and six framings put bytes around it.
* **plugin and cancellation.** Every generator is run to an end, its lines are
  logged, and its exit is the verdict. Hard: what a generator leaves behind
  holds its streams open; the exit is known before the last lines are; a
  cancelled context races all of it, and a second signal the handling of the
  first.
* **emit and scaffold.** In full or not at all; nobody's file is replaced or
  removed. Hard: nothing keeps two runs apart, and both can die anywhere.
* **engine.** One result for each entry, one fault for a misdeed, no process
  left, an end. Hard: the adapter is another program; deadlines race answers;
  frames are late or doubled; restarts.

`PROJECT.json` lists the hazards with the line at which each bites and the
properties that would catch it.

## 2. Modules

```
ProjectTree ── Generate ── MCGenerate            Beside ──┬─ EmitWrite ───── MCEmit
                  │  └──── GenerateProofs                 │       └───────── EmitWriteProofs
                  └─(INSTANCE) Regeneration               └─ ScaffoldWrite ─ MCScaffold
GenerateProofs ── RegenerationProofs                              └───────── ScaffoldWriteProofs
RecordAutomaton ─┬─ CompileSequence ─ LayoutSamples
                 └─ RecordStream ─┬─ RecordReader ─┬─ SequenceLanguage ─ MCSequence
                                  └─ RecordWriter ─┴─ RecordExchange ─ MCExchange
                                                         │  └───────── RecordExchangeProofs
                                                         └─(INSTANCE) RecordQueue
CopybookStorage ─┬─ RecordResolution ─ ResolvedRecords ─┬─ MCSequence
                 └─ CopybookSamples ────────────────────┘
Framing ─┬─ FramedWriter ─┬─ FramedFile ─┬─ MCFraming
         └─ FramedReader ─┘              └─ FramedFileProofs
GeneratorVerdicts ─(INSTANCE)─ PluginRun ─┬─ MCPlugin
                                          └─ PluginRunProofs
AdapterProcess ── ConformanceRun ─┬─ MCConformance
                                  └─ ConformanceRunProofs
```

### The project and its record

`ProjectTree` is the filesystem as a function from paths to what stands there;
a regular file is told apart by who wrote it (a person, this run, a run before)
and by whether all of it was written. A person may put a symbolic link at
certain paths, each to one directory (`LinkTo`), which need not be there: `Place`
is where a path leads for `Lstat`, `Mkdir`, `Remove` and an exclusive create,
which follow a link on the way, and `Followed` where it leads for `Stat`, which
follows one at its end too. `Generate` is `Runner.Run` over many runs with a
person's edits between them. It compares paths as they are spelled wherever the
code does (`collide`, `wanted`, what is stale) and goes through `Place` or
`Followed` wherever the code makes a system call.

| code | definition |
|---|---|
| `Runner.Run`, the record read first | `Begin`, `RefuseToStart` |
| `plugin.Run`, one verdict per generator | `GeneratorSucceeds`, `GeneratorFails`, `Collect` |
| `plan`, `collide`, `required`, `ledger.generated` | `Plan`, `Refused`, `Collides`, `Recordable` |
| `ledger.prune`, `remove` | `Prune`, `PruneFault`, `Pruned`; `Unreachable` and `Removable` through links on the way |
| `ledger.tidy`, `wanted` | `Tidy`, `TidyFault`, `Tidied`, `Wanted`; `Tidiable` takes the link where the directory was one |
| `merger.write`, `mkdirAll`, `mkdirRoot`, `mkdir` | `MakeDirectory`, `Obstructed`, `WriteDirectory`, `WriteFile`; `DirThere` follows a link above and at the output directory and no other |
| `merger.copy` in its three steps, also for the record | `Clear`, `Create`, `Fill` |
| deferred removal of the scratch space | `End`, skipped by `Killed` |
| `cancellable` | `Signal` (the first), `Killed` (the second) |

`Regeneration` is what a project is promised: a run is ONE step, which
regenerates the tree as a function of tree, record and plan, or changes
nothing, or is hindered. Where a link stands on the way to something the record
or the plan names (`Detoured`), it is promised less: to write, prune and tidy
only where those paths lead. `KeepsThePromise` is the refinement; until a run
ends its steps map to stuttering over the tree it found.

### The sequencing compiler, readers and writers

`RecordAutomaton` has guards, predicates, selection, satisfiability of guards,
overlap of predicates, the ambiguity check and the register proof (as recursive
functions, so that it can be proved about). `CompileSequence` is the compiler
itself: one operator for each of `sequence`, `alternation`, `repeat`,
`optional`, `times`, `when`, then assembly and the refusals.
`SequenceLanguage` says what an expression means with no graph and no register:
the sequences of record types the front of a file can be read as. That is the
abstract specification the reader is checked against.

`RecordStream` is a layout and a growing file; `RecordReader` is `Next`,
`RecordWriter` is `Write` and `Close` with the rival check of `rival.go`, and
`RecordExchange` puts both at the ends of one file. `RecordQueue` is what the
two promise together: a queue. A record is a tuple of `Width` bytes; which
bytes a copybook admits where (`Domain`) and what a count field decodes to
(`Decoded`) are constants, so the theorems hold for every codec.

`RecordStream` assumes `Compiles`: that each layout is one the compiler hands
back. TLC evaluates it on every run, with the layouts that `CompileSequence`
really compiles from the expressions of `LayoutSamples`. A layout there is
`[expression, automaton, inputs]`: what it says, what it compiles to, and the
records that files are made of to try it on.

### Resolution of one record

`CopybookStorage` is what `cobol-go`, outside the repository, hands to
`internal/resolve`: offsets, lengths, strides, the extent of every item.
`RecordResolution` is what `Resolve` makes of that, as operators: a tree of
fields, groups, variants and slack in which no node carries an offset, one tree
for each combination of the copybook's alternatives, or what it refuses.

| code | definition |
|---|---|
| `repeats`, `enclosingTable`, `repetitionOf` | `Repeats`, `EnclosingTable`, `RepetitionOf` |
| `group`, `cluster`, `variant`, `elementary` | `Group`, `Cluster`, `Variant`, `Elementary` |
| `pad`, `armBody`, `mergeSlack` | `Pad`, `ArmBody`, `MergeSlack` |
| the faults of `variant`, `checkSelectors`, `checkCoverage` | `ClusterFaults`, `ArmFaults`, `SelectorFaults`, `CoverageFaults` |
| `checkCounts`, `checkSharedBounds`, `exclusive` | `CountFaults`, `SharedBoundsFaults`, `Exclusive` |
| `frame`, `variableTerm`, `Framing.LRECLBound` | `FrameFaults`, `Framed`, `Varies`, `LRECLBound` |
| `Record.At`, `Record.Position`, `Node.Extent` | `RecordAt`, `Admitted`, `Positions`, `ExtentOf` |
| `describe`, `crossed`, `readingDecides` | `Combinations`, `CrossedNames`, `ReadingDecides` |

`ResolvedRecords` is a call of `Resolve` and the definition it is held to: which
item, which byte of it and which occurrence stands at each byte of a record,
worked out from the storage alone (`StorageOf`: the copies the tables around an
item make of it, less those its counts leave out) and by walking the tree
(`BytesOf`). `CopybookSamples` puts copybooks together from a menu of parts. A
layout's copybooks are resolved and its expression is compiled by the same
package, and `MCSequence` checks both.

### Framed files

`RecordStream` takes a file for whole records. `Framing`, `FramedWriter`,
`FramedReader` and `FramedFile` are what that rests on: the same `Write` and
`Next` over bytes, with the six framings the IR has (none, record descriptor
words, segments, a terminator, an optional terminator, a separator), records
that end in a table an earlier record counts, and predicates that read further
than a short record is long. Guards, registers in general and rivals are left to
the modules above. A table an earlier record counts is the IR's and the
generator's: `assemble` emits only counts of the record itself
(`internal/assemble/assemble.go:514`).

| code | definition |
|---|---|
| `Writer.Write`: the checks, the transition | `Write`, `CountAgrees`, `Statable` |
| `emit`, `segments`: one call of `io.Writer` for each piece | `Emission`, `Segmented`, `Code`, `PutChunk`, `PutFails` |
| `Writer.Close`, or a caller who does not call it | `Close`, `Abandon` |
| `Reader.Next`: end of input, `leading` | `EndOfInput`, `AtRecord`, `LeadingWord`, `LeadingSegment`, `LeadingNothing`, `LeadingSeparator` |
| predicates over the window, `accepts` | `Window`, `Matching`, `Undescribed`, `Select` |
| `admit`, `trailing`, the bindings | `AdmitBounded`, `AdmitStreamed`, `Trailing` |

`FramedFile` puts both at one file, and between them `Damage`: one byte of a
file that was closed is changed.

The constants are held to what the code is handed: digits are those a zoned
count is decoded from (`Counts`), a length is stated in two bytes (`TwoBytes`),
records are bytes and fit what a descriptor word states (`FileTypes`), the item a
transition is chosen by has the value it is chosen by (`ValuesEncoded`), and what
replaces a byte is a byte (`DamagesAreBytes`). `SegmentsStatable` is no
assumption but a premise of the properties: a segment may be longer than its two
bytes can state, which nothing in the code refuses (section 5).

### Running the generators

`PluginRun` is `plugin.Runner.Run` with the goroutine of `cmd/cpybkc` that turns
a signal into a cancelled context. Each invocation has a goroutine of its own,
so its steps interleave with those of the other invocations, of the generators,
of the copying goroutines of os/exec and of the scanners that surface the
streams.

| code | definition |
|---|---|
| `Run`: every invocation checked first | `Check` |
| `invoke`: the descriptor's directory and file | `MakePlace`, `WriteDescriptor`, `WriteFails` |
| `cmd.Start`, `cmd.Wait` with `Cancel` and `WaitDelay` | `Start`, `StartFails`, `Reap`, `Kill`, `GiveUp`, `Close` |
| os/exec's copying goroutines, `surface`, `splitLines` | `Carry`, `Read`, `Surface` |
| `failure`, the deferred removal, the report | `Judge`, `Return`, `Report` |
| `cancellable`: the channel, `signal.Stop`, the cancellation | `Signal`, `Receive`, `StopNotifying`, `CancelContext` |
| a generator (external) | `Writes`, `Forks`, `ChildExits`, `Exits` |

`GeneratorVerdicts` is what `internal/generate` rests on when it collects the
verdicts: each generator is run to an end, and the report names those that
failed, in the declared order, or says that the run was cancelled.
`KeepsTheVerdicts` is the refinement.

### Files written beside others

`Beside` has the counted temporary names of `createBeside`. `EmitWrite` has one
action for each system call of `writeFile`, succeeding or failing, and any
number of runs over one path, which may be a symbolic link. Three of these calls
may fail without a word: `EvalSymlinks`, `Stat` and the deferred `Remove`
(`BeginAsTyped`, `StatFails`, `RemoveFails`); the history variable `unheard`
remembers which did in which run. `ScaffoldWrite` has the same for
`scaffold.Write`: every destination checked, then each file created, filled, the
context asked, linked, the temporary dropped; and the undoing of what was
linked. A removal that fails there leaves its name, which `kept` remembers.

### The conformance engine

`AdapterProcess` is an adapter and its pipes. It answers, rightly or wrongly,
refuses, answers about another entry, repeats a frame, writes garbage, falls
silent or exits at any point, and what it started may hold its standard error
open. Each of these but silence is counted in the history variable `unpaid`,
and each entry the engine faults takes one off. `ConformanceRun` is the engine, one thread:
`pc` names what it waits for, and everything between two waits is one step.
A deadline that fires is a step that can always be taken (`TimesOut`,
`GraceOver`).

An adapter never guesses: what it says about an entry it says once asked about
it. Without that no property about verdicts could hold of any engine.

## 3. Runs

Deadlock is checked for the Generate runs. It is switched off for the others,
which stop: a file is read to its end, runs are over, a conformance run is
finished.

| run | instance | shows |
|---|---|---|
| `generate_rough` | one project, two directories `d` and `e` with a file in each, and the record; `d` may be a link to `e`; manifests of one and two generators, nine shapes of output; every fault stage, death at every step, edits of every path; 1.6M states | `TypeOK`, `UntouchedUntilAccepted`, `Confined`, `WantedDirectoriesKept`, `WrittenStaysWritten`, `NeverInItsOwnWay` |
| `generate_promise` | a directory inside a directory, which may be a link to the one beside it; seven shapes of output, no faults, with fairness; 426k states | `KeepsThePromise`, `SignalledRunEnds` |
| `generate_unreachable` | merges may fail, nobody edits | finding: `AbsentPathsPruneNothing` is violated |
| `sequence_compiled` | every expression of a header followed by one operator over another, whose counts start afresh, and repeated batches whose type codes sit at different offsets; files of up to four records; 1,121 calls of `Resolve`; 641k states | `NeverUnbound`, `OneWayOn`, `OnlyWhatIsDescribed`, `EverythingDescribed`, `CountsDownToZero`; `RecordsCoverTheirStorage`, `CountsCanBeRead`, `OneReadingOfACopybook`, `EveryRecordFitsItsDataset` |
| `sequence_nested_counts` | a run inside a run | finding: `OnlyWhatIsDescribed` is violated |
| `exchange_nested` | all sampled expressions; one type code begins with another; a caller who goes on after errors; 83k states | `ReaderFollowsWriter`, `DeliversInOrder` |
| `framing_all` | three layouts under six framings; one write fails at any byte, or the file is left there, or one byte is changed; 3.5M states | `WrittenIsReadBack`, `CutShortIsSaid`, `DamageStaysInItsRecord` |
| `plugin_two` | one generator that writes to both streams, two silent ones at once, invocations that are invalid; what a generator starts may outlive it; signals at every step; 150k states | `DescriptorThere`, `EveryLineSurfaced`, `EndsOnceItMay`, `KeepsTheVerdicts` |
| `emit_two` | two overlapping emissions, two temporary names, old litter, a link; 107k states | `WholeOrNotAtAll`, `LitterIsOfTheKilledOrUnheard`, `FailureLeavesThePath`, `ModeAndLinkKept` |
| `emit_three` | three emissions, one temporary name | finding: `WholeOrNotAtAll` is violated |
| `scaffold_two` | two runs of `init` over crossing sets of three and two files, a person, one littered name; 457k states | `WholeFiles`, `NeverALayoutAlone`, `TheWholeSetOrNone`, `NothingIsReplaced` |
| `conformance_three` | three entries, one with read axes, one frame of room in the pipe; 526k states | `OneResultEach`, `OneMisdeedOneFault`, `KeepsTheContract`, `NoneLeftBehind`, `VerdictsAreTold`, `RunEnds` |

The type invariants of `RecordReader`, `RecordExchange`, `ScaffoldWrite`,
`PluginRun` and `ConformanceRun` are theorems (section 4), parts of the inductive
invariants the other proofs rest on, and no run repeats them.

### Bounds, and why they are enough

* Generate: two generators are enough for every relation `collide` looks at,
  since it looks at pairs. The shapes of output put a file where the other has
  a file, a directory, or a directory above its output; the record's own name;
  a symlink; nothing. Two levels of directories below the root (in
  `generate_promise`) are what the upward walk of `tidy` needs to climb, and to
  stop on the way. The number of runs is not bounded. One link is enough for a
  recorded path to lead past it, for an output directory to be one, for one to
  stand beneath an output directory, and for two output directories to be the
  same one (`<<D, E>>`, which is in `RoughManifest` for that). Its target may be
  there, be missing, or be a file. `LinkAssumption` bounds links: none leads to
  another or past one, and none leads to the project's root, to the record or
  above.
* Sequencing: a header gives the value a count or a flag is read from; two
  further types let operators choose, and the counts 0, 1, 2 let a run be
  skipped, taken once and taken again. `Width` 2 puts a discriminator and an
  item in one record, or two discriminators at two offsets. Four records
  (`MaxRecords`; five for the finding) let a batch of two be read twice.
* Resolution: a copybook is a count of one byte, two parts of the menu and a byte
  behind them. Twenty parts resolve: aligned and padded items, redefinitions that
  are shorter, longer, chained and nested, tables of two, tables that
  slide, inside one another and in an alternative, a table of no entry or one,
  variants by bytes and by position and one in an arm of another. Fifteen more
  (`EdgeParts`) stand at the edge of what the rules refuse: twelve are refused
  where tables slide, nine of them under every reading, and `one`,
  `nestedUnread` and `rivalRanges` are accepted. Each
  pair meets both readings; each part alone meets none stated, and datasets with
  a maximum, an exact and no extent. What an occurrence's bytes select is one
  alternative after another, starting with either. 962 of the 1,121 calls return
  records; every kind of fault in `RecordResolution` occurs.
* Framing: three records are one before, one at and one behind what goes wrong.
  A write fails once, at any byte of any piece, and a caller may write on behind
  it; one byte is damaged. A segment of five bytes carries one byte of data, so
  records of one, two and three bytes are a whole segment, a first and a last
  one, and one with a middle. `MaxStated` is 6 where the code has 0xFFFF: a
  record of two bytes can be stated and one of three cannot. The bytes of records
  include those of the delimiters, the type codes and the counts. The reader
  starts once the file has ended, and stops at the first thing it is told.
* Plugin: pieces of lines go through a stream of one generator (two on standard
  error, one on standard output), enough for one to be in the pipe, one in the
  copying goroutine's hands and one in the scanner's; `MaxLine` is 2, so a line
  may be surfaced before it ends. Two generators that say nothing are enough for
  the order of the report and for one that fails beside one that runs.
* Emit: two runs already take each other's names, run out of them and remove
  what is not theirs; what two cannot do, and `emit_three` adds, is have a third
  create an unfinished file under the name that one of them is about to rename.
  `Attempts` stands for `tempAttempts`, 64 in the code; two are enough to step
  over one and to run out.
* Scaffold: the two sets share a definitions file and each may hold the other's
  layout, so both crossings occur.
* Conformance: three entries are a first, a middle and a last one, with a
  restart between any two. `Room` 1 is a pipe that is full after one frame.
  Request ids are bounded by the conversation: it ends.

### Fairness

* Generate (`generate_promise` only): the run's own steps, since it is one
  goroutine that nothing else blocks; and the end of a generator ONCE the run
  has been signalled, because the context kills it. A generator owes no exit
  before that.
* Plugin: cpybkc's own goroutines, its timer and the kill by its context, taken
  together (`WF_vars(Own)`): something of cpybkc's goes on while anything can.
  Nothing of a generator's is fair, and neither is what it leaves behind: that
  an invocation ends is due to `outputGrace` alone.
* Conformance: the engine's steps that wait for nobody (opening, choosing),
  its two timers, the death of a process it has killed, and the return of
  `Wait`. Nothing of an adapter's is fair, and neither is the engine's sending
  or receiving, which need the other side. `RunEnds` assumes `[]<>~held`, that
  what an adapter started lets go of its standard error again and again: `Wait` in
  `conn.go` has no bound (`internal/plugin` gives its own a `WaitDelay`).
* The other runs check safety only and state no fairness.

## 4. Proofs

Every theorem holds for all values of the constants under the ASSUMEs of its
modules, which TLC evaluates on the runs.

| module | theorems | argument |
|---|---|---|
| `GenerateProofs` | `TypeCorrect`, `AlwaysTyped`, `NothingBeforeTheVerdict` (`UntouchedUntilAccepted`), `StaysInBounds` (`Confined`) | typing first, with the shape of manifests and of what was left (`Typed`); then `Settled`: past planning, nothing was refused, and until then the tree is the one the run found; then `Bounded`: every difference from that tree is one of the four kinds, and what is stale or emptied lies where the last record says. Under it are lemmas about `Place`, and `Straight`: no run makes a link, nor takes one away that is on the plan's way, so where the plan leads is settled when the run begins |
| `GenerateProofs` | `DirectoriesInUseAreKept` (`WantedDirectoriesKept`), `NothingOverwritten` (`WrittenStaysWritten`), `MergesDoNotObstructThemselves` (`NeverInItsOwnWay`) | `Orderly`: the merge goes through the plan in the order of `WalkAssumption`, what is behind it is written, and what is stale is no directory of the plan's. That an accepted plan has no file where another generator has a directory is what keeps the merge out of its own way. Where a link leads two planned paths to one place it does not, and each of the three says so: that is all `collide` and `wanted` miss by comparing paths as spelled |
| `RegenerationProofs` | `PromiseKept` (`KeepsThePromise`) | each step of `Generate` is a step of `Regeneration` or none: `Remembered` is the tree and record the run found, `Sweeping` says of each stage of prune and tidy how far it has come towards what the promise computes, `Merging` the same of the merge, both where no link is on the way (`Direct`, which is `~Detoured`: there every path is its own `Place`). Where one is, `ChangesPermitted` takes what `Bounded` says of every change to what the promise allows. The instance TLC checks has no faults and no kills; the theorem has both |
| `RecordExchangeProofs` | `ReaderTyped`, `NothingReadUnbound` (`NeverUnbound`), `OneWayThrough` (`OneWayOn`), `CountsOnlyDown` (`CountsDownToZero`) | `ReaderInv`: in each state the registers that every way in has bound are bound, and hold what their kind says. With the register proof of `Compiles` no guard reads an unbound register; guards that hold together are satisfiable together, and a record two predicates match overlaps both, so the ambiguity check leaves one |
| `RecordExchangeProofs` | `ExchangeTyped`, `ReaderFollows`, `WritersAreReadable`, `ExchangeIsAQueue` (`DeliversInOrder`) | `Walk`: the trail is a walk the writer could take, no rival matching; `Following`: the reader is on it. A transition the writer took is the one the reader selects, because an earlier match would be a rival |
| `EmitWriteProofs` | `InFullOrNotAtAll`, `CleansUp`, `FailuresTouchNothing`, `ArrangementsOutliveRuns` (`ModeAndLinkKept`) | for runs that do NOT overlap: `Alone`, `Held` (a run's temporary name leads to its file while it works), `Owned` (a temporary is a working run's, a killed one's, or one's whose removal failed), `Filled`, `Told`, `Published`; and `Heeded`: what a run saw of mode and link is still so when it renames, unless it was not told |
| `ScaffoldWriteProofs` | `AlwaysKept`, `ScaffoldTyped`, `OnlyWholeFiles`, `LayoutsAreComplete`, `AllOrNothing`, `NeverReplaced` | for any number of overlapping runs: `Held`, `Owned`, `Filled`, and `Prefix`: what a living run has at its destinations is exactly the first files of its set, and what it failed to take back (`Stuck`: never the layout) |
| `PluginRunProofs` | `TypeCorrect`, `DescriptorsAreThere` (`DescriptorThere`), `VerdictsAreKept` (`KeepsTheVerdicts`), `NothingUnsaid` (`EveryLineSurfaced`) | for any number of generators and streams: `Follows` says how the generator stands and what is known of its end at each stage of its goroutine, `Placed` where its descriptor is, `Flows` where pieces of its streams may be. With `Follows`, a run all of whose goroutines are done reports a fault exactly where a generator did not exit zero, and each step is a step of `GeneratorVerdicts` or none. `Along`: log, scanner, copying goroutine and pipe, one behind the other, are what a stream was given |
| `ConformanceRunProofs` | `Typed`, `EveryEntryOnce` (`OneResultEach`), `NoProcessLeft` (`NoneLeftBehind`) | typing with the conversation's stage (`OverTheTurn`: while the engine waits over an entry there is one left whose turn it is), one result for each entry that is not left, and `RestartsPaidFor`: restarts and what is left together never exceed the corpus, which bounds the restarts |
| `ConformanceRunProofs` | `ContractHolds` (`KeepsTheContract`), `VerdictsHold` (`VerdictsAreTold`), `FaultsAreIsolated` (`OneMisdeedOneFault`) | the frames in the pipe: `Numbered` (one request is outstanding, ids only grow, and what is unread and pairs is the last frame the process wrote), `Candid` (a good answer says what the process now knows), `Understood` (what the engine was told holds of the process it talks to). `Paid` is a balance: frames unread that are no good answer, an exit, and entries still to be faulted for lack of code are together no more than `unpaid` |
| `FramedFileProofs` | `ReadBackAsWritten` (`WrittenIsReadBack`), `DamageKept` (`DamageStaysInItsRecord`) | three ghosts, all under one existential: `path` (the writer's state at each record), `lay` (where each record's frame ends) and `now` (the bytes as they were put, before the damage). `Typed`; `InPlace`: each whole record's frame lies in the file where `lay` has it; `Underway`: what is still to be put is the rest of one emission; `Follows`: the reader is in step with `path` and at `lay` of the record it is in (`InStep`), and stops at no record that is `Sound` |
| `FramedFileProofs` | `CutShortIsTold` (`CutShortIsSaid`) | a fourth ghost, `at`: where each write of the record in hand would have ended. `Tears`: a file that was left inside a record ends somewhere on that way, and holds what was put as far as it goes; `Meets`: a reader that has come to that record finds at each step of `Next` the bytes that were put or too few of them, so it goes on as it would over the whole record or says `cut`. What it must not do, to call the record undescribed, malformed or in disagreement, would need a byte that nobody wrote; the window of `Peek` is why `short` is looked at before `Matching` is taken for empty. `Follows` brings the reader to the record |

None of these invariants is inductive without its companions. `Confined` says
nothing of what is still in `stale`; `OneResultEach` says nothing of whether the
entry a broken conversation was about is still left.

`EmitWriteProofs` assumes `~Overlapping`, and needs to: `emit_three` shows that
overlapping runs break the same invariant. `ScaffoldWrite` needs no such
assumption because it drops its temporary by name too, but links, never
renames: its name cannot become free before it drops it.

### What stays with TLC

* Liveness: `SignalledRunEnds`, `RunEnds`, `EndsOnceItMay`. TLAPS cannot reason
  about fairness.
* The four properties of resolved records: trees are walked by RECURSIVE
  operators, and what those compute for every copybook is an induction.
* `OnlyWhatIsDescribed`, `EverythingDescribed`: they compare a compiler with a
  language, both RECURSIVE over expressions, and a proof would be an induction
  over expressions, which the prover cannot do.
* That `BoundOnEntry` is a fixpoint of the compiler's loop (`Settled` in
  `Compiles`) is assumed by the proofs and evaluated by TLC, for the same
  reason.

## 5. What disagrees with the documentation

Each of these has a run that shows it, and a finding that quotes both sides:

1. A merge that fails after it has put a file where a recorded directory was
   leaves a project in which every later run fails in `prune`: `Lstat` below a
   file answers ENOTDIR, which is not "not there" (`generate_unreachable`).
2. A run counted inside a run is counted down once: its register is not bound
   again between two passes (`sequence_nested_counts`).
3. The deferred removal in `emit.writeFile` removes the temporary NAME after
   the rename too, by then perhaps another run's (`emit_three`).

Found while modelling and modelled as the code has it, with no run of their own:

* generate: a failed merge leaves what it had written and pruned, while a
  package comment says a failed run leaves the tree as it found it; a
  signal that comes after the last generator exited is not looked at, and the
  merge goes on; a half-written record is refused by every later run; a
  generator may leave a DIRECTORY with the record's name, which fails the merge
  instead of the plan.
* generate and links: `internal/generate/prune.go:22` has a file nobody recorded
  called a file a person wrote, which a run never removes. `Lstat` (`prune.go:90`)
  follows a link in front of a path's last name, so where a person has replaced a
  recorded directory by a link to another, prune removes the file of the same
  name there. `tidy` then removes the link itself (`prune.go:151`), or the
  directory it leads to, which leaves the link dangling. `mkdirRoot`
  (`merge.go:477`) follows a link at an output directory, as its comment says;
  two output directories may be one that way, `collide` sees two paths, and one
  generator's file is written over another's. `Confined`, `WrittenStaysWritten`,
  `NeverInItsOwnWay`, `WantedDirectoriesKept` and `Regeneration` say what is kept
  all the same: a run stays where its paths lead, and only links lead two paths
  to one place.
* sequencing: a run whose body may be empty is not taken with a count above
  zero and no records (`times` offers only the way out at zero); a run that
  admits the record its count is read from compiles, and its count is not
  rebound inside it.
* reading and writing: once a file was reported as cut short, the next `Next`
  answers `io.EOF`, which is said to mean that the file was complete and only
  that (the models' callers stop, or are checked up to the first report);
  whether the input ran out is asked of the widest window of the whole layout,
  so a last record that nothing describes is reported as cut short where it is
  shorter than that; a descriptor word's reserved bytes are not looked at;
  `checkExtent` holds a layout to its LONGEST record, so one that is nothing but
  a table of zero entries or more passes, though `docs/ir/SPEC.md:2969` has such
  records refused. `Framing` assumes the documented bound (`Least(R) >= 1`):
  without it an empty record has no first byte for any framing to find.
* framing: a segment's length goes into two bytes unchecked
  (`cmd/cpybkc-gen-go/writer.go:604`), where the length of a record under a
  descriptor word is checked first (`writer.go:571`). The longest segment a
  layout states may be any positive integer (`internal/layoutmodel/framing.go:660`),
  so with one above 65,535 a file is written whose lengths are their remainders,
  though every segment states its own length (`docs/ir/SPEC.md:1816`). The proof
  of `WrittenIsReadBack` found it, not TLC, whose segments have five bytes:
  `SegmentsStatable` keeps such layouts out of what is said of framed files.
* plugin and cancellation: a run whose generators fail between a signal and
  `cancel(errCancelled)` reports their faults, where `docs/cli/SPEC.md:1825`
  says that it was cancelled; a second signal is lost when it comes between the
  receipt of the first and `signal.Stop`, where `docs/cli/SPEC.md:1836` says
  that it ends the process. `GeneratorVerdicts` promises what the code keeps:
  `stopped` is the context, not the signal.
* resolution of one record: `docs/ir/SPEC.md:638` wants one slack node for each
  maximal run of uncovered bytes, and `mergeSlack` merges within one list of
  members, so a group that ends in slack, in front of a gap in the list that
  holds the group, leaves two that abut; a record's alternatives come innermost
  first (`cluster` puts what was chosen below in front), where `Resolve` and
  `Describe` say outermost first, which nothing trips over because
  `sameAlternatives` in `internal/project` compares them as sets
  (`OneReadingOfACopybook` does too).
* emit: any failure of `EvalSymlinks` is taken for a path with no link
  (`internal/emit/emit.go:451`), and the rename then replaces a link that leads
  somewhere; a `Stat` that fails drops the mode (`emit.go:483`); a removal that
  fails leaves the temporary, though nobody killed the run (`emit.go:462`). None
  of the three is reported. `ModeAndLinkKept` and `LitterIsOfTheKilledOrUnheard`
  except these three and nothing else. A link that leads nowhere is replaced, not followed; temporary names
  that killed runs left are never taken back, so that 64 of them beside one path
  make every later run fail.
* scaffold: removals that fail are not looked at (`internal/scaffold/write.go:123`
  and `183`), so a run that failed may leave a temporary, or definitions files of
  its set, though never its layout; `TheWholeSetOrNone` excepts exactly what a
  run asked to be removed and the filesystem kept. A signal after the last look
  at the context is not heard; the
  undoing removes whatever is at a path it had linked, also when a person has
  put something else there since. The model has a person write only where
  nothing is.
* engine: `Wait` is unbounded after a kill; a process that calls itself
  descriptive after a restart makes the whole run not applicable and drops the
  faults of the process before it.

## 6. Not modelled, and the plan

Left out of the resolution of one record: the encoding of an item and its
overrides, the names of items, and everything about what a predicate reads
(`armPredicate`, `checkArmOverlap`, `discriminator.go`). A copybook is one
`cobol-go` lays out without its compilers' disagreement about the gap in front of
an aligned first item of a group.

Left out of the other modelled parts: modes and ownership in a project, links in it
that lead to links, to the project's root or to what is above it, and a `Root`
that is unset; a removal of a generator's descriptor that fails
(`internal/plugin/invoke.go:266`); the positional strategies of discrimination; block lengths in
front of segments; decoding of fields other than counts and flags; the search of
PATH, and the wording and level of a generator's lines; notes and diagnostics of
a conformance report, and the door to an image. Two runs of cpybkc in one
project at once, and edits during a run, are not modelled: `Generate` has one
run at a time. A framed file is read once its writer is done with it; a reader
that keeps pace with its writer is `RecordExchange`, over whole records.

Two hazards in `PROJECT.json` have no property. Two runs in one project
(`generate.go:240`) wait for `TwoRuns` below. The other is modelled, and what the
code does there is known to lose something: a record that is removed before it is
written again (`merge.go:557`). A property that said otherwise would be false, and
no document promises it in words that a run could refute; the same is true of the
temporary names and of the descriptive process told of in section 5.

The lines the map names are a small share of the repository's. Most of the
rest keeps no state: about three fifths of it is generated code (`dagger.gen.go`
twice, `ir.pb.go`) and what cpybkc's own generator wrote, in the example programs
and the fixtures of `cmd/cpybkc-gen-go/internal`; what
remains is parsers, the wording of diagnostics (`layoutmodel/errors.go` alone is
2,300 lines), the emission of Go text, and the corpus. The definitions stand for
the parts whose steps depend on what happened before.

Modules were written in this order: the merge, since everything a user keeps
passes through it; the sequencing compiler with readers and writers, since that
is what the repository is for; the writers of files; the engine; the generators
a run waits for; framed files; resolution of one record. The plan:

1. `TwoRuns`: two runs of `Generate` over one tree, to say what is and is not
   kept when a second cpybkc runs in the project, or a person edits during a run.
2. The rest of a layout's resolution: predicates over a record and over an
   occurrence, with the overlap of arms; then widths and numerics of the codec.
