# A TLA+ model of the Oxide compiler, verifier and runtime

Oxide is a small systems language.  Its compiler (`src/src/*.cpp`) lexes, parses
and checks a source file, generates LLVM IR for it, links it with a C runtime that
the compiler carries as a string (`runtimeC()` in `Driver.cpp`), and, with `oxide
verify`, turns the contracts of the program into SMT queries, has a solver answer
them and reports clause by clause.

This directory models that system in two ways.  The parts in which the order of
steps decides the outcome are state machines: the runtime's channel and hash map, the
walk that turns a body into queries, the drop lists, and the report that hands the
solver's answers back to the clauses.  The parts that map an input to an output are
operators with a reference definition beside them: the splice of imports, the parser,
bitfields, layouts and virtual tables, the terms and constants of expressions, the
queries of the ghost section, the proof splitter, the proof file and its certificate,
and loops over containers.  All are checked by TLC on small instances and, where a
proof is in reach, proved with TLAPS for every instance.

## 1. Inventory

| Component | State | Operations | Talks to | What is hard | What makes it correct |
|---|---|---|---|---|---|
| Command line (`main.cpp`) | options | choose one mode | Driver | nothing | – |
| Lexer | position in the text | next token | Driver, imports | nothing (pure) | – |
| Import resolution (`Driver::resolveImports`) | set of visited paths | splice a file's tokens | Lexer, files | cycles, one file under two names, a file that cannot be read | each file spliced once, before its first use |
| Parser | position in the tokens, two mode flags, errors | one function per construct; recovery to the next declaration | AST | flags saved and restored by hand in two dozen functions; going on after an error | what is written is what is read, or an error is reported |
| Bitfields (in the parser) | – | check a layout, write its methods and their contracts | Parser, encoder | boundaries of positions, overlap | each method keeps its clauses |
| Sema: types and constants | – | type an expression, fold a constant | IRGen | folding in 64 signed bits for every type | a constant is what its initialiser computes |
| Sema and IRGen: objects | struct table, virtual slots | lay out, splice base fields, collect slots, call | IRGen | passes over structs in the order of the file | offsets, sizes and overrides agree |
| Sema: moves | scopes, moved names | check an expression, statement, function | AST | the moved set is neither scoped nor merged at branches | no value is used after its move |
| IRGen | scopes, drop list per scope, loop targets, exit block | one generator per statement kind | runtime | a compile-time list stands for what is alive at run time, over branches, loops, returns and defers | every owned value is dropped exactly once |
| Contract gates (`genContractGate`) | – | trap on a false condition | generated code | must agree with what the encoder proves | an accepted body trips no gate |
| Contract encoder (`emitFnContracts`, `smtEncodeStmts`) | symbolic store, path condition, premises, output file | walk one statement, discharge one claim | splitter, ghost encoder | merges, loop exits, inlined calls | a discharged body meets its contracts |
| Contract encoder: terms (`smtExpr`, `smtExprWp`) | store, which names are words | give an expression its term | solver | integers against words, in two paths | the term says what the gate computes |
| Proof splitter | – | split a goal | encoder | substitution, premises and labels of the sub-goals | together the goals decide the clause |
| Ghost encoder | names bound to symbols | regions, two-state, preserves, refines, interference rows | encoder | names of handlers and invariant in one map; rows with nested queries | a query decides the claim of its declaration |
| Verify report (`doVerify`) | rows, answers, position | run solver, read the file back, assign answers, report | solver, file | only order links an answer to a clause; the solver may stop | each row shows its own answer; success means proven |
| Proof certificate (`ProofDispatch.cpp`) | goal files, answers, log | cut the file into goals, run a solver on each | solvers, files | blocks found by their text, fixed file names, partial output | the log says of a goal what the report says |
| Build pipeline | temporary files | run opt, llc, clang | tools | leftovers of a crash | – |
| Runtime: channels | ring, counters, lock, two condition variables, heap copies | send, recv (narrow, blob) | threads | lost wakeups, two sides racing, the end of the ring | a bounded FIFO queue, no call stuck |
| Runtime: hash map, hash set | entries in arrays, open-addressed buckets | set, get, delete, clear, growth, rebuild | map loops | indices that move, load limit, two notions of equality | a map from keys to values |
| Loops over containers (IRGen) | index, length or snapshot | test, visit, step | runtime | the body changes what the loop walks | each element that stays is visited once |
| Runtime: ordered map, set | sorted arrays | set, get, delete | map loops | boundaries of the bisection | a map from keys to values |
| Runtime: string arena | one block, end, capacity | allocate | every string operation | the block moves when it grows | strings keep their text |
| Runtime: vectors, text, math, time, matrices | array, length, capacity | one call each | – | boundaries | – |
| Runtime: threads, `sync` | thread handles, a counter | create, join, begin, end | channels | see below | – |
| Hypervisor (`hv/`) | VMCS, register frame, page tables | boot, launch, exit handler | processor | guest state across an exit | each exit resumes or stops the guest |
| Verified library (`std/verified`) | ring, buffer, page table | push, pop, map | encoder | contracts at the boundary | the contracts |

How they interact: the Driver calls Lexer, import resolution, Parser and Sema in
that order and gives the checked AST to IRGen (for a program) or to the contract
encoder (for a proof).  The encoder and IRGen never meet: that a gate proved by the
one is the gate the other generates is an assumption of the design and the subject
of `WpEncoder`.  The encoder and `doVerify` meet only in the SMT file: nothing but
the order of its lines says which answer is whose, the subject of `VerifyReport`.
Generated code reaches the runtime by plain C calls.

About threads: `spawn` evaluates its body in the calling thread and then creates a
thread without a body (`IRGen.cpp:2354-2370`; `ox_thread_create` refuses the null
function), and `sync` counts entries without anybody ever waiting
(`Driver.cpp:1268-1273`).  Threads that meet at a channel are therefore created by
`extern` code, which is what the channel's lock and condition variables are for and
what `Channel` models.

Every hazard found while reading is listed with its line in `PROJECT.json`; those no
property covers say why.

## 2. Modules

| Module | Stands for |
|---|---|
| `BoundedFifo` | what a channel promises: a queue of at most `Cap` messages |
| `Channel` | `ox_channel` and its calls, step by step (`Driver.cpp:1167-1248`) |
| `ChannelProofs`, `MCChannel` | its theorems: the queue, the wakeups, the copies; its instance |
| `KeyValueStore` | what a map promises: a partial function and the result of a lookup |
| `HashMap` | `ox_hmap` (`Driver.cpp:573-700`); `ox_hset` is the same code without values (`708-799`) |
| `HashMapProofs`, `MCHashMap` | its theorems; its instances |
| `VerifyReport` | the SMT file as the encoder writes it, the solver, and `doVerify` |
| `VerifyReportProofs`, `MCVerifyReport` | its theorems: the rows, what success means; its instances |
| `WpEncoder` | the encoder's walk of a body, and the runs of the code IRGen makes of that body |
| `WpEncoderProofs`, `MCWpEncoder` | its theorems; its instances |
| `Ownership` | Sema's moved names and IRGen's drop lists over a body, and what the generated code does with the values |
| `OwnershipProofs`, `MCOwnership` | its theorems; its instances |
| `Imports`, `ImportChecks` | the recursive splice of imported files (`Driver.cpp:1418-1461`); what it promises, and programs |
| `Parser`, `ParserChecks` | the recursive-descent parser (`Parser.cpp`); a printer, damage, and inputs |
| `Bitfield`, `BitfieldProofs` | a bitfield's layout and generated methods (`Parser.cpp:3847-4104`); its theorem |
| `WordOps`, `WordProofs` | one operation on words: its instruction, its compound assignment, its folding; its theorems |
| `Arith`, `Terms`, `ArithChecks` | the types, code, folding (`Arith`) and terms (`Terms`) of an expression, over `WordOps`; regular runs, and inputs |
| `Discharges`, `DischargeChecks` | the queries of refines, preserves, cycle_preserves and noninterference (`Ghost.cpp`); the claims, and handlers |
| `Objects`, `ObjectChecks` | layouts, virtual tables and calls of structs with bases; what they promise, and struct families |
| `Splitter`, `SplitterChecks` | the splitter's goals (`ProofSplitter.cpp`); the clause they stand for, and clauses |
| `ProofFile`, `ProofFileChecks` | one function's lines in the SMT file, the solver's stack, the certificate; what answers mean, and functions |
| `Loops`, `LoopChecks` | for loops and the containers their bodies change; what a loop promises, and loops |
| `MCStages` | the nine modules above as stages of one specification, each over its own inputs |
| `Blocks`, `BlocksProofs` | where the ends and arms of nested blocks are, in a sequence of instructions; lemmas on them |

### Channel

One variable per field (`slot`, `head`, `tail`, `count`), the lock's holder, the set
of sleepers per condition variable, and per thread its place in the call, the blob in
its hand and the calls it made.  A call is cut where another thread can get in between
or where a reader could see a half-done change: copy, acquire, test and sleep, store,
advance, signal, free.  `SleepConditionVariableSRW` gives up the lock and sleeps in one
step, returns to the test of its loop, and may return without a signal
(`SpuriousWake`).  `WakeConditionVariable` wakes one sleeper, any of them, after the
lock was released.  `put` and `taken` are history: what went in and out of the ring.
The refinement mapping
gives `BoundedFifo` the ring, read from `head` on (`InRing`), as its queue.

### HashMap

`entries` are the parallel key and value arrays, `buckets` the table of entry numbers
(0 is empty), `cap` and `nbuckets` their sizes.  A lookup is the first place on the key's
probe path that is free or holds the key.  The rebuild of the table is a step per
entry, with `pending` for what the call still has to do when it is over, since a call
that grows must look its key up again.  `Hash` and `Same` are constants: the hash reads
a key's bytes, the comparator its value, and they are two functions in the code.

### VerifyReport

The file is a sequence of lines, each a header or a query.  The encoder's part writes,
function by function, what `emitFnContracts`, `smtClause`, the splitter, the return
sites, asserts, calls and the ghost section write, in their order and with their
headers; the solver answers query after query and may stop at any moment; the reader's
part is `doVerify`'s scan, its count of queries per row, its assignment of answers, the
rows it leaves out because a return site supersedes them, and the exit status.  Shapes
of a clause stand for the sub-goals the splitter makes: halves, of which all must hold
(`#s0`, `#s1`), or one goal tried with its premises one by one and together (`#p0`, `#pfull`).
A clause `IsProved` if all its halves are, or one asking of the whole; it `IsMasked` if a
query of it that was not proved stands before one that was, another half or a query on
something else without a row, for `doVerify` reads the later answer only.

### WpEncoder

A body over one variable is written one statement at a time and encoded as it is
written, then run from every admitted input.  The solver is ideal: an SMT symbol has a
value in each *world*, a formula is the set of worlds where it holds, and a query is
discharged when its premises are a subset of its claim.  What the model shows is about
the encoding and not about a solver.  `walk` is the store, path condition, premises and
dead flag of the walker; `frames` are the statements it is inside of; `facts` is what
the file asserts at its top level.  The run has the gates that IRGen generates: asserts,
the invariant at the head of a loop body, the ensures at a return.  `gap` records that
a run took a step that the encoding does not claim to cover (section 4).

### Ownership

As in `WpEncoder`, a body is written one statement at a time and then run, here with
values of one type that has a destructor.  `scopes` holds, per scope, the slot of each
name and the drop list; `moved` is Sema's set; `ir` is the code, with the drops that
IRGen puts at the end of a scope, at a jump and at a return.  Sema's check of a
statement and IRGen's code for it are one step: the compiler runs them one after the other over
the whole body, and neither reads what the other writes.  In the run a move copies a
value number and leaves it in the source's slot, as the bytes are left there; `alive`
are the values that are neither dropped nor handed over, and a run ends `clean`, with a
`leak`, a `double drop` or a `dead touch`.  `gone`, `owner` and `lapses` are history.
`while` and `if` stand for every scope that is entered or skipped; branches are free.

### The stages

The compiler's stages keep nothing between two inputs, so `MCStages` has one step: it
picks a stage and an input, runs the stage, and the invariant compares the outcome with
what the input says.  Each pair of modules has the code on one side and on the other
an independent reading: a printer for the parser, the meaning of an expression at run
time for its terms and constants, the handlers' execution for the ghost queries, a
model of the solver for a proof file.  Where the code is known not to agree, a *lapse*
says for which inputs, as narrowly as we could make it; each one was checked to be
needed, and section 4 lists them with their lines.

* `Parser`.  A token is a string, a tree a node with kids.  A parse function maps a
  cursor (tokens, position `p_`, number of errors, the flags `inSpec_` and
  `allowStructLit_`) to a tree and a cursor.  `stop` records what C++ leaves undefined:
  a read past the last token, an append through a null pointer.
* `Bitfield`.  A word is the set of its one-bits; a position is a literal cut to an int.
* `WordOps`, `Arith` and `Terms`.  A value at run time is a bit pattern and a type; a term's is an
  unbounded integer, or a word where the encoder lowers to bit vectors.  `Run` is the code
  that IRGen emits, `Fold` Sema's constants, `Term` and `Bv` the two lowerings in the
  two paths ("clause" and "wp").  A run is *regular* if no operation leaves the
  integers (or keeps its word where the term is a word): there, and only there, term and
  run can be expected to agree.
* `Discharges`.  A name is a sequence of words, so that joining with `_` is concatenation,
  and two names can join to one.  A query is the constants it declares and the
  term it asserts the negation of; the solver is ideal.
* `Objects`.  Both passes of Sema over the structs in the order of the file, the pass that
  gives a virtual tree its table pointer, the type that IRGen emits, the slots and calls.
* `Splitter`.  A goal is a term with signed premises; a name that nothing binds is any
  integer, as it is for a solver.
* `ProofFile`.  Formulas are sets of worlds.  The file is a sequence of definitions,
  assertions, pushes, pops, headers and queries; of each query the model keeps where
  what it is about is so.  `Certificate` cuts the same lines as `splitPerGoalSmt` does.
* `Loops`.  A container is a sequence of keyed entries, so that an element can be told
  from another with its value.  The arena's block is a counter of strings and of
  moves: a string made before the last move is freed.  Two bytes stand for the four
  of a slot in a vector of bools.
* `Imports`.  A path is the sequence of its names and separators; `Place` is what a file
  system makes of it, external to the code.

## 3. Runs

| Run | Question | Instance |
|---|---|---|
| `channel` | ring, ownership of copies, lost wakeups, refinement of `BoundedFifo`, every call returns | 2 senders, 2 receivers, 2 calls each, capacity 2 of 3 slots |
| `channel_unbuffered` | *violated:* the ring holds what is in flight, with capacity 0 | 2 slots |
| `hmap` | the table is a map, is never full, holds a key once | 4 keys, 3 of them colliding, first table of 2 buckets |
| `hmap_order` | *violated:* survivors of a delete keep their order | 4 keys |
| `verify_report` | each row shows its own answer, lost answers fail the run, a clause, or each return site that supersedes it, is proved or masked | 2 functions, at most 2 ensures each, at most 4 queries, every shape |
| `verify_masked` | *violated:* success means every assert was proven | at most 3 queries |
| `verify_split` | *violated:* success means every half of a split clause was proven | at most 3 queries |
| `wp` | accepted bodies trip no gate where they are covered; the store describes the run | all bodies of at most 7 instructions, 1 minted symbol, values 0..2 |
| `wp_loop` | *violated:* an accepted loop keeps its invariant | bodies of 4 instructions |
| `own` | values are dropped once, in reverse order and not touched afterwards, on every path | all bodies of at most 6 statements over 2 names, at most 3 values in a run |
| `own_touch` | *violated:* a moved value cannot be touched | calls and reads only |
| `stages` | imports, parser, bitfields, terms, constants, ghost queries, layouts, virtual calls, splitter, proof file, certificate, loops | below |

Why the bounds are enough.

* `channel`: four messages through three slots wrap the ring; two threads on a side are
  the least number where a signal can wake the wrong one or one thread can overtake
  another that was woken; capacity 2 has a full ring that is not a ring with one
  message.  Capacity below the number of slots separates the two limits of the code.
* `hmap`: four entries take the arrays and the table through two growths; the chosen
  hashes give a chain of three, a chain that crosses the end of the table and a key
  that stands in another's way, so each kind of misplacement is reachable.  The code
  starts with 16 buckets: the proofs hold for every first size, and a small one reaches
  the same steps sooner.
* `verify_report`: a wrong hand-out of answers needs a row with more than one query or
  a query without row, before another row; four queries hold every such pair of
  shapes, two functions separate clauses of one number.  The function names are
  interchangeable (symmetry).
* `wp`: seven instructions hold an if with two arms inside or after a loop or a call,
  and what comes after it; with values 0..2 a loop counts past its bound.  One minted
  symbol allows a loop or a call, not both; two were too many states.
* `own`: two names are enough to move a value, to shadow a name and to refer to both at
  once; six statements hold a loop, a branch in it, two statements and a jump out of both.
  A run may create the parameter's value and two more; a loop that would create a
  fourth stops there, after a second turn.
* `stages`, in all some 300 000 inputs:
  *expr, stmt, program*: every form of expression inside every form, and around
  thirteen of them two more levels; every statement around every other and around
  operands of each kind; every declaration, cut at each token, and with each token missing
  or doubled before a second one.
  *bitfield*: words of 3 bits, two fields anywhere, positions that wrap at an int of 4 bits.
  *clause, const, compound*: words of 3 bits, narrow ones of 2, so that each operator
  meets its sign bit, its carry and its shift past the width; two operations in a row, a
  quantifier before or inside, a body of two statements.
  *duty*: an array of three cells with values 0..2, handlers of up to three statements,
  quantifiers up to 2 of them unrolled (the code unrolls 1024); indexes stay in the
  array, where the code would trap.
  *layout, family*: three structs in any order of the file, with fields of 8 bytes, one byte,
  an alias or a struct; chains of three with two method names.  Field names never collide.
  *split*: integers 0..3, one parameter, one function of one argument, two premises.
  *file*: two worlds, two statements of which one holds a block of two, one clause of
  up to two goals, one ghost query.
  *loop*: two or three elements, one or two statements in a body of which the first may be
  under a test of the loop variable, integers of three bits, an arena of two strings, nine
  turns.
  *import*: the input file, one file next to it and one in a directory, each imported by
  every spelling, up to two imports in the input file and one elsewhere, before or after
  a declaration, a file that is missing or broken; paths of at most twelve parts.

Deadlock is not checked in `channel` (all calls have been made), `channel_unbuffered`
(likewise), the `verify` runs (the report has ended) and the `wp` and `own` runs (the
run has ended, a body was refused, or a bound was reached) and in `stages` (the stage
has run).  The `hmap` runs check it.

Fairness.  `FairSpec` of `Channel` asks weak fairness of each thread: one that can
take a step of its call, and keeps being able to, takes one.  A preemptive scheduler
gives that.  An SRW lock is not a FIFO lock, so nothing stronger is asked of `Acquire`: a
thread may be overtaken at the lock as long as others take it, and `AllCallsReturn` holds
because every thread makes a bounded number of calls.  Spurious wakeups get no
fairness, and `AllCallsReturn` is claimed of runs in which they stop: with wakeups for no
reason going on for ever, the threads that are woken could hold the lock at each moment
another one tries it.  No other module states liveness.

## 4. What the runs show

*Disagreements between the code and what it says of itself* (each with its run in
`PROJECT.json`):

1. `Channel<T>::new()` passes capacity 0, with which `send` never waits; once more
   messages are in flight than the ring has slots, unread ones are overwritten.
2. A delete from a hash map moves the last entry forward, so iteration does not keep
   insertion order, which the runtime's comment and `examples/hmap.ox` promise.
3. The frame query of a `modifies` clause is counted with the row before it; a failed
   assert whose row it ends is reported as proven.
4. The sub-goals of a split clause share one row, which keeps the answer to the last of
   them; `ensures A && B` of a ghost function, whose body is not walked, is reported as proven when only
   `B` is.  The splitter's comments want a row for each and all of them proven (`ProofSplitter.cpp:218-220, 414-416`).
5. A loop body is encoded from the values before the loop, so an invariant that holds
   after the first iteration only is accepted.
6. IRGen moves a by-value argument into the callee, Sema does not note the move: the
   variable can be read or passed again, although the callee has dropped its value.

On the answers to one row the code contradicts itself further.  `doVerify` keeps the last
(`Driver.cpp:7149-7154, 7214-7222`), and `RowShowsItsOwnAnswer` says that it does.  `smtClause` says that it keeps the
last answer that is not `unknown`, with `unsat` before the others (3221-3223), `smtDischargeGoal` that of one
goal asked twice it keeps the first that decides (`ProofSplitter.cpp:447-449`): where the first asking is `unsat`
and the second `unknown`, both comments report a proof and the code reports `unknown`.

Equal keys with different hashes are not in any run.  The hash map compares floats by value and takes a null string
for an empty one, but hashes the bytes, and null to 0 (`Driver.cpp:584-640`).  Null, which a missing key
of a map of strings reads as (`IRGen.cpp:2099`), and `""` part already in the first table of 16 buckets, and a map can hold
both.  `0.0` and `-0.0` of `f64` agree in the low seven bits of their hashes, so they share an entry until the table has
256 buckets; of `f32` they differ in bit 31 only.

*What holds.*  No wakeup that a sleeper needs is lost, although the signal comes after
the unlock.  The hash table is never searched when full, which its `-1` result relies
on.  Answers are lined up with rows also when the solver stops early.  The encoder's
store describes every run that stays on covered ground.  A form is read back as it
was written inside every other form, but for the lapses below; a program cut short is
never accepted; and for a variable `x` of any type of 64 bits `x op= y` is `x op y`, but for the sign of a
`u64`.  (Of an element of a vector or a map only `+=`, `-=`, `*=`, `/=` and `%=` are what they say; `&=`, `|=`, `^=`,
`<<=` and `>>=` fall to an add, `IRGen.cpp:1864-1871, 1903-1910`, and are not modelled.)

*What `gap` stands for.*  The encoder does not claim, or does not manage, to cover: a
second iteration of a loop (finding 5), a loop without an invariant, a loop that is not
entered when its invariant is false at the start, `break`, an early return inside an
inlined callee's `if` or loop, and an `assume` on a path not taken, whose fact is
asserted for the whole file.  The hazards in `PROJECT.json` give the lines.
`OnlyUncoveredRunsFail` says that nothing else is wrong: the list is complete for the
bodies modelled.

*What `lapses` stands for.*  The drop lists of IRGen mean "the variable owns a value
here" only while one path is like another and one name means one variable.  Six kinds of
statement, all admitted by Sema, end that: reading a value after it was passed to a
call (`touch`, finding 6), a move in a block inside the variable's scope (`far`: the other
path, or the next turn of the loop, still has, or no longer has, the value), assigning to a
variable after its value was moved away (`overwrite`), `let a = a` and `a = a` (`self`), a
defer whose variable is moved later (`deferred`), and a defer or returned variable that
shares its name with another (`shadow`).  `FailuresHaveALapse` says that bodies without
them never leak, drop twice or read a dropped value, and which of them each failure
needs; the mere shadowing of a name, early jumps out of nested scopes and variables
declared anew in each turn of a loop are handled right.

*What the stages' lapses stand for.*  Outside them the stage and its reading agree on
every input checked.  Where a document or comment says otherwise it is named.

* Imports.  A visited file is known by the spelling of its path (`Driver.cpp:1430-1433`): one that
  is reached as `d/../a.ox` too is spliced twice, and so is the input file, which is
  never marked.  Files that import one another through `..` spell longer paths each
  turn, until none can be opened.  (`docs/02-language.md:455` says that `import "name"` reads `name.ox` and
  that `--import-path` is searched; the code adds no extension and has no such search.)
* Parser.  A head that opens with `(` ends at its `)`, so that `if (a) + b` loses what
  follows (1670); no struct literal is read in a head, not even in parentheses, nor below a
  form that resets the flags (1854); the step of a for that ends in a name takes the body as
  a literal (1838); comparisons `a < b > ...` are read as type arguments (662); bounds of a quantifier
  are read outside contract mode (3175); arms after a default one are appended through a null pointer
  (1785); a spawned block of more than one expression loses its body (3087); a lambda in an array makes
  it a matrix (3406); a citation after an assume takes a token too many; a missing `}` hands the next
  declaration to the open body, and `unsafe` is no token that recovery stops at (22).
* Bitfields.  Fields that overlap are accepted (3921).
* Terms.  `exists` is encoded with its range as a premise, so it always holds
  (`Driver.cpp:2752`, against `docs/03-verification.md:121`); a gate's quantifier leaves its binder behind
  (`IRGen.cpp:821`); a parameter that hides a constant is still folded as the constant in a mask
  (`Driver.cpp:1728`).
* Constants and assignments.  Folding is in signed 64 bits and a cast keeps its value
  (`Sema.cpp:628, 703`); a compound assignment is signed, and of 64 bits (`IRGen.cpp:1941`), which on a
  narrow type is no valid code: the run states it of 64-bit types.
* Ghost queries.  As above for `exists`; an empty range (unrolled to nothing); a return inside an if
  keeps its arm's stores out of the result (`Driver.cpp:5644`); a name at different positions
  of handler and invariant is bound to the later one (`Ghost.cpp:1309, 1787`); `preserves` reads a requires after the
  body; a handler that leaves the term alone loses the invariant as its premise; a spec function that returns a value names
  an undeclared constant; two names may join to one.  What noninterference proves of each handler as one step
  holds of interleaved handlers only if each touches the array once, and
  the invariant speaks of no argument (`docs/07-owicki-gries-smt.md`, section 2C, says more).
* Objects.  A struct declared before its base is given the base's own fields only (`Sema.cpp:4861`); a
  field is placed by what its struct's size is by then (4843); a virtual tree brings aliases back as types
  (1098); a plain method that hides a virtual one is put in its slot (`IRGen.cpp:5600`, against
  `docs/02-language.md:418`); in a tree without a virtual method an `override` may override nothing, since slots,
  where that is looked for (`Sema.cpp:1021-1035`), are collected of virtual trees only.
* Splitter.  A binder stays in calls and under inner quantifiers (`ProofSplitter.cpp:182`); labels with `#` are
  no SMT symbols, so a clause of more than one goal is never proved (222).
* Proof file.  An assume in an arm, and the requires and ensures of a recursive call, hold from there on for the whole file
  (`Driver.cpp:5412, 4361`), and the range of a parameter is asserted for the ghost section too.  The
  certificate leaves out hints and steps, knows facts that were taken after the goal, and reads
  the first answer of a file that asks several queries (`ProofDispatch.cpp:281, 135`).  (`docs/feature-reference.md:190`
  and `docs/06-competitive-analysis.md:53` say that `oxide check` replays the log; nothing calls `replayProofLog`.)
* Loops.  An element that a statement moves across the loop's position is passed by or
  seen twice: the next of a vector slides under it, the last of a hash map fills a hole
  behind it (`IRGen.cpp:4800`; the comment above it says that insertions are bounded by the live count, and a
  loop that adds in each turn never ends); `..=` up to the greatest integer never ends (4884); strings made in the
  loop may move the arena from under its elements (`Driver.cpp:108`); in `c[k] = c[j] = v` on anything but an
  array one store is lost (`IRGen.cpp:1802`); a vector of bools is torn by `remove_at` and `insert_at` (`Driver.cpp:1046`).

## 5. Proofs

| Theorem | Says | Argument |
|---|---|---|
| `ChannelProofs!TypeCorrect` | `[]TypeOK` | `TypeInv`: the lock has a holder exactly while that thread is inside, sleepers are asleep, hands are full where they should be |
| `ChannelProofs!ChannelIsFifo` | if it `Fits`, `[]RingHoldsInFlight` | `RingInv`: the slots from `head` on hold the messages put and not taken, and what a thread has half done (stored, fetched) is accounted for |
| `ChannelProofs!BoundedChannelImplementsFifo` | for `Cap > 0`, `Spec => ImplementsFifo` | a store is the queue's put, a fetch its take, every other step leaves the ring's reading alone |
| `ChannelProofs!NoReceiverIsStranded`, `NoSenderIsStranded` | no sleeper misses the wakeup it needs | counting, below |
| `ChannelProofs!NobodyDeadlocks` | if it `Fits`, `[]QuietMeansFinished`: where no thread can take a step of its own, the calls have returned whose partners there are | counting, below |
| `ChannelProofs!ChannelOwnsItsCopies` | if it `Fits`, `[]OneOwner` | `OwnInv`: hands, slots and the freed copies are apart, and a copy half handed over is in one of the two |
| `HashMapProofs!TypeCorrect` | `[]TypeOK` | from the invariant below: the places a call writes to exist because the table is not full |
| `HashMapProofs!TableIsNeverFull` | `[]NeverFull` | `SizeInv` and `TableInv`, below |
| `HashMapProofs!KeysAreUnique` | `[]OneEntryPerKey` | distinct keys, with a lookup that finds a key if it is there |
| `HashMapProofs!TableImplementsStore` | `Spec => ImplementsStore` | each step is a step of `KeyValueStore` or a stutter |
| `VerifyReportProofs!TypeCorrect` | `[]TypeOK` | as it stands |
| `VerifyReportProofs!ReportIsAligned` | `[]RowShowsItsOwnAnswer` | the rows cut the queries into consecutive stretches; the next word to hand out is the first of the next row's stretch |
| `VerifyReportProofs!LostAnswersFail` | `[]LostAnswersFailTheRun` | `LossInv`, below |
| `VerifyReportProofs!SuccessProvesUnmaskedClauses` | `[]OnlyMaskedClausesLackAProof` | `ProofInv`, below |
| `WpEncoderProofs!StoresDescribeRuns` | `[]StoreDescribesRun` | `IInv`, below |
| `WpEncoderProofs!CoveredRunsDoNotFail` | `[]OnlyUncoveredRunsFail` | the same invariant: a gate that fails is a claim that the run's world refutes |
| `OwnershipProofs!TypeCorrect` | `[]TypeOK` | `DropInv`, with the open blocks in step with the scopes (`WalkInv`) and no more values than instructions (`ValueInv`) |
| `OwnershipProofs!ListsSayWhoOwns` | `[]ListedIffOwned` | `DropInv`, below |
| `OwnershipProofs!RunsAreClean` | `[]FailuresHaveALapse` | `CleanInv`, below |
| `OwnershipProofs!DropsAreInReverse` | `[]DropsRunInReverse` | the same invariant: a drop's operand is the youngest slot that owns a value |
| `BitfieldProofs!DisjointIffContractsKept` | the generated methods keep their clauses, for all words, exactly if no two fields share a bit | bit by bit: what a setter writes outside and inside of its own field; two fields that share a bit have a word that tells them apart |
| `WordProofs!CompoundIsTheInstruction` | `x op= y` stores what `x op y` computes, for a variable `x` and words of every width, unless a u64's top bit meets a division, remainder or right shift | a number and the word it is in are congruent, and sums, differences, products and left shifts keep that |
| `WordProofs!FoldingIsTheInstruction` | a folded operation, shift or comparison is stored as the word the instruction computes, for words of every width | the same, with a number being read back from its word |

Of a channel's condition the proof counts: the *work* there is (messages in the ring
for receivers, free slots for senders) is never more than the threads that are about
to signal it and the threads of that side that are awake, while one of them sleeps.
A thread that signals wakes a sleeper or finds none; a thread that goes to sleep has
seen that there is no work.  The capacity plays no part, and neither does which
sleeper wakes or how often one wakes for no reason.

A channel `Fits` if it is bounded, or if it is unbuffered and is sent no more messages than its ring has
slots (its `Room` is its capacity, or those slots); finding 1 begins with the message after that, so the claims on the ring cannot be had beyond it.  What
an unbuffered channel needs instead of the test for room is a count of its calls: the messages put and taken are the
calls the threads have got through (`CountInv`), so one that is about to store is a send that has no message in the
ring yet, and there is a slot left for it (`StoreFindsRoom`).  The same count is what turns the wakeups into
`NobodyDeadlocks`.  Where nobody can go on, every thread sleeps or is done; a receiver that still sleeps has no work,
so the ring is empty, so no sender sleeps, so all sends went through and are more than the receives that did, against
the assumption that there are as many sends as receives.

The hash map's inductive invariant says that every entry the table names is reachable:
on the probe path of its key there is no free bucket before it (`TableInv`), that
distinct entries have distinct buckets, and that the table has more buckets than
entries (`SizeInv`).  From the last, by counting, a free bucket exists
(`FreeBucketExists`), so a lookup ends (`FirstStopExists`); from the first a lookup that
ends at a free bucket proves that the key is absent (`FindIsCorrect`).  None of the
stated properties is inductive without it.

That a lost answer fails the run (`LossInv`) needs three facts of the file and one of
the rows.  In the file a return site's query follows its header at once, and every
return site of a function stands after its ensures clauses (`FileInv`, from the order
in which `emitFnContracts` writes).  The row with the last query is the one that loses
its answer.  If it were a superseded fallback, a return site's row would come after it
and hold a later query.  That a clause is proved or masked (`ProofInv`) ties the rows to the
file's lines: each header that was read has a row, whose last query is the last one
under that header (`HeadersHaveRows`), and each return site's row has a header
(`SitesHaveHeaders`).  By `ReportIsAligned`'s invariant the row's status is then the
answer to that query, and an accepted status that answers a query is `unsat`; so any query of
the clause that was not proved stands before one that was (`ProvedOrMasked`).

That the drop lists say who owns (`DropInv`) needs that no two declarations share a
slot, or a move of the one would be read as a move of the other, and that a list holds
a variable once and only in the scope that declares it, or taking it off would leave a
second entry behind.  A lapse is remembered from the statement on, so the claim on
lists and moves is made of bodies that had none so far.

What a run does follows from the lists only through the code, so `CleanInv` describes the code by what owns a
value at each of its *points*, the positions between instructions: the slots `live` there, the slot `res` that a
return has read, and whether the point is `dead`, behind a jump.  `Straight` says what an instruction needs of its
point and what the next one is (a `drop` needs its slot live, and older than no other live slot, a `ret`
that only `res` is live); `Step` says of `else`, `end`, `break` and `continue` that the point they lead to is
the one they come from.  While a body is written (`BodyInv`), some points fit the code so far (`Body`), the last
one and the one where each open block began are what the drop lists say (`Live`, in `Written`): an arm or a turn
of a loop ends with what it began with, or at a jump, because without `far` it moves no variable from outside
and what it declared is dropped at its end.  When the body is finished the points fit all of the code (`CodeIs`), and
while it runs (`RunInv`) the run's values are just those of the live slots of its point, each in the slot it belongs
to (`Holds`, `RunsAt`), so that an instruction can only fail where its point has a lapse.  The statements that
spoil the lists for good (`touch`, `far`, `overwrite`) end the claim (`Tame`); `self`, `deferred` and `shadow`
only weaken it, which is how each way to fail gets the lapses that can bring it about.  That the points exist is a
claim on all sequences of points, which TLC cannot enumerate: it checks what follows from it.

What the encoder says of runs needs an invariant in two parts (`WpEncoderProofs!IInv`), for bodies of any
length.  The properties only speak of an instruction that a run has reached, by when the walk is long over:
so `Static` keeps, of every point of the body written so far, how its walk came from the walks at earlier
points, what its query claimed, where its block ends and what the walk behind that end is made of; and
`FramesInv` keeps of the blocks still open what their ends will need.  The hard case is a call.  Its result is
a symbol until a return binds it, and ifs in the callee merge results; what survives is that a return which
no merge or loop dropped ends up as the result at the call's end, as long as the symbol occurs nowhere else
(`Waits`).  `RunInv` then says of a run that some world fits (`Fits`) not just the point it is at, but every
block around it: its guard is true in the first arm and false in the second, a loop's `x` is the one before
the loop unless the body assigns it.  Without the blocks the merge at an end could keep the arm that the run
did not take.  A loop or call left behind gets its own symbol the value that `x` has now; the world stays the
same to all that was walked before, which is blind to that symbol (`AlikePut`).

`BlocksProofs` has what these proofs need of `Blocks`: its operators look for ends by counting openers
and `end`s, the proofs want nesting.  There a block is around a point when no count in between has come down to
zero (`Around`), blocks nest (`AroundInner`, `InnerEndsFirst`), appending an instruction changes no
count before it (`AroundAppend`, `ClosesAppend`), and in finished code what the operators find is what was
meant (`EndIs`, `EnclosingIs`, `InnermostIs`, `OpenerIs`, `ElseArmIs`).

Assumptions: those the modules name (`ThreadsAssumption`, `CapAssumption` and so on), which
TLC evaluates in every run; for the queue, the refinement and the copies of a channel
`Fits` (for the refinement `Cap > 0`; finding 1 is what happens otherwise), for its wakeups nothing; for the hash
map `KeysCompareByIdentity`, which is false for floats and for null strings (section 4).  The theorems on
`VerifyReport` speak of queries that stand under a header, as the properties do.

The theorems on words need arithmetic modulo `2 ^ Width` for any `Width`, and the prover knows nothing of
powers: that they double comes from counting the subsets of `1 .. n` (`PowerIsCount`, `PowerDoubles`).  The rest is
that sums, differences and products of congruent numbers are congruent (`ModOperations`), and that reading a word as a
number of either type, or extending or cutting it, keeps it congruent (`ValueOfWord`, `CoerceWord`).  A signed and
an unsigned reading part only where an order, a quotient or a right shift looks at the number itself.

Leaves are kept short enough to be proved in about a quarter of the prover's default time.

Only model-checked: `AllCallsReturn`, of which `NobodyDeadlocks` is the part that needs no fairness; and of the
stages, which are recursive over trees and use RECURSIVE operators, all but the bitfields and what `WordProofs`
says of one operation.  There, `FoldedConstantsAreComputed` speaks of whole expressions, and of `&`, `|` and `^`, whose
table is a sum over a set of bits, defined by recursion.  Liveness under
fairness, `ENABLED`, induction over data and RECURSIVE operators are out of the prover's reach.

## 6. Not modelled, and why

* The lexer and the command line are pure, and have no property beyond their tables.
* Sema's rules on generics, concepts, effects, visibility and on where contracts may stand; the inputs of the
  modules are programs that Sema admits.
* Sema's look at the methods a bitfield generates: a field is accepted in `Bitfield` if the parser accepts it.  The setter's
  `raw & ~m` is then refused by Sema where `raw` is not an `i64` (`Sema.cpp:2031-2033, 2157`: `~` gives an `i64`, and `&`
  wants one type on both sides).
* Floats, arrays, fields, calls and devices in `Terms`; `WpEncoder` abstracts terms to sets of worlds over one
  variable and has no for loops, memory operations or recursion (`ProofFile` has the premises of
  calc, proof blocks, induction and recursive calls, over worlds).
* In `Discharges` the audit of hypotheses, asm specifications, regions and two-state terms; two of the certificate's
  processes at once in one directory.
* In `VerifyReport` the printed table, the audits and the notes.
* In `Ownership` moves out of fields and by-value receivers, deferred blocks, `for`, `match` and lambdas; a
  function that falls off its end where a value is due returns zeros, and what the caller does with
  them is not modelled.
* The single thread of a program with `spawn`, and `sync`, for which see section 1; random numbers, whose
  state is shared without a lock; text, time, math and matrices.
* Code that nothing calls: `dispatchToSolvers`, `mergeResults`, `parseProofLog`, `replayProofLog`, `probeSolver`,
  `smtWalkStmts` (`Driver.cpp:3249-3370`).
* The hypervisor is a sequence of processor instructions; the verified library is Oxide source, whose contracts are what the
  encoder is for.  The LLVM tools and the file system are outside.

## 7. Plan

Done: every module of section 2, and the proofs of `Channel`, `HashMap`, `VerifyReport`, `WpEncoder`,
`Ownership`, `Bitfield` and `WordOps`.

What could follow:

1. `Ownership` with moves by receivers, deferred calls and blocks, and the ensures exit block.
2. `Terms` with calls, fields and arrays; `WpEncoder` with for loops.
3. The exit loop of the hypervisor.
