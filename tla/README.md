# A TLA+ model of the Colm run-time

Colm is a language for transforming text. A Colm program declares tokens and
context-free grammars; the compiler turns the declarations into a scanner and
LALR(1) tables, and the run-time parses with them. What sets it apart from an
ordinary parser generator is that the grammars need not be unambiguous or
LALR(1), that the scanner is chosen by the state of the parser, and that semantic
actions (which may write global variables, push text back, reject the reduction
they belong to or exit) run *during* the parse. When the parse meets an error
it walks backwards, undoing shifts, reductions, scanning and the effects of actions
one by one, until it finds a choice that it has not tried. A program can also take
back a whole parse statement.

That generalized, fully reversible parser is the heart of the system and of this
project, with the input below it: a queue of trees, texts and files from which
tokens are taken and to which they are given back, while actions pull from it, push
onto it and send to it; the trees, lists and maps that actions change, with
the reverse code that changes them back; and the scanners, built from token patterns at
compile time, as are the parse tables from the grammar. It is sequential code (a coroutine that returns to the interpreter to
have actions run), so there are no races; what makes it hard is a *protocol*: long
sequences of forward and backward steps over hand-linked lists, with counters and
flags that must agree with them, in orders no test enumerates.

## 1. Inventory

Source paths are relative to `src/`.

| component | state | operations | interacts with |
|---|---|---|---|
| **Parser run-time** `src/pdarun.c` | `struct pda_run`: stack, input, accumulated ignores, automaton state, region index, retry, shift and step counters, flags of the backtracking, reverse code | `colm_parse_frag`, `colm_parse_undo_frag`, `colm_parse_loop`, `parse_token`, `scan_token`, `send_*`, attach/detach of ignores | calls the input stream; returns to the interpreter (PCR_GENERATION, PCR_REDUCTION, PCR_PRE_EOF, PCR_REVERSE) and is called again; allocates from pools |
| **Input streams** `src/input.c`, `src/stream.c` | queue and stash of buffers; per stream a queue of run buffers, a count of consumed text, line/column/byte | get, consume, undo consume, prepend, append and the undo of each | called by parser and interpreter |
| **Interpreter** `src/bytecode.c` | VM stack, frames, `induce_exit`, reverse code being collected | instructions, each in up to four variants (R, WV: write with reverse code, WC: without, BKT: the undo) | drives the parser; runs its actions and reverse code |
| **Reverse code vector** `src/codevect.c` | growable byte vector | append, pop, resize by thresholds | interpreter, parser |
| **Pools** `src/pool.c` | blocks, free list, next fresh element | allocate, free, clear, count of lost elements | everything |
| **Trees** `src/tree.c` | reference counted trees, kids, attributes, ignore lists | upref, downref, split on write, push/pop ignores, construct, match | interpreter, parser |
| **Lists, maps, iterators** `src/list.c`, `src/map.c`, `src/iter.c` | linked list; AVL tree with an ordered list; cursors | add, detach; insert, remove, rebalance; advance, split | interpreter |
| **Reducer commits** `src/commit.c` | which parse trees have been reduced | `commit_reduce` at commit points and at the end | parser |
| **Program, structs** `src/program.c`, `src/struct.c` | heap list, globals, exit status | allocate, run, delete, report lost objects | everything |
| **LR tables** `src/pdabuild.cc`, `pdagraph.cc`, `closure.cc` | LALR graph | closure, order of alternatives, commit and shift-reduce, token regions per state | produces the tables that the parser runs on |
| **Scanner construction** `src/fsm*.cc`, `redfsm.cc`, `redbuild.cc`, `fsmexec.cc` | finite automata | union, concatenation, determinization, minimization, longest match | produces the scanners |
| **Compiler front end** `parser.cc`, `parsetree.*`, `declare.cc`, `resolve.cc`, `lookup.cc`, `synthesis.cc`, `compiler.cc` | syntax trees, name spaces, types | passes | |
| **Code generation, bootstrap, command line** | | | pure output, generated code, process start |
| **`src/aapl`, `src/libfsm`, `src/cgil`** | containers; the automaton library and code generators of ragel | | |

What makes each correct, and hard:

* *Parser*: every node in exactly one place; no text lost, doubled or reordered;
  the actions whose effect stands are exactly those of the reductions that stand;
  counters equal what they count; committed input stays; a call returns; the words
  accepted are the words of the grammar; taking a statement back restores the
  parser. Hard: step sequences, choices met while undoing, actions that fail.
* *Input streams*: what is read is what was put in, once and in order, whatever buffers
  it lies in; what was taken can be given back into its place; undo is the inverse of
  each operation; lines and columns survive it. Hard: reading ahead block by block, buffers
  freed, stashed and split between an operation and its undo.
* *Interpreter*: a BKT instruction is the inverse of its WV instruction; blocks of
  reverse code come back in reverse order.
* *Pools, trees*: no element is used after it was freed or freed twice; reference counts
  equal the number of references; sharing is never seen. Hard: writes through a position in
  the middle of a tree while loops stand in it.
* *Maps, lists*: the structural invariants of the AVL tree and the linked list; what an
  action did to them is undone exactly.
* *Parse tables*: the states are those of LR(0), no lookahead is missing, what is tried first
  is what the program says, and the parser finds with them every derivation and nothing else.
  Hard: states dropped and transitions moved while queues run; queues of transitions that grow
  under their own walk; rows laid over each other; orders that depend on addresses.
* *Scanners*: the automaton accepts what its definition says; the scanner finds
  the longest match, as early as it can be known. Hard: automata are merged in place, with
  counts that decide which states live.

`PROJECT.json` lists every component with its status, and under `hazards` the lines
of the code where one of these can go wrong, with the properties aimed at them.

## 2. Modules

| module | what it is |
|---|---|
| `PdaRun` | the parser: state, one action per step of the code, specifications, the invariants that are proved |
| `PdaRunProps` | what the parser promises beyond that, in terms of whole parse trees (recursive definitions, for the model checker only) |
| `Recognizer` | the abstract specification: given text piece by piece, accept a word or reject what cannot become one |
| `RunGrammars` | four small programs to run the parser on: grammar, tables, regions and actions |
| `MCPdaRun` | the parser on them |
| `PdaRunProofs` | theorems about `PdaRun` with TLAPS proofs: types, the scanner, the commit count; no cell is in two of the parser's lists, or in one twice |
| `SeqSets` | lemmas on sequences: the elements of those that stand for linked lists; joining, cutting, prefixes, least places, iteration |
| `PdaRunPath` | proof: the stack is a path of the automaton, and every lookup of a transition finds one |
| `PdaRunTrail` | the cells the parser has shifted, in that order, and lemmas about what changes that order |
| `PdaRunBack` | proof: the assertions of the backtracking |
| `PdaRunRetry` | proof: `num_retry` is the number of choices left |
| `PdaRunCommit` | proof: commits hold, and `shift_count` counts what was shifted |
| `PdaBuild` | the construction of the parse tables (`closure.cc`, `pdabuild.cc`, `pdagraph.cc`), from the grammar to the arrays |
| `GrammarLang` | the reference: derivations, FIRST and FOLLOW, canonical LR(0), LALR(1), as least fixpoints |
| `PdaBuildProps` | what the tables promise, with the parser's way to read them |
| `MCPdaBuild` | families of grammars, and the comparison with the tables of `RunGrammars` |
| `StreamData` | one stream (`stream.c`): run buffers, reading ahead, consuming and giving back, positions; operators on records |
| `InputSeq` | the input (`input.c`): queue and stash of streams and trees, and the calls of parser, actions and statements with the undo of each |
| `InputSeqProofs` | proof: the scanner reads the text of the queue in order |
| `UndoQueue` | the abstract specification of an input: one queue whose changes can be taken back, last first |
| `MCInputSeq` | small texts, files and trees, and the programs of the runs |
| `ColmMap` | a map (`map.c`): AVL tree and ordered list, operators on records |
| `Containers` | lists (`list.c`) and maps under the instructions that change them, their reverse code and its undo |
| `UndoContainers` | the abstract specification of both: a sequence and a dictionary whose changes can be taken back action by action |
| `MCContainers` | two programs and the properties of the containers |
| `TreeHeap` | trees (`tree.c`) as reference counted cells, references into them and iterators (`iter.c`), and the statements of a program on them |
| `TreeValues` | the abstract specification: trees are values, loops visit them in order |
| `MCTreeHeap` | the properties of the heap, what its cells stand for, and the view |
| `FsmGraph` | the compiler's automata (`fsm*.cc`): operations in place, priorities, misfits, minimization |
| `FsmBuild` | the walk over a token's pattern (`parsetree.cc`), on a stack of automata |
| `RegLang` | the abstract specification of that: the operators on languages |
| `TokenScan` | a region's scanner: the longest match transformation (`parsetree.cc`) and its execution on blocks of input (`fsmexec.cc`, `scan_token`) |
| `MCScanner` | the languages of automata, and the properties of scanners |

### How PdaRun corresponds to the code

State. `pt` is the contents of the pool of parse tree cells (`parse_tree_t`), `live`
the allocated ones. The linked lists `stack_top`, `parse_input`, `accum_ignore`,
`child`, `left_ignore`, `right_ignore` are sequences of cells in the order of the
`next` pointers; the sentinel below the stack is left out. The other variables are
the fields of `struct pda_run` of the same name. `fsm` stands for `fsm_cs`,
`tokstart`, `tokend`, `act`, `scan_eof`: the text the scanner's automaton has read
since the token began. `input` is the stream as the parser sees it, a sequence of
items: characters, trees, ignored trees. A reverse code block holds what running it
does: the environment value it restores, the items it gives back and the number of
items it removes; a `deck` block is the IN_PCR_END_DECK terminator. `env` is the
program's state that actions write. `hist`, with `WV`, is the reverse code of the
*program's* statements (as opposed to the parser's), and `sent`, `goal` are
history variables of the properties.

Control. `pc` says where the coroutine is: "scan" at the top of the parse loop,
"again" at the label of `parse_token`, "reduction" while the frame of a reduction
runs, "backtrack" at the top of the loop after `parse_error`, "done" after
`parse_token`, "idle" when `colm_parse_frag` or `colm_parse_undo_frag` has returned.

| actions | code |
|---|---|
| `ScanPreRegion`, `ScanLater`, `ScanNextRegion`, `ScanNull` | `scan_token` and the branches of `colm_parse_loop` that send nothing |
| `ScanCollectIgnore`, `ScanEof`, `ScanTree`, `ScanToken` | `send_collect_ignore`, `send_eof` with the pre-EOF frame, `send_tree`, `send_token`, each with `set_region`, `colm_transfer_reverse_code` and the entry to `parse_token` |
| `ScanIgnore`, `ScanIgnoreTree` | `send_ignore`, `send_ignore_tree` with `ignore_tree*` and `new_token` |
| `ScanGenerate` | the token generation action: the frame runs, pulls the text, pushes items, `colm_make_reverse_code`, `new_token` |
| `NoTransition`, `Shift`, `Reduce`, `ReductionReturn`, `AgainOut` | `parse_token` forward: the table lookup, shift with its ignores, commit, reduce up to the coroutine's return, the rest of it (exit, reverse code, reject), `_out` |
| `BtReverse`, `BtNext`, `BtStop`, `BtRetry`, `BtUnshift`, `BtFail`, `BtSendBack`, `BtIgnore`, `BtDeck`, `BtUnreduce` | the branches of the backtracking loop in the order they are tested, with `send_back`, `send_back_ignore`, `detach_left_ignore`, `detach_right_ignore` |
| `Done` | `handle_error`, `new_token` and the stop conditions of the loop, with the reset at the end of `colm_parse_undo_frag` |
| `Send`, `SendEof`, `ParseFrag` | IN_SEND_TEXT_W / IN_SEND_TREE_W, IN_SEND_EOF_W, IN_PARSE_FRAG_W |
| `UndoSend`, `UndoEof`, `UndoFrag` | the BKT instructions of these |

Each action is a whole branch: a shift attaches right and left ignores, counts the
retry and the shift and sets the commit point; `SendBack` gives back the text, counts
the step, sets the deck and stop flags and frees the node.

The scanner is modelled by what its automaton computes: the longest match among the
region's tokens, and whether the text could still be extended. Token texts are fixed
strings, so a "pattern" here is a finite set of strings; that suffices for longest match
over chunk boundaries, failing regions and empty (collect-ignore) tokens.

The parser's tables are parameters. Their assumptions (`IdAssumption`,
`TableAssumption`, `RegionAssumption`, `ProgramAssumption`) are typing facts, plus
what `analyzeMachine` in `pdabuild.cc` asserts of every table it makes: a shift-reduce
is the only action of its transition, and a transition on a nonterminal has one
action, which shifts; terminals and nonterminals have different ids (`first_non_term_id`), and a
shift-reduce reduces a production that is not empty (`advanceReductions`, pdabuild.cc:695, makes one
of a shift into a state that only reduces, and that state was reached by shifting the
production's last element); and no state's list of regions begins at index 0
(`makePdaTables` puts a null there), so that 0 in a node means that it remembers no region. TLC
evaluates them for every run.

Where a table lookup in the code is not checked (`stack_top_target`), -1 stands for
whatever it would read; `StackIsPath` says that it does not happen, neither going forward nor at
the lookups of the backtracking, and that is proved (`PathHolds`).

### How InputSeq and StreamData correspond to the code

A stream is a record: `runs` are the run buffers (`data`, `offset`, and the `size` they were
allocated with), `src` what `get_data_source` has still to deliver (of a FILE, or of the text
of a pushed string), `consumed` the field of that name, `pos` and `lines` are `line`,
`column`, `byte` and the stack `line_len`. Operators have the names of the C functions and
return the new stream, with the result where there is one. Loops over buffers are written in closed
form: `data_consume_data` frees those buffers whose text ends before the last character
asked for (the loop leaves a used up buffer in place until it needs the next one).
Where the C code copies with a negative amount, follows the end of a list, or an assertion
fails, `InputSeq` sets `fault`.

`queue` and `stash` are `queue` and `stash` of `struct input_impl_seq`; `seen` is the text
the scanner has read of a token, its length is `tokpref`; `files` holds the streams of the
program while they are in no input. `hist` is the reverse code: the operation to undo
and its operand; it also holds, for the properties only, what the queue was.

| actions | code |
|---|---|
| `Scan` | a turn of the loop in `scan_token` with `get_parse_block` |
| `Take`, `TakeTree` | `extract_match`/`consume_match`, `send_tree`: what becomes of a token in the input |
| `Pull`, `Push`, `PushTree`, `PushStream` | IN_INPUT_PULL_WV, IN_INPUT_PUSH_WV and PUSH_IGNORE_WV, IN_INPUT_PUSH_STREAM_WV |
| `SendData`, `SendTree`, `SendStream` | IN_SEND_TEXT_W, IN_SEND_TREE_W, IN_SEND_STREAM_W |
| `UndoTake`, `UndoTakeTree` | `send_back_text` and `undo_pull`, `send_back_tree` |
| `UndoPush`, `UndoSend`, `UndoSendStream` | the BKT instructions |

The calls come in any order, and are taken back in the reverse of it, as `parse_token` and
the reverse code do. `Acting` is where actions run: between tokens, and not on a queue
that trees have left empty. A pull asks for no more text than there is. With the constant
`Careful`, the program keeps to what the input can take back: it takes no token that lies in
two run buffers, pushes onto nothing that was itself pushed and read in part, sends a file only
as the first thing, and no text after it. The run that passes is about careful programs; what
happens to others is in section 6.

### How Containers and ColmMap correspond to the code

A map is a record of the fields of `map_t` and, per element, of `map_el_t`; a list likewise. The
operators have the names of the C functions and the order of their assignments. An element is
a struct, made by the program (`StructNew`) or by a call on a value list or value map;
`value` is its field, `refs` counts the references to each value that somebody owns. The
order of elements is that of their numbers where the code has addresses of fresh structs.

| actions | code |
|---|---|
| `ListPush`, `ListPop`, `VListPush`, `VListPop` | FN_LIST_PUSH_*, FN_LIST_POP_*, FN_VLIST_PUSH_*, FN_VLIST_POP_*, in the variants WC and WV |
| `MapInsert`, `VMapInsert`, `MapDetach`, `VMapRemove` | FN_MAP_INSERT, FN_VMAP_INSERT; FN_MAP_DETACH and FN_VMAP_REMOVE, WC only |
| `EndAction` | `colm_make_reverse_code`: the units of an action become a block, last first |
| `TakeBack` | `colm_pop_reverse_code`, and the BKT instructions of the block (`RunUnit`) |

`Does` is the choice of a variant: in an action the WV form leaves a unit, at the top level
the WC form leaves none, and then nothing waits to be taken back. Removals from a map have no
working WV form and are only at the top level.

### How TreeHeap corresponds to the code

`mem` is the heap: a tree cell has `id`, `refs` and `child`, a kid `tree` and `next`; a variable
is a kid that is in no list, as on the VM's stack. `levels` are the open loops and calls with a
parameter by reference: `root_ref`, `ref`, what the iterator has pushed on the stack
(`stack`, or `kids` for a reverse iterator), `kid_at_yield`. A `ref_t` is a kid and the address of the next
one, which is a level and a place in it. `split_ref` turns the chain, splits from the top,
moves the references below a copy, and cuts the chain, as in the code.

| actions | code |
|---|---|
| `Assign`, `MakeTree` | IN_GET_LOCAL_R with IN_SET_LOCAL_WC, IN_MAKE_TREE |
| `GetField`, `SetField`, `SetInner` | IN_GET_FIELD_TREE_R, IN_SET_FIELD_TREE_WC, the same over IN_GET_FIELD_TREE_WC |
| `EnterVar`, `EnterCur` | IN_REF_FROM_LOCAL or _REF and IN_REF_FROM_QUAL_REF, with IN_TRITER_FROM_REF, IN_REV_TRITER_FROM_REF or a call |
| `Advance`, `Leave` | IN_TRITER_ADVANCE, _NEXT_CHILD, IN_REV_TRITER_PREV_CHILD; the end of loop or call |
| `GetCur`, `SetCur`, `SetCurField` | IN_TRITER_GET_CUR_R, IN_TRITER_SET_CUR_WC, IN_TRITER_GET_CUR_WC with a field set |

An allocation that finds no cell ends the statement before it does anything (a bound, not code).
The variable that the outermost loop runs over is not assigned under it (`Assignable`), and a
program is `Careful` if it does not copy that variable once the chain has been cut.

### How FsmGraph, FsmBuild and TokenScan correspond to the code

An automaton is a value; its states are numbers, the transitions of a state a function of
characters (the code has ranges, which `outTransCopy` splits and compares piece by piece).
`foreign` is `foreignInTrans`, `bits` the mark of the operation (SB_GRAPH1, SB_GRAPH2), `prior` the
leaving priorities (`outPriorTable`), `dict` the set of states that a new state stands for,
`fill` the list of those to be filled in. Two lists, `states` and `misfits`. Operators have the names of the C++
methods. `FsmBuild` evaluates patterns in postfix: a leaf pushes, an operator takes its
operands from the stack, as the recursive walk does; `minimize` is `lastInSeq`.

`TokenScan` makes a region of what is on the stack (`Finish`: `RegionImpl::walk`,
`runLongestMatch`, `finishGraphBuild`) and then runs it on blocks of characters (`Data`) until
a token, an error or the end (`Eof`). `run` has the fields of `pda_run`; positions are counted from the
token's start instead of being pointers.

### How PdaBuild corresponds to the code

`graph` is the `PdaGraph`: states by the order of their allocation (`node`), the list of
them, the closed ones, and the two queues of the closure; `transQueue` is later the list of
transitions whose keys have to be passed on. A state has its kernel (`stateSet`), its
items (`dotSet`, and `dotSet2` of the ordering), the commits that wait for a reduction, its
transitions by key, the list of transitions into it, and its regions. Items are pairs of a
production and how far it is read; the code gives each a number. `agenda` is the call stack of
`pdaOrderProd` and `pdaOrderFollow`.

| action | code |
|---|---|
| MakeFirstSets | `makeFirstSets`, one pass |
| StartClosure, Derive, FinishClosure | `lr0InvokeClosure` |
| GenerateParser | the rest of `lalr1GenerateParser` up to the lookaheads |
| FollowState, FollowTrans | `lalr1AddFollowSets`, one state or added transition |
| CollectActions, DoOrderProd, DoOrderShift, DoOrderFollow, DoOrderEof | `pdaActionOrder`, one call |
| Analyze | `sortActions`, `resolvePrecedence`, `computeAdvanceReductions` |
| AdvanceReduction | `advanceReductions`, one state |
| FinishAnalysis | `setStateNumbers`, `reduceActions`, `verifyParseStopGrammar`, the arrays of `makePdaTables` |
| Place | one row of `makePdaTables` with `findIndexOff` |

Sets of pointers are walked in the order of addresses: `down` says whether an object allocated later
has a lower address. The parsers are such a set too. `ords` stays as it is where precedence takes actions
out of `acts`, as in the code; `sorted`, which the code does not have, keeps the actions that they belong
to, for `Ordered`. `tab` has the arrays of `struct pda_tables`, from 0. The order of action sets
(a sorted map in the code) is the one in which they come up: nothing depends on it.

### Assumptions about the driver

One parser at a time; the program does not call a parser that has failed,
received EOF or stopped again (compiled programs test for the result), sends no text
after EOF, and takes statements back in the reverse order, as the interpreter's
reverse code does. Actions do not parse with the parser that runs them.

## 3. Runs

`RunGrammars` holds four grammars with their tables; `RunTables` checks that `PdaBuild` makes
these tables, with the alternatives of each transition in this order.

| grammar | what it is for |
|---|---|
| Palin | `s: a s a \| a \| b`: the middle cannot be seen, every token is a choice; ignored text; two regions, one of them a pre-region; frames that write |
| Stop | a stop target; states with up to three regions, pre-regions, a region whose only token is collect-ignore; tokens `x`, `xx`, an empty token; two kinds of ignored text; shift-reduces, a commit point, a conflict before it |
| Ctx | frames that reject, write, exit; trees and ignored trees in the stream; a generation action; an action before EOF |
| List | a grammar without choices, with ignores |

The runs of the parser:

| run | spec | checks | shows |
|---|---|---|---|
| palin | FairSpec | TypeOK, RetryAccounting, FailsWhenExhausted, StackIsPath, Returns, Recognizes | all texts up to 4 items over 4 characters, sent one at a time with a parse after any of them |
| stop | Spec | Conservation, ScannerFresh, ShiftCountExact, StopsAtTarget, CommitHeld, CommitFloor | all texts up to 5 items, every way to cut them; the stop target leaves following text in the stream; commits hold |
| ctx | Spec | Ownership, StepsExact, EnvIsFold, BacktrackAsserts | undoing of actions |
| undo | UndoSpec | UndoRestores | up to 4 statements done and undone in every order the program could |

The other runs:

| run | checks | bounds | shows |
|---|---|---|---|
| input | TypeOK, ReadsInOrder, PlaceTrue, NoFault, GivesBack, Refines | three programs: texts with newlines, or a file of 5, in blocks of 2, 5 calls; actions that pull, push texts and trees, and trees sent, tokens of 1 and 2, 4 calls; the same with a file of 2 pushed | text is read, given back and read again across blocks and lines, and around what is pushed into the middle |
| containers | ListLinked, MapExact, Refines | two programs: three structs, two keys, two values in lists and maps, 2 units of reverse code; twelve structs in one map at the top level | actions on containers are undone; AVL trees of all shapes up to 12 elements |
| trees | HeapExact, OnPath, ChainTells, Refines | 2 variables, 4 trees, 4 kids, levels two deep, of four kinds | sharing, splitting, iterators |
| scanner | Accounts, Minimal, LongestMatch, Prompt, Refines | 2 characters, patterns of 4 operands and operators, words of 4; regions of 1 or 2 tokens, input of 4 in blocks of 1 or 2 | construction and execution of scanners |
| tables | ItemsExact, LookaheadsExact, Ordered, ParsesExact, RunTables | 1,954 grammars of up to 4 nonterminals, each with both orders of addresses; parses of up to 5 tokens and 6 productions | the tables the compiler makes |
| in_unsend_tree | UndoExact (violated) | | see section 6 |
| vlist_pop | RefsHeld (violated) | | see section 6 |
| zero_copies | ZeroToTwo (violated) | | see section 6 |

The properties of the parser:

* `Ownership`: the live cells are exactly those on the stack, in the input, among the
  ignores or once below one of them: none is in two places (`OneOwner`, proved as `OneList`)
  and none is lost.
* `Conservation`: the text under the trees, left to right, and the rest of the stream
  are what was sent.
* `RetryAccounting`, `ShiftCountExact`, `StepsExact`: `num_retry`, `shift_count`, `steps`
  equal what they count, at every step of every backtracking. `RetryAccounting` counts over
  the allocated cells, which by `Ownership` are the ones that can be reached.
* `EnvIsFold`: the environment is what the actions of the standing reductions give, run
  from the start; none of those rejected.
* `StackIsPath`: the stack is a path of the automaton that ends in the current state, and the
  transition of every node on it, and of every lookup that the code does not check, is there.
* `BacktrackAsserts`: the assertions in the backtracking loop.
* `CommitHeld`: all that was shifted where a commit is made (`Committed`) stays shifted, in that order, through
  all the backtracking after it, and no commit is undone.
* `CommitFloor`, `FailsWhenExhausted`, `StopsAtTarget`: as named.
* `Recognizes`: `PdaRun` implements `Recognizer` (a refinement: `given` is `sent`,
  the verdict is read off `parse_error` and `eof_term_recvd`). For Palin the words are
  enumerated; the parser rejects only what is hopeless and accepts only words.
* `Returns`: a call of the parser returns.
* `UndoRestores`: a statement taken back leaves steps, state, region, environment, stream
  and stack as they were.

The properties of the input:

* `Refines`: `InputSeq` implements `UndoQueue`. The queue of characters and trees is the
  concatenation of the buffers (`Content`); every call is a step of it, reading ahead
  is a stutter, and taking back restores the queue before the call, exactly.
* `ReadsInOrder`: the pieces the scanner has been given are the front of the queue.
* `GivesBack`: stash and `consumed` counts together owe exactly what was taken, trees
  in their places.
* `PlaceTrue`: line, column and byte of the next text are those of a reader from the
  start, while nothing is pushed.
* `NoFault`: no assertion fails, no list is followed past its end.
* `UndoExact`: what a test says and the code does not keep.

`TypeOK` of the input includes that no run buffer is overrun.

The properties of the containers:

* `Refines`: `Containers` implements `UndoContainers`: a list is a sequence of values, a map a
  function; an action taken back restores both, whatever other units it had.
* `ListLinked`: forward and backward links mirror each other, ends and length agree (with the
  types of all links).
* `MapExact`: heights are true and balanced, a search ends at the key or proves it absent, the list visits the elements in
  the order of their keys.
* `RefsHeld`: every struct owns a reference to its value (violated, section 6).

The properties of trees:

* `Refines`: `TreeHeap` implements `TreeValues`: variables are independent values, a write
  through a loop changes that variable at that place, and a loop visits, in document order, what
  its tree holds by then.
* `HeapExact`: counts equal pointers, nothing is leaked or dangling (`RefsExact`); kids have
  one owner (`KidsUnshared`); with the types.
* `OnPath`: every position, after every split, is on a path from its variable.
* `ChainTells`: what is shared above a position is on its chain.

The properties of scanners:

* `Refines`: every operation on automata yields the language of its operator (`RegLang`), on
  words up to the bound; with priorities, the part that the operator says.
* `Accounts`: what `verifyStates` asserts, and the exact counts of transitions that the removal of
  misfits rests on.
* `Minimal`: after minimization no two states are equivalent, none is unreachable.
* `LongestMatch`, `Prompt`: the token announced is the longest match, declared first among those
  that match it; it is announced with the first character after which nothing longer can come.
* `ZeroToTwo`: `x{,2}` is at most two copies of x, for all operands (violated, section 6).

The properties of parse tables:

* `ItemsExact`: the closed states are the canonical LR(0) collection of all parsers together, no
  set of items twice, every transition where it should be.
* `LookaheadsExact`: the lookaheads are a least fixpoint whatever the order of pointers; none that
  LALR(1) asks for is missing, none is outside of FOLLOW. The fixpoint is not LALR(1), as the
  comment at closure.cc:322 has it, but the coarser one in which a nonterminal is followed by all that
  its *state* can be left with, from wherever it was reached: with
  `S: a g d | a A c | b A d | b g c`, `A: B`, `B: g`, the reduction `B: g` after `a` is also
  done on `d`. The commit of a production is on all transitions that reduce it and on no other.
* `Ordered`: the compiler's assertions; and what it says of actions without an order, that they "result
  in a parse error": no parse that succeeds uses one, nor a token of a region that its state does not try.
* `ParsesExact`: run with all alternatives, the parser of `parse_token` finds with the arrays exactly
  the derivation trees of the grammar that its precedence allows, for every parser of the program.
* `RunTables`: the tables that the parser's own runs are checked with are the ones built here, up
  to the numbers of states: actions in their order, whether a transition commits, regions and
  pre-regions, one of them without a token to ignore. (The length of a commit is built but not compared: the run-time only
  asks whether it is 0, pdarun.c:1484.)

Two things to know about the tables: a commit belongs to a transition, not to one of its
actions, so that a conflict's other alternatives commit too; and a commit on an empty production
has length 0, which is no commit (pdabuild.cc:841).

Bounds of the run of the tables. Every grammar with one or two productions of S and of A
from two pools (six and five right hand sides, among them empty ones and left, right and middle
recursion), all levels and associations of two operators, grammars with two parsers, with parse_stop, reducefirst and
commits, and five with a hazard of their own. Grammars without a conflict are the small part;
ambiguous ones make the order of actions matter. Six productions cover every
production of a grammar in every state more than once. The construction ends: its state graph is finite and
without cycles, and the only states without a step are `done` and `error` (deadlock is checked).

Bounds of the input's runs. `BufSize` stands for FSM_BUFSIZE (8192): 2 is enough for
a block to hold one token and the start of another, for tokens to be given back into the same
buffer and into a new one. `maxOps` bounds the calls that have not been taken back;
taking back and doing again is unbounded. Four calls are enough for text, pull, push and
pull again to be split around each other, five for a file to be read over two block
boundaries. `maxBufs` bounds the buffers of queue and stash, and the run buffers of a
stream, when a call is made.

Bounds of the containers' run. Twelve elements are the least number at which a removal can need
two rotations (a Fibonacci tree of height 5), which is what distinguishes the loop of `map_detach` from
the single rotation of an insertion. Three structs and two units suffice for a pop and a push of
one action to be undone around each other at both ends, with two blocks waiting.

Bounds of the trees' run. Four trees and kids allow a pair whose kids are shared, a node with an attribute under
it, and a copy of either; levels two deep a loop in a loop, or in a call. States that differ in
the numbers of cells only are one (the view `Shape`: the values, positions, sharing and chains in terms of the
order in which cells are reached), and the variables are interchangeable (SYMMETRY).

Bounds of the scanner's run. Patterns of four nodes, on automata of at most four states before
each operation, contain each operator over each leaf and most pairs of operators; words of
four characters tell these automata apart. `Isolated` leaves out x{,n} where x can
come back to its start state (section 6).

Bounds of the parser's runs. `Ref` has 20 cells (never exhausted in a run: `Fresh` would block and `Returns`
would fail), `MaxSent` items are sent (3 to 7), `MaxOps` statements are recorded when `WV`
holds (4). Four items are enough for Palin to try every split, with failed attempts nested
two deep; Stop needs two tokens with ignored text between, and three to get past the commit
point and back to it. Deadlock checking is off: the program
may stop sending, and the bounds end behaviours.

Fairness. `FairSpec` has weak fairness of `ParseStep` only: the parser is sequential
code that runs until it returns. The driver has none: a program may stop sending.

## 4. Proofs

The proofs are about `PdaRun` and `InputSeq`, for all values of the constants that satisfy their
assumptions: for the parser, every grammar and table, every set of regions and tokens, every program,
input and number of cells; for the input, every set of texts, files and trees, every program of calls and
size of blocks, and programs that do not avoid what cannot be taken back (`Careful = FALSE`).

| theorem | module | states |
|---|---|---|
| `TypeCorrect` | `PdaRunProofs` | `Spec => []TypeOK` |
| `ScannerIsFresh` | `PdaRunProofs` | `Spec => []ScannerFresh`: about to scan, the scanner has read exactly the first `tokpref` items of the input |
| `CommitNotPassed` | `PdaRunProofs` | `Spec => CommitFloor`: the test for equality that stops backing up cannot be jumped over |
| `OneList` | `PdaRunProofs` | `Spec => []OneOwner`: no cell is in two lists or twice in one, and none in a list is free |
| `PathHolds` | `PdaRunPath` | `Spec => []StackIsPath` |
| `BacktrackingHolds` | `PdaRunBack` | `Spec => []BacktrackAsserts` |
| `RetriesCounted` | `PdaRunRetry` | `Spec => []RetryAccounting` |
| `CommitsHold` | `PdaRunCommit` | `Spec => CommitHeld`: nothing shifted before a commit is taken back after it |
| `ShiftsCounted` | `PdaRunCommit` | `NoRejects /\ Spec => []ShiftCountExact`, where no frame rejects its node |
| `ScannerReadsInOrder` | `InputSeqProofs` | `Spec => []ReadsInOrder` |

In the parser, each invariant rests on the one before it. One lemma per action proves that it is preserved;
`NextInv`, `NextLists`, `NextPath`, `NextTrail` and `NextCount` collect them.

1. `IInv == TypeOK /\ ScannerFresh /\ ReadInBounds /\ ReductionWaits`. `ScannerFresh` speaks about
   "idle" and "scan" only; `ReadInBounds` (`tokpref <= Len(input)`) and the typing of `input` make the
   slices it mentions meaningful, and `ReductionWaits` says that `red_lel` holds a node exactly
   while a frame runs, without which `ReductionReturn` could not be typed. `CommitNotPassed` needs each
   action's effect on the two counters only: they change in `Shift`, `Reduce` (which may set the commit to
   the new count) and in `BtUnshift`, `BtFail` (which count down only when the counts differ).

2. `ListsInv` adds that the lists are disjoint. They are linked through one `next` pointer
   per node, so that a node in two lists would tie them together. An action moves a segment from one list to
   another (shift and its ignores, reduce to `child`, unreduce back), and the lemmas of `SeqSets`
   say what that does to the sets of their elements. This is the first half of `Ownership`; the other half, that
   no live cell is lost, is false in general: `detach_right_ignore` overwrites `accum_ignore` (section 6).

3. `LInv` adds that the stack is a path. By itself that is not inductive: unreduce
   puts a node's children back on the stack, so the children of every node must lie on a path from
   the state before the node (`Based`, `Linked`), and stay there while other cells change,
   which is where disjoint lists come in; retry looks up the transition of a token whose
   reductions have been undone, so the tokens that wait in the input must have a transition in the state
   that they come back to (`Waiting`); a rejected reduction is on top of the stack without a
   transition, the one exception, and is undone before anything is looked up (`Rejected`). `FlowInv` relates
   the flags of the backtracking to where it is.

4. `TInv` adds the *trail*: the sequence of all cells shifted, children included, in the order
   they were shifted. `cause_reduce` of a token counts the reductions just before it in the trail, and
   a reduction with an untried alternative is counted by such a token, which has a transition in the state
   before it. The trail explains the stack: unfolding every node into its children, from the top
   downwards, gives it back. The children of a node are *not* next to it in the trail once the
   node's token is reduced in turn, so that nothing local to the stack would do. A shift moves
   the border between trail and input, a reduction enters just before the token that caused it, and the
   backtracking takes the last cell off. The assertions follow from what the end of the trail looks like. `Parents`
   says that only nodes of the parse have children, `EmptyInv` when the input may hold a node.

5. `RInv` adds the accounting itself, that the live cells are finitely many (a cell is added or
   freed at a time, so this needs no assumption on `Ref`), and `FrontInv`: a token in front of the input that
   has a choice left has a transition in its state. Without that, `NoTransition` could meet a
   token whose choice is being taken: the token would keep the choice, which is counted no more. A shift
   or reduction that is one of several leaves a choice behind, in the token or in the node made: here the proof
   needs that no node held one already, which is what the trail says (`FrontRetry`), and the assumption on the
   tables that only tokens have several actions. When a reduction is undone its choice goes to the token that
   caused it, and the trail gives the transition that `FrontInv` asks for. `RegionInv` says that the list of
   regions the parser is at never begins at 0, because it is asked for only in states that the path gives: then the retry
   that `set_region` counts (`SetRetries`) is the one that the node will offer (`RegionRetries`). The effect of a step on
   the two cardinalities is reduced to four lemmas (`ChoicesSame`, `ChoicesAdd`, `ChoicesFree`,
   `ChoicesChange`), which rest on the library's theorems about finite sets.

6. `CommitHeld` and `ShiftCountExact` speak of `Shifted`, what was shifted and not taken back: one takes
   the stack back, the newest node first, each node giving way to its children, until it is empty; the
   nodes met, oldest first, are `Shifted`. That this ends, with a sequence of live cells none of which is in
   the input, follows from the trail: it is one such sequence, and there is no other (`OrderIs`, by the least
   step at which two of them differ). So `Shifted` is a function of the children of the nodes on the stack and below
   (`SameShifted`), grows by the node that is put on the stack (`PushShifted`) and loses the one taken off (`PopShifted`).
   A reduction leaves it alone: the node is in the input, or waits for its frame, and its children, which the
   stack gets back when it is unfolded, are counted still. `StepMoves` sums up the actions: every step leaves
   `Shifted` and `shift_count` as they are, adds a node and counts it, adds a rejected node without counting
   it, takes the last one back and counts it off where the count is not at the commit point, or ends the parse; and
   the commit point may move to the count only in the first two. `CommitInv` is then
   inductive: the commit point is at most `shift_count`, which is at most the length of `Shifted`. The latter is an
   inequality because of the rejections, after which the count stays behind; so `Committed` is measured from
   the end: all of `Shifted` but the last `shift_count - commit_shift_count` nodes. That is everything
   where a commit is made, and no step shortens it: a rejected node makes the parser stop too early, never too late. `ShiftCountExact` is the equality, where no frame rejects.

7. The input's invariant is apart from these. What the scanner has read (`seen`) is recorded nowhere: the
   code knows a number of characters, and finds the next piece by skipping that many, over the run buffers of
   a stream and the streams of the queue. `ReadsInOrder` (that `seen` is a prefix of the text at the front) is not
   inductive: a character still in a source could be passed over. `SeenBuffered` says where the reading is: it
   ends in one of the streams at the front, what it has read is a prefix of what is buffered up to there,
   and the streams before have no more to read from their sources. A scan takes its piece from the first stream
   that has one (`data_get_parse_block`): it is found beyond what was read, or a block is loaded, at the end of a
   stream that was read to its end. Between two scans of a token only the sends may come, and they change
   the end of the queue; every other call starts a new token. Taking a send back may shorten what was read, so
   that it too starts anew.
   Beside it stands `State`: the variables stay what the operators are defined on, through all calls and
   their undo. Its run buffers and streams (`AnyRun`, `AnyStream`) are weaker than those of `TypeOK`: the
   data may be longer than the buffer and `consumed` negative, as both do happen in a program that
   is not careful (section 6), and the reading does not depend on them. The lemmas are one or more for each
   operator of `StreamData` and `InputSeq`, with what it does to the buffered text and to the sources, and
   stand on those of `SeqSets`, which take the place of induction: a least place, or a least number of
   steps, that violates what was to be shown.

The proofs about the parser cover `Spec` (all parser and driver actions). The undo actions are left out
of them on purpose: with undo, `ScannerFresh` is false (section 6).

Model-checked only:

* `Returns` is liveness under fairness, which the provers cannot do. `Recognizes` compares the parser with the
  language of a grammar, and `Conservation`, `StepsExact`, `EnvIsFold`, `UndoRestores` and
  the second half of `Ownership` are in terms of whole trees (`PdaRunProps`), by recursive operators.
* `FailsWhenExhausted` does not hold of every program: a rejected reduction is not counted as a shift, so that the
  count can meet the initial commit count of -1 (section 6). Without rejections it is `num_retry = 0` once the stack is
  empty; the proof would need that no cell that holds a choice is lost, which is the second half of `Ownership`.
* `ShiftCountExact` is proved for programs without rejections (`NoRejects`), and checked for one of them; with a
  rejection it does not hold. `CommitHeld` is proved for all.
* `StopsAtTarget` has not been attempted.
* Of `InputSeq`: `TypeOK`, `PlaceTrue`, `NoFault`, `GivesBack` and the refinement of `UndoQueue`. They are about what the
  calls taken back do, and about careful programs (one that is not leaves run buffers too full and `consumed` negative), so
  that they need an invariant about everything in `hist`: each call, taken back in turn, finds the queue as it left it.
* `ColmMap`, `TreeHeap`, `FsmGraph`, `PdaBuild` use recursive operators, out of the provers' reach, and so does
  `Containers`, whose maps are those of `ColmMap`.

## 5. Not modelled

In the parser: default tokens of a region, marks for trailing context, `fail_parsing`,
the token list and bindings, `bt_point` (which only decides where the error message
points), named language elements (the compiler's own parser of patterns),
IN_RESTORE_LHS (an action that replaces its left hand side), the reducer, `next_cs` in
the fallback from a pre-region when the table changes in between (it cannot). That fallback also leaves `scan_eof`
and `tokstart` as the failed scan of the pre-region had them (pdarun.c:1956). `PdaRun` hands the scanner what can be read in
one piece, where this makes no difference; `TokenScan` cuts text into blocks but scans a token in one region.
So nothing is shown about a pre-region that fails at the end of the input on text that lies in several
blocks, where the second scan may take the end of the first block for the end of the text.

In the input: trimming and other options, the flags for the end of input (part of
PdaRun), printing to output streams, closing of files, allocation failures. `fread`
delivers whole blocks until the end of the file; read errors are not modelled.
`input_undo_append_tree` has no caller and is not modelled.

In the containers: removal from a map in an action (its instructions do not work), elements in
two lists at once, iterators over lists and maps, copying a map. In trees: ignore lists,
captures, matching, comparison, user and repeat iterators, fields of structs, the undo of writes.
In scanners: entry points and `:>>`, `**` of what matches the empty word (its result depends on addresses),
priorities under further operators, actions of patterns, conditions, ranges of keys as such,
trailing context, other minimization algorithms, table compression.

In the tables: priorities of shifts and commits of single elements (nothing sets them), no-ignore marks that
leave regions out, the ids of the elements that the run-time itself needs, and the rest of `pdabuild.cc` (the run-time's
data, patterns). That the first parse found is the one an ordered choice would find is not claimed: states
that are reached in several ways have one order of actions for all.

PdaRun has its own, simpler `input`: one sequence, as `UndoQueue` promises it, and its own scanner,
the longest match that `TokenScan` computes.

Not modelled at all: reducer commits (one recursive walk over trees that have been committed), code generation and
synthesis, bootstrap, printing, strings, the command line, and the libraries `aapl`, `libfsm` and
`cgil`; `libfsm` is a later relative of the automata modelled here that only ragel uses.

## 6. What the checks found

Three runs show a comment, an assertion or a test that the code does not keep:

1. `in_unsend_tree`: undoing `send_tree` asks for 0 characters to be removed from the end and
   leaves the tree in the input. The function written for it is never called.
2. `vlist_pop`: an action pops a value list and is taken back. The undo makes a new struct with the
   value and counts no reference; the struct that was detached keeps its own. When both are
   deleted, the tree is given up once too often.
3. `zero_copies`: `x{,n}` makes the start state of x final. If x can return to it, as the minimal
   machine of `any* 'a'` does on any other character, the words on which it does are accepted too.

Other sequences that the code does not take back exactly came up while the models were
written. They are listed as hazards and excluded from the runs by the driver's assumptions:

* `detach_right_ignore` (pdarun.c:619) overwrites `accum_ignore`; ignored text accumulated since is
  lost. A rejected reduction (1640) is stacked uncounted but counted down when taken back: after a
  rejection at the very beginning the parse fails with choices left.
* undoing a statement in a grammar with choices stops at the first retry it meets and goes
  forward (pdarun.c:2231); after a failure at a commit point it finds a token left in
  `parse_input` (1979); in the middle of a token it resets the count of characters read but not
  the scanner's state (206);
* a token that lies in two run buffers is given back partly by sliding, partly into a new buffer, and
  `consumed` counted down by more than was given back (stream.c:617);
* a push is undone by removing the front buffer, while a split or the stash may have changed
  which buffer that is: an empty text pushed on a tree, a push in the middle of a pushed file
  (input.c:512);
* the part of a stream that is split off at a push counts lines from 1 (stream.c:773), and the
  column is wrong after a token of several characters with a newline is given back (stream.c:248);
* undoing a sent stream removes the last buffer, whatever it is (input.c:674);
* a variable copied while a loop writes into it shares what the loop writes next (iter.c:606); a
  variable assigned while a loop runs over it frees the tree that the loop stands in (iter.c:179);
* a map element removed in an action is not put back (bytecode.c:4348);
* a dead end, as `x . empty` leaves one, makes a scanner wait for text that cannot match (compiler.cc:56).

## 7. Plan

In order of importance:

1. Proofs about `StreamData`: consuming and giving back, appending and taking off are
   inverse to each other (the lemmas of `InputSeqProofs` say what each does to the text, one way) and keep run
   buffers within their size; then `TypeOK` and `GivesBack` of `InputSeq`.
2. Proofs about lists: `ListLinked`, once the operators on lists stand in a module apart from the maps.
3. Ignore lists in `TreeHeap`, the undo of writes to trees.
4. Entry points and `:>>` in `FsmGraph`; the tables of `redbuild.cc`.
5. The reducer's commits (`commit.c`), on top of `PdaRun`.
