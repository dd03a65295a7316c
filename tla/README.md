# Verification of the BenEater6502 programs

TLA+ modules for the programs in this repository, TLC runs that check them on
small instances, and TLAPS proofs of the properties that matter most for every
size. Paths below are relative to the directory that holds `src/`.

The state of this project: every program of the repository that is its own work
and keeps state is modelled and checked: the ROM's terminal, key loop, command
dispatch, word game and file system, the debugger loop of the simulator, the
vi-move game with its PS/2 keyboard, and the mode switch of the sound project.
The safety properties that hold, invariants and action properties, and the three
refinements are also proved, for every value of the constants. Liveness is
model-checked. Where a comment, a help text or a bug report of the repository
says something that the code does not do, the README says so and, in three cases,
a run of its own shows it.

## The system

The main program is one ROM image for a 6502 with an HD44780 display
(`src/src/rom_fs/test.s` includes the others). It runs on hardware or on
`src/tools/benEater_simulator`. It takes no interrupts: one loop polls one byte.

| Component | Source | State it keeps | Operations | What makes it correct |
|---|---|---|---|---|
| LCD driver | `src/src/lcd_driver/test.s` 321-703 | a circular buffer of 16 lines of 16 characters, current line, oldest line, column, view, scroll mode; the display's cells and address | `print_char`, `lcd_new_line`, `lcd_backspace`, `scroll_up`, `scroll_down`, `exit_scroll_mode`, `lcd_init` | the display shows the buffer; the controller's cursor is at the column; the view stays in the history; Up and Down are opposite; leaving scroll mode restores the view |
| Key loop | same, 222-311 and 707-748 | `CMD_BUFFER`, `CMD_INDEX`, `KEY_INPUT` | one handler per key, `process_shell_cmd` on Enter | the echo is the end of the command; a press is acted on once; a polled key is not lost; Enter comes back to a prompt |
| Shell | `src/src/shell/test.s` 26-171 | the index registers | compare the line with the names, call the utility | runs what was typed; always returns |
| Word game | same, 178-549 | word index, puzzle, input buffer | key loops of its own, which scroll and print in scroll mode | the guess shown is the guess judged; what is read while scrolled stands still; every word is answered |
| File system | `src/src/rom_fs/test.s`, `common_libs/test.s` | inodes and directory blocks in RAM, `TOKEN_BUFFER`, `CURRENT_INODE`, `WORK_PTR` | build the image, resolve a path | a path leads to the inode the tree says, or the lookup fails and changes nothing |
| Utilities | `src/src/{ls,cd,pwd}_util/test.s` | `WORKING_DIR_INODE` | `start_ls`, `start_cd`, `start_pwd` | a failed `cd` keeps the directory; `ls` names what is there |
| Simulator | `src/tools/benEater_simulator/simulator.c` | breakpoints, trace history, shadow call stack, the SDL queue | emulation loop, debugger commands, keyboard events | it stops where it was told to; the shown stack is the program's; Ctrl+C stops it |
| LCD simulation | `src/tools/LCDSim/lcdsim.c` | DDRAM, its counter | one per LCD command | third-party |
| vi-move game | `src/game_design/v2_vi_move_game/hello.s` | PS/2 state, a ring of 16 scan codes shared with the interrupt, the box, enemies, timers | interrupt handler, main loop, reset | keys arrive once and in order; releases are not presses; the box stays on the display; no enemy gets past unseen |
| Sound localization | `src/signals/sound_localization/` | mode, pending mode and command line (Teensy); mode, two flags and the packet it is in (Processing) | request, acknowledge, switch between frames | both ends agree on the mode; a frame is decoded in its format; a request completes |

How they interact: the host (an SDL key event, or a keyboard) stores a byte in
`KEY_INPUT`; the key loop polls it, calls the driver, which writes the display
and the buffer, and calls the shell on Enter; the shell calls a utility, which
prints through the driver; every handler ends by storing 0 in `KEY_INPUT`. The
word game takes the keyboard over until its last word. The debugger stands
around the emulated processor and shares the SDL queue between two takers. The
vi-move game and the sound project are programs of their own: the one shares a
ring between an interrupt and a loop, the other a serial line between two
programs, one of which has two threads.

What is hard in it: the display is a second copy of the buffer that is written
on two paths; three line numbers wrap independently; `KEY_INPUT` is shared with
no handshake; the assembly hands values from routine to routine in registers;
buffers are filled without a bound. `PROJECT.json` lists each such hazard at its
line, with the properties that would catch it.

## Modules

| Module | What it is |
|---|---|
| `LcdTerminal` | the driver's data as a record, one operator per routine. A routine is a function of the terminal it is called on: nothing interrupts it. |
| `Scrollback` | the abstract terminal: a bounded history of lines, a column, how far the user has scrolled, two rows shown |
| `ShellTerminal` | the key loop over `LcdTerminal`, one action per way a key is handled, and the output of a command as any characters; refines `Scrollback` |
| `ShellCommands` | the command names, and the lines the shell spins on |
| `Dispatch` | `process_shell_cmd`, one step per passage between two labels, X and Y visible |
| `Console` | the host and the key loop around `KEY_INPUT`, with the polls and the stores of 0 as steps; refines `ShellTerminal` |
| `WordGame` | the word game over `LcdTerminal`, one action per key and per verdict |
| `RomFS` | `cd`, `ls`, `pwd` and the lookup, one component a step; the image is a constant |
| `Debugger` | `run_emulator_loop`: commands, events, and the calls and returns of a program that is a constant |
| `KeyQueue` | the abstract key queue of the vi-move game |
| `Ps2Keyboard` | the interrupt handler and `process_key_input`, one step per access to the ring; refines `KeyQueue` |
| `ViGame` | the game loop, one step per frame |
| `ModeSwitch` | Teensy, host and the line between them |
| `MC*` | the instances TLC checks; `MCRomFS` holds the image of `rom_fs/test.s` |
| `LcdTerminal_proofs` | what each routine of the driver sets and preserves, for all sizes |
| `ShellTerminal_proofs` | its inductive invariant, the theorems, the refinement of `Scrollback` |
| `Console_proofs` | the same for the mailbox, the refinement of `ShellTerminal` |
| `ShellCommands_proofs` | what the shell does with a line, in three parts: the dispatch of a line of any length, the word game for any words, messages and display, the file utilities for any paths and any image that holds the tree |
| `Debugger_proofs` | breakpoints, call stack and trace for any program |
| `Ps2Keyboard_proofs` | the ring of any size, the refinement of `KeyQueue` |
| `ViGame_proofs` | the game loop for any display, step and pace |
| `ModeSwitch_proofs` | the change of mode for any modes and any lines in transit |

Operators keep the names of the routines in mixed case (`scroll_up` is
`ScrollUp`), actions those of the handlers (`handle_key_up` is `KeyUp`,
`handle_backspace` is `KeyBackspace`, with `KeyBackspaceRefused` for its early
return). `Dispatch` and `RomFS` prefix the usual names of a specification
(`DispatchSpec`, `FsSpec`), since `ShellCommands_proofs` speaks of both and of
`WordGame`. Fields of a terminal are the driver's variables without their
`UNIFIED_` prefix; `lcd` and `cursor` are what the HD44780 holds. The flat 256
byte buffer is a function from lines to lines, since every store is at
`line * 16 + column` with `column < 16`: `TypeOK` bounds the column by 16, and
`print_char` and `lcd_backspace` store only below that.
The driver does its arithmetic in bytes; with 16 lines and 16 columns no sum
leaves a byte, so plain numbers stand for them.

Operators named `X_Y` with a comment that begins "Mutant" are plausible bugs of
`X`, kept beside it: each property is known to fail for one of them.

Abstractions to know of:

* In `ShellTerminal` a command is any sequence of `CommandPrints` in normal
  mode. That covers the shell's own utilities, which only print. The word game,
  which reads keys, scrolls and prints in scroll mode, is `WordGame`.
* `Console` has the unknown command in full (`print_unknown`, character by
  character, keys arriving meanwhile) and the lines that make the shell spin.
  Lines that begin with `w` are left out by `ConsoleAssumption`: `wordgame`
  hands the keyboard to the game. Since no line starts `cd`, `pwd` or `ls`
  (below), these and the game's are all the lines there are.
* `Dispatch` ends at `call_<utility>`: what lies between the match of `cd` or
  `ls` and the call (skipping blanks, moving the path) is never reached.
* `RomFS` therefore calls the utilities directly. Its paths are sequences of
  components; of a component that does not fit `TOKEN_BUFFER` it keeps what it
  stores in `CURRENT_INODE` and `WORKING_DIR_INODE`. Components of 48 characters
  and more, which reach the display's variables, are left out.
* `WordGame` has one key at a time: `KEY_INPUT` and what is lost there are in
  `Console`. Messages and words are constants; only their lengths matter.
* `Debugger` keeps of the emulated program where it calls, returns and goes. Of
  the commands it has Enter, `c`, `u`, `b`, `v`, `[` and `]`; the others
  change nothing it models. Its tracer window is open or not; the lines of the list file
  it shows are left out. `asked`, `refused` and `awaited` are history.
* `Ps2Keyboard` takes the interrupt handler as one step, since interrupts stay
  disabled in it, has the keyboard answer the reset command with FA and AA (the
  handler stores both), and splits `process_key_input` where it reads or writes what
  the handler shares. `ViGame` takes a frame as one step, since the handler
  touches nothing else it reads.
* `ModeSwitch` has a frame as three lines, its values as the mode they were
  measured in, and a command as one word of one letter, the mode.
  `myPort.clear()` is a step of its own after the store to the flag, because
  `requestModeChange` runs in another thread.

## Runs

| Run | Instance | Shows |
|---|---|---|
| `shell_terminal` | 4 lines, 3 columns, characters `" "` and `">"`, `CmdMax` 4; about 400,000 states | `TypeOK`, `DisplayShowsBuffer`, `CursorAtColumn`, `ViewWithinHistory`, `UpAndDownAreOpposite`, `EchoIsEndOfCommand`, and `ScrollbackSpec`: the driver implements the abstract terminal |
| `scroll_at_startup` | same | violated: `ScrollsOnlyWrittenLines` |
| `backspace_at_column_0` | same | violated: `BackspaceErasesOne` |
| `dispatch` | the four names, each with nothing, a blank, a path and a character behind it, every proper beginning of each, and lines that share a beginning or nothing with them | the match stops at both terminators, starts a command only for its whole name, returns exactly on the lines that do not begin with `c`, `p`, `l` |
| `dispatch_supported` | same | violated: `SupportedCommandsStart` |
| `console` | 3 lines, 3 columns, `" "`, `">"`, `"c"`, `CmdMax` 2, 4 presses; about 8,000 states | `ShellSpec`: the loop with its mailbox implements `ShellTerminal`; `EachPressOnce`; `PolledKeyIsActedOn` and `PromptComesBack` under fairness |
| `debugger` | a recursive program of six instructions, 3 nested calls, 2 breakpoints, a call table of 2, a trace of 2, one event; about 1,040,000 states | `StopsAtBreakpoints`, `UpStopsInCaller`, `CallStackNamesOpenCalls`, `ScrollsFromEntryShown`, and `CtrlCStops` under fairness |
| `mode_switch` | three modes of two formats, 3 lines on the wire, 3 in the buffer; about 39,000 states | `ModesAgree`, `CommandsArriveWhole`, `FramesAreOfCurrentMode`, and `ChangeCompletesUnlessErased` under fairness |
| `word_game` | 3 lines, 3 columns, two words reached and three counted, guesses of 3 letters; about 420,000 states | `GuessIsShown`, `StillWhileScrolled`, `JudgedByTheGuess`, `FinishedGameAskedReachableWords` |
| `ps2_keyboard` | a ring of 4, a plain and an extended key, 3 bytes held back; about 320,000 states | `KeyQueueSpec`: the ring implements the queue of `KeyQueue`; `ReleasesAreSkipped`, `TypeOK` |
| `vi_game` | the game's own numbers, its two counters modulo 2; about 2,700,000 states | `TypeOK`, `TeleportIsSurvived`, `EnemiesPassOnlyBy` |
| `rom_fs` | the image of `rom_fs/test.s`, every name in it, `romFS.txt` and one more name that is nowhere, five components too long, paths of two components; about 66,000 states | `CdFollowsTheTree`, `LsShowsWhatIsThere`, `FsTypeOK`: a working directory that is none can only come from a long component |

Why the bounds are enough. With three columns the prompt and one character fill
a line, so a command of four characters wraps twice and can be erased back
across a wrap. Four lines make the circular buffer wrap, in every position of
current and oldest line, and leave two steps of Up and of Down when it is full,
so that the view too wraps past line 0. Two characters tell any two cells apart that can
differ, and one of them is the blank that clearing writes. `CmdMax` 4 makes the
refusal at the limit happen after a wrap. In `console` four presses are enough
for a full buffer, Enter, and a key that arrives while the command prints;
`" "` and `">"` are unknown commands, `"c"` is one the shell spins on.

In `debugger` the call table is one smaller than the nesting, so that a call is
refused and its return takes away another; two breakpoints fill the table, a
trace of two shifts at the third entry, and one event is enough for each
question about events, which are about one of them. In `mode_switch` two modes
share a format and one has its own, so that a frame cut in two can be mistaken
for the next one; three lines hold a whole frame, or an ACK, a MODE_CHANGED and
the start of a frame. In `word_game` prompt and guess wrap, every answer drops
lines from the buffer, and the count of words is one more than eight bits of
index reach, so that the first word comes round. In `ps2_keyboard` a ring of
four wraps and overflows at each of the three places of `process_key_input`;
the longest sequence of one key, E0 F0 code, fits the wire. `vi_game` is not an
instance but the game. In `rom_fs` the deepest directory is two components from
the root, and state carries over between any number of commands.

Fairness. `Dispatch` and `Console` assume weak fairness of the processor's
steps: the emulator's loop executes instructions whether or not there are
events, and a processor does not stop. No fairness is assumed of the user.
`Debugger` assumes weak fairness of what its loop does unasked, and none of the
answers at its prompt. `ModeSwitch` assumes weak fairness of the host's reading,
of the line and of the Teensy's loop, since both programs run for ever and a
serial line delivers; and strong fairness of receiving a character that is there
and of a frame being complete, since the loop passes both again and again and
the microphones never stop.
The debugger of the simulator can stop the processor at a breakpoint; these
models are of a program that runs without one. `dispatch` and `console` turn
deadlock checking off because the system really may stop there: `Dispatch` ends
with RTS, and a `Console` that polls after its last press, or spins, has no
step left to take in the model. So does `debugger`, which ends when the
simulation does. All other runs check for deadlock.

## What the code does not do as written

* **Up on the first prompt** (`scroll_at_startup`, `lcd_driver/test.s:339`).
  The comment at line 56 says Up works when the scroll buffer has something to
  show. With a single line written, scroll mode begins with the view above the
  oldest line, so the test for the oldest line does not stop it: Up shows lines
  that were never written. `ViewWithinHistory`, which holds and is proved, is
  the promise from the second line on.
* **Backspace behind a wrap** (`backspace_at_column_0`,
  `lcd_driver/test.s:286`). The command loses a character, the display does
  not. `EchoIsEndOfCommand` still holds, because it speaks of the cells to the
  left of the cursor on the last line.
* **cd, pwd and ls never start** (`dispatch_supported`, `shell/test.s:63`).
  Their match loops branch back to the label that resets the index registers.
  `SpinningNeverReturns` and `ReturnsUnlessSpins` together say which lines hang.
* **wordgame2 starts wordgame** (`shell/test.s:48`).
  The bug report at the head of the shell says that `cd2` is taken for `cd` with
  the path 2. The match of a name ends at the name's NUL and nothing looks at
  what follows it in the line. `cd` itself no longer starts; the game does.
  `CallNeedsWholeName` is what holds: a command starts only for a line that
  begins with its whole name, and `unknown` is only for lines that begin with
  none, so `wordgame2`, one of the lines of `dispatch`, starts the game.
* **16 of 40 words** (`shell/test.s:362`). Lines 287 and
  292 speak of having completed all words, of which `WG_NUM_WORDS` says there are
  40. The word index times 16 is computed in a byte, so after 40 answers only the
  first 16 words have been asked, some of them three times.
  `FinishedGameAskedReachableWords` says that none of those is left out; that no
  other is asked is in `TypeOK`. `word_game` has three words of which two are
  reached.
* **ls of nothing** (`ls_util/test.s:109`). The comments at
  `ls_not_found` and at `not_found` (`common_libs/test.s:211`) say print
  "not found"; both only return. `LsShowsWhatIsThere` asks
  only that nothing is shown as if it were there; the message would satisfy it.
* **romFS.txt** (`rom_fs/test.s:360`). The tree drawn at the end
  of the file has it, the image has `romfs.txt`, and the lookup compares bytes.
  `Tree` has the name stored; in all else it is the tree drawn. `rom_fs` looks up
  both names.
* **cd .. in /rom** (`cd_util/test.s:57`). The bug report
  at lines 9-11 says that it prints "not found" and leads to /rom/bin. In this
  commit it prints ok and leads to the root, as `CdFollowsTheTree`, which holds
  and is proved, says of every place: `..` is an entry like any other. The report
  is out of date.
* **b does not remove from a full table** (`simulator.c:1101`). The help (1253)
  says that b removes a breakpoint that exists; `add_breakpoint` tests for room
  before it looks for one. `AddBreakpoint` does the same; `StopsAtBreakpoints` is
  about what is in the table.
* **u twice** (`simulator.c:1353`). u promises to break at the return address, but
  sets it with a toggle: a second u in the same routine takes the breakpoint away
  and promises the same. With a full table nothing is set either.
  `UpStopsInCaller` counts as promised only what was set.
* **Page Down in a short list** (`simulator.c:474`). `display_start` is the first
  line to display, from 0 (126); Page Down does not cut it at 0 when the list is
  shorter than the window. The lines shown are not modelled.

Other behaviour that nothing in the repository speaks of, and that the models
have as it is:

* **A lost MODE_CHANGED** (`processing.pde:896`). On the ACK the host empties
  its receive buffer. When the Teensy finished a frame right behind its ACK, the
  MODE_CHANGED line is in it; nothing times out, `modeChanging` stays set, and
  `requestModeChange` refuses every later request (716-717). So
  `ChangeCompletesUnlessErased` says "unless erased"; `lost` marks that case.
* **A long path component** (`common_libs/test.s:180`) stores into
  `CURRENT_INODE` and `WORKING_DIR_INODE`. `CdFollowsTheTree` and
  `LsShowsWhatIsThere` hold for sound paths after it; a relative path then
  starts from what was stored, which is why they ask for a place in the tree.
* **A second directory block is never searched** (`common_libs/test.s:37`): the
  register that should point at it was changed, and the block searched instead
  is the one numbered like the directory's owner. On this image nothing is found
  there that the tree does not have.
* **A full ring looks empty** (`hello.s:969`): the 16th key not yet taken
  forgets all. `KeyQueue` has it as `Overflow`.
* **A reset inside a release** (`hello.s:87`): the code behind the F0 is then a
  key pressed. `ReleasesAreSkipped` names this exception.
* **A missed self test** (`hello.s:172`): the handler ignores every key until
  the keyboard reports its self test. When that report comes while the display
  is set up, with interrupts off, it is dropped and the game is deaf until the
  reset button.
* **Changing places** (`hello.s:322`): a box moving right and an enemy moving
  left in one frame pass each other. `EnemiesPassOnlyBy` names this exception.
* **A teleport to the last column** puts the box at 75, past the 73 that
  `move_right` knows as its limit: the next step right goes left.

A key pressed while a handler runs is erased by the handler's store of 0;
nothing in the repository promises otherwise, so `PolledKeyIsActedOn` speaks
only of keys that arrive while the loop polls.

## Proofs

TLAPS checks the `*_proofs` modules. Each theorem has the form `Spec => []P`,
`Spec => [][A]_v` or, for a refinement, `Spec => AbstractSpec`, and holds for
every value of the constants that satisfies the assumptions of its module.

| Module | Theorem | Property |
|---|---|---|
| `ShellTerminal_proofs` | `TypeCorrect`, `DisplayCorrect`, `CursorCorrect`, `ViewCorrect` | `TypeOK`, `DisplayShowsBuffer`, `CursorAtColumn`, `ViewWithinHistory` |
| | `ScrollKeysAreOpposite`, `EchoCorrect` | `UpAndDownAreOpposite`, `EchoIsEndOfCommand` |
| | `TerminalIsScrollback` | `ScrollbackSpec`: refines `Scrollback` |
| `Console_proofs` | `TypeCorrect`, `PressesActedOnOnce` | `TypeOK`, `EachPressOnce` |
| | `TerminalCorrect` | display, cursor and view under any interleaving of host and loop |
| | `PollComesNearer` | each step of a handler is nearer to the next poll, whatever the host does |
| | `ConsoleImplementsShell` | `ShellSpec`: refines `ShellTerminal` |
| `ShellCommands_proofs` | `TerminatorStops`, `WhatWasTypedRuns`, `NoReturnFromSpin` | `StopsAtTerminator`, `CallNeedsWholeName`, `SpinningNeverReturns` |
| | `PassagesRunOut` | a line that does not spin is nearer to its end with each step |
| | `TypeCorrect`, `GuessShown`, `FinishedGameCorrect` | `TypeOK`, `GuessIsShown`, `FinishedGameAskedReachableWords` of `WordGame` |
| | `DisplayStill`, `AnswersJudged` | `StillWhileScrolled`, `JudgedByTheGuess` |
| | `FsTypeCorrect`, `CdCorrect`, `LsCorrect` | `FsTypeOK`, `CdFollowsTheTree`, `LsShowsWhatIsThere` |
| `Debugger_proofs` | `TypeCorrect`, `CallStackCorrect`, `ScrollIndexCorrect`, `BreakpointsStop`, `UpStops` | `TypeOK`, `CallStackNamesOpenCalls`, `ScrollsFromEntryShown`, `StopsAtBreakpoints`, `UpStopsInCaller` |
| `ModeSwitch_proofs` | `TypeCorrect`, `ModesAlwaysAgree`, `CommandsWhole`, `FramesOfCurrentMode` | `TypeOK`, `ModesAgree`, `CommandsArriveWhole`, `FramesAreOfCurrentMode` |
| `Ps2Keyboard_proofs` | `TypeCorrect`, `OnlyPressesAreStored` | `TypeOK`, `ReleasesAreSkipped` |
| | `BufferIsAQueue` | `KeyQueueSpec`: refines `KeyQueue` |
| `ViGame_proofs` | `TypeCorrect`, `SkipIsSurvived`, `NoEnemyPasses` | `TypeOK`, `TeleportIsSurvived`, `EnemiesPassOnlyBy` |

Each of these modules also has a theorem `Invariance`, `Spec => []IInv`, for the
inductive invariant the others follow from; in `ShellCommands_proofs` there are
three, `DispatchInvariance`, `Invariance` and `FsInvariance`. Its parts share the
lemmas about folds and nothing else.

### What is assumed

Every assumption is evaluated by TLC in the runs of its module.

* `LcdTerminalAssumption`: at least two lines, at least one column; blank and
  prompt sign are characters. `CmdMaxAssumption`, `ConsoleAssumption`: limits are
  natural numbers, the message is made of characters, and no line starts the
  word game.
* `DispatchAssumption`: a command line is a sequence and not empty (Enter on an
  empty line does not reach the shell). The names are the program's own.
* `WordGameAssumption`: there is a word, each is made of letters and fits the input
  buffer; letters and the underscore are characters, NUL is none; the messages are
  made of characters.
* `RomFSAssumption`: the root is an inode, and inode numbers are from 1 to 31 (the
  pointer computed for a number reaches 32 slots, and inode 0 is reserved for
  invalid ones); what a component too long stores are
  bytes. `ImageAssumption`: the image holds the tree that the comment at the end of
  `rom_fs/test.s` draws, with the stored name `romfs.txt`: its directories are the tree's, the block of each lists
  what leads on from it, and the block numbered like its owner, where the lookup
  goes on (see above), was not written or is its own. The entries may be in any
  order and in any blocks.
* `DebuggerAssumption`: the program is made of calls, returns and jumps within
  its addresses; tables have room for one entry.
* `ModeSwitchAssumption`: each mode has a format; there is room for one line.
* `Ps2Assumption`: at least two slots; room on the wire for the two bytes with
  which the keyboard answers a reset; the codes of keys are not E0, F0, AA or FA.
* `ViGameAssumption`: the two limits the box is tested against lie on the display.
  `PaceAssumption`: the next enemy comes after the last has moved three columns,
  a key moves the box no further than one column, and it does not start in the
  last. All are about the numbers in `hello.s` (`vi_game` runs with exactly
  those), and the properties need them: with enemies closer than three columns a
  skip can land on the next one, and with a longer step the box can leap over
  one.

### The terminal

None of the properties is inductive alone. The display stays right when a
character is printed only if the controller's cursor is at the column and the
lower row is the current line; the cursor is right only in normal mode; and a
running command must not find the terminal in scroll mode, where `print_char`
stores without advancing. So `IInv` is `TypeOK`, all three (`Sound`), and
`running => scrollMode = 0`. The proof follows the calls:

1. arithmetic of the circular buffer (`SuccPred`, `DistanceFacts`);
2. which fields each routine sets (`AdvanceLineFields`, `RedrawFields`,
   `StoreCharFields`, `LcdDataFields`, ...), so that later proofs never open a
   record update twice;
3. a redraw makes display and buffer agree whatever was shown
   (`RedrawShowsBuffer`), and writing one character at the same place of both
   keeps them in agreement (`WriteShowsBuffer`);
4. each routine the key loop calls takes a sound terminal to a sound one
   (`PrintCharSound`, `LcdBackspaceSound`, `ScrollUpSound`, ...);
5. `InitIInv` and `NextIInv`, one case per action, then the theorems.

`EchoIsEndOfCommand` is inductive given `IInv`: `PrintCharEchoes` and
`BackspaceEchoes` extend and shorten what is left of the cursor, over a wrap
too.

The refinement of `Scrollback` turns slots into positions. `HistoryFacts` gives
the history as a sequence, `HistoryAdvances` and `HistoryStores` say what a new
line (with and without a full buffer) and a store do to it, and `ViewFacts`
places the view in it. With these every routine has its counterpart:
`PrintCharWrites`, `BackspaceErases`, `ResetShellPrompts`, `ScrollUpMoves`,
`ScrollDownMoves`; `ShownWindow` says that the rows are the abstract window.
One thing more is needed, `BlankAbove`: while there is one line, the slot before
it, which the upper row shows, is still blank.

`Console` has the same `Sound` terminal, and two invariants of its own. `HandlerOK`
says what each place of the loop may rely on. `KeysOK` orders presses: what is in
`KEY_INPUT` when the loop polls is later than the last press acted on, and what a
handler holds is no later than what it will erase. `PollComesNearer` is the part
of `PromptComesBack` that needs no fairness: `StepsToPoll` is smaller after every
step of the loop between two polls, and the host does not change it.

### Dispatch

`CheckOK` and `MatchOK` say that both registers are equal and that the name and
the line agree up to them, `Refused` that all earlier names were refused for a
character at which they differ. So a call means a prefix was typed, and a line
that reaches `unknown` begins with no name. The names are looked at in two
lemmas only.

`PassagesRunOut` is the part of `ReturnsUnlessSpins` that needs no fairness:
`PassagesLeft`, a natural number, is smaller after every step of a line that does
not spin. The fairness of the processor, which the prover does not reason about,
is all that is missing.

### Word game

A message is printed by a fold over its characters and a path is followed by one
over its components. The fold of the library is a recursive function chosen by
its equation, so what it computes has to be earned: `FoldExtends` builds the
function for one element more, `FoldExists` goes up to the length of the
sequence, and `PrintTextSteps` concludes that the terminals in between exist, one
for every character, each `PrintChar` of the one before. The induction is over the
numbers for which a statement holds, `NatSetInduction`, from the theorem of the
library that `<` is well-founded.

The invariant has to say what the terminal is like when text is printed in scroll
mode: the buffer moves on, the view does not, and the two no longer agree until
`exit_scroll_mode`. `Kept` therefore asks for a sound terminal in normal mode only.
`Still(t)` are the terminals that printing on `t` can lead to: the same mode and,
in scroll mode, the same display; every routine and hence every message stays in
it (`RoutinesStill`, `PrintTextStill`), and `StepKeeps` shows that each action
stays in it, scrolls, or starts the game. `DisplayStill` is read off that.
`Progress` ties `asked` and `solved` to the word index, `Typed` says that letters
are before the input index. `GuessFacts` relates the buffer with its NUL to the
letters typed, for `AnswersJudged`. For `GuessShown` the echo of the driver
(`PrintCharEchoes`, `BackspaceEchoes`) is carried over whole messages
(`PrintTextEchoes`), so that every way back to a fresh guess ends with the prompt
shown (`ShowPuzzleEchoes`).

### File utilities

`Walked` says that on a sound path the components left lead from the inode of the
walk where the whole path leads, so that the end of the walk is the end of the
path, and a component that is not found is a path that leads nowhere
(`LeadsOnHead`, `LeadsOnNowhere`, `LeadsOnEmpty`). `FindsWhatLeadsOn` shows that
the lookup in the blocks of the image is the step in the tree, the wrong second
block included. `Placed` carries the types: a walk is at an inode, or has not left
a working directory that an earlier component overwrote (`Stray`).

### Debugger

`CallStackNamesOpenCalls` is existential: the shown entries are some of the open
calls, in order. `CallEmbedded` and `ReturnEmbedded` extend and cut the witness;
as long as no call was refused the stacks agree entry by entry, which is the
strengthening that makes it inductive (`MachineOK`). `LoopOK` says that a
breakpoint at the program counter has been asked about wherever an instruction
can be executed, that no address is in the table twice (so that taking one out
leaves none), and that what `u` promised is in the table. `TracerOK` relates the
index of `[` and `]` to the entry on the screen through the shift of a full
trace.

### Mode switch

The wire and the receive buffer are one sequence, `Transit`; a step drops lines
from its front, adds one at its end, or neither. `ChangeOK` says that one change
is under way at a time: a command or a pending mode excludes a MODE_CHANGED in
transit, and there is at most one. `FramesWhole` keeps the three lines of a
frame together. `FrameModes` says that frames before a MODE_CHANGED are in the
host's mode, those behind it in the Teensy's, unless an answer was erased.
`InFrame` says what the next line is when the host is within a frame.

### vi-move game

The properties are about one frame, but hold only because enemies keep apart:
`Spaced` (any two are at least three columns from each other) follows from
`Paced`, which bounds where the last enemy is by the two timers.

The invariant of the keyboard is about bytes not yet received: F0 and the code
behind it follow each other on the wire (`Paired`), and the handler's flag is set
exactly when a released key comes next, but for the first byte after a reset
(`SkipOK`). For the refinement, `Pending` is the ring read from its oldest slot;
`PointerFacts` says which slots wait for every position of the two pointers, the
equal ones included, where the step of `process_key_input` tells full from
empty. The indices are hidden behind `SlotAt`, so that no prover sees a remainder.

### What is only model-checked

* The liveness properties `ReturnsUnlessSpins`, `PolledKeyIsActedOn`,
  `PromptComesBack`, `CtrlCStops`, `ChangeCompletesUnlessErased`: the prover does
  not reason about ENABLED and fairness. Of the first and the third, the bounds on
  the number of steps are proved (`PassagesRunOut`, `PollComesNearer`).
* The three properties of the runs in "What the code does not do as written" are
  false.

## Not modelled

* Third-party code: vasm, dcc6502, fake6502 and LCDSim under `src/tools`. They
  are most of the C in the repository; the project's own core is assembly.
* Of the simulator: reading, writing and monitoring memory, symbols, the
  disassembly and which lines of the list file the tracer window shows; they read
  state and print it. Loading the hex
  file is input.
* Of the sound project: the signal processing, arithmetic on samples, and the
  drawing and recording of the sketch. `src/signals/Processing` and
  `src/signals/Teensy_Mic_LED_copy_20251210093814` are earlier sketches without
  the mode switch.
* Of the games: pixels, digits and fonts; the bits on the PS/2 lines; earlier
  versions of the vi-move game.
* `pwd_util` behind its RTS (line 22) and the skipping of blanks behind a match
  of `cd` or `ls`: code that never runs.
* Tutorials, images and the bring-up programs in `src/ben_youtube`.

## Plan

Every property that can be proved here is. What is left is to carry on with the
model: the commands of the simulator that read and write memory, and paths long
enough to reach the display's variables.
