# Verification of ws63flash

ws63flash writes firmware to the flash of a HiSilicon WS63 chip over a serial
line. This directory holds TLA+ models of the programs in `src/src/`, the TLC
configurations that check them on small instances, and proofs that TLAPS
checks for every value of the constants.

Paths such as `ymodem.h:104` are files of `src/src/`; `getopt.c`,
`argp-parse.c` and `sha256.c` are files of `src/lib/`.

    tlc -workers 2 -config SessionFaults.cfg MCSession.tla
    tlapm YmodemProofs.tla

## 1. The system

There are three programs, each with a single thread. Most of `ws63flash` is
waiting: it sends a command or a block and looks at what the chip sends back.

    command line -> main -> verb_flash | verb_write | verb_erase | verb_write_prog
                             |  uart_open (speed of the TTY)
                             |  ws63_send_cmddef ---- command frame ---> chip
                             |  uart_read_until_magic <-- frame or text -- chip
                             |  ymodem_xfer <===== blocks, ACK, NAK =====> chip
                             |  fwpkg_read_header / bin_infos <- firmware package
                             '  ws63sign_* (verb_write_prog signs the image)
    ws63fwpkg --inject            reads and writes firmware packages
    ws63sign                      signs an image

| component | source | state | operations | what is hard | what makes it correct |
|---|---|---|---|---|---|
| YMODEM transfer | `ymodem.h` | block number, file position, block buffer, two timers | wait for `C`, send a block, wait for an answer, send again, EOT, final block | damaged blocks, stray bytes, lost answers, timeouts that race answers, wrapped block numbers | success means the chip has the whole image; no block is stored twice or out of order; every transfer ends |
| command frames | `io.h` (`uart_read_until_magic`, `ws63_send_cmddef`) | parser state, index, frame length, buffer, timer | build and send a frame, find a frame in the bytes that arrive | text between frames, bytes that look like a frame, lost bytes, silence | one call reads one frame, whole; every call ends |
| session | `ws63flash.c`, `io.h` (`uart_open`), `baud.h` | stage of the run, bin it is at, speed of the TTY | handshake, loader, change of speed, erase, download of each bin, reset | answers nobody looks at, commands that reach a chip that is busy, speeds that differ, failed I/O | exit status 0 means the flash holds what was asked; nothing else is erased; the program ends |
| firmware packages | `fwpkg.h`, `ws63fwpkg.c`, `io.h` (`copy_part`) | header, table of bins, layout of the file | read header and table, inject bins | offsets that move, files that change after `stat`, short reads | every bin is where the table says; old bins stay unchanged |
| signing | `ws63sign.h`, `ws63sign.c`, `ws63flash.c` (`verb_write_prog`), `sha256.c` | length, hash, header, bytes kept back | init, feed, finalize; write header, body, padding, header again | a header written twice, padding, buffering in the hash, an input that changes | the header describes the bytes behind it; what was signed is the image, and is what is sent |
| command lines | `parse_opt` and `main` of the three programs, `argp-parse.c`, `getopt.c` | verb, arguments, open files; a command line that is moved around while it is scanned | one call per option or argument | order of options and arguments, abbreviated names, limits that depend on the verb, `errno` | the program does what was typed, or says how to use it |
| checksums, tables of speeds, loader blob | `ymodem.h`, `io.h`, `baud.h`, `blob/` | none | | | |
| the rest of gnulib, build files, manual pages | `lib/`, `m4/`, `build-aux/`, `man/` | none | | | |

The chip (boot ROM, and the loader it is given first) is not in the
repository. It is modelled from what the host code waits for, and every
definition of it is marked external.

The hazards, each at its line, are in `PROJECT.json`, with the properties that
look for them, or a note for those no property covers.

## 2. Modules

| module | models | state and actions |
|---|---|---|
| `FileTransfer` | abstract: what one image transfer promises | the blocks stored so far and what the host knows (`running`, `delivered`, `unsure`) |
| `Ymodem` | `ymodem_xfer` with `ymodem_blk_timed_xmit`, `ymodem_blk_xmit`, `ymodem_wait_ack`; the line; the receiver | one action per I/O call, with all the work up to the next one: `WaitC`, `WaitCTimeout`, `BlkXmit`, `EotXmit`, `Acked`, `Naked`, `StrayByte`, `IoError`; the line has `Corrupt`, `Noise`, `Lose`; the receiver `Boot`, `Invite`, `Receive` |
| `CmdFrame` | `uart_read_until_magic` byte by byte, and the frames of `ws63_send_cmddef` | `st`, `i`, `framelen` and `buf` are the locals of the same name; `Scan` looks for the magic, `Body` takes the rest, `TimeOut` and `ReadError` are the other ways out; the chip has `Say`, the line `Lose` |
| `Session` | `main` after its command line and the four verbs, as one machine, since they share their stages | `pc` names the stage, `cur` the bin the loop is at and `left` those it has still to visit, `tty` the speed; the actions are in the order of the code: `Stage0`, `Shake`, `ShakeRead`, the transfer (`Xfer...`), `Sleep`, `FrameRead`, `FrameGivesUp`, `SetBaudCmd`, `BaudOpen`, `FirstBin`, `NextBin`, `EraseCmd`, `PollReset`, `ResetRead`, `Restore` |
| `Fwpkg` | `verb_inject`, with `fwpkg_read_header`, `fwpkg_read_bin_infos` and `copy_part` | `table`, `outfwlen` and `remaining` are the variables of the code, `out` the file that is written; one action per loop turn or call |
| `Getopt` | the scan of a command line: `_getopt_internal_r`, `process_long_option` and `exchange`, driven by `parser_parse_next` of argp | `argv`, `optind`, `first_nonopt`, `last_nonopt`, `nextchar` are those of the code; `Exchange` is one turn of its loop, `Advance`, `Skip`, `FindDashes`, `Quoted` and `Take` are the parts of getopt in their order, `Option` hands over one option, `Arg` one argument, `End` is `ARGP_KEY_END` |
| `Cli` | `parse_opt` of each program, called by `Getopt`, and `main` up to its work | `arguments` is the struct of the code, `errno` whether it is set; `Parse` is a step of `Getopt` with the `parse_opt` it calls, `MainVerb` and `MainSign` follow |
| `Sha256` | `sha256_process_bytes`, `sha256_process_block` (its counters) and `sha256_finish_ctx`, as operators, with the padded message of the standard (`Padded`) to compare with | a context is its `buffer`, its counters `lo` and `hi`, and as `state` all bytes that were compressed |
| `Sign` | `ws63sign_init`, `_feed`, `_finalize` with `main` of ws63sign and the first half of `verb_write_prog` | `header` and `body` are the output file, `buf` is the header in `ctx.buf`; one action per loop turn or write: `WriteHead`, `Feed`, `Finalize`, `WritePadding`, `WriteHeader`, `Send` |
| `MCYmodem`, `MCCmdFrame`, `MCSession`, `MCFwpkg`, `MCCli`, `MCSign` | small instances | |
| `YmodemProofs`, `CmdFrameProofs`, `FwpkgProofs`, `Sha256Proofs`, `SignProofs`, `SessionProofs`, `CliProofs`, `CliOrderProofs` | theorems about the module they are named for (the last two about `Cli` with `Getopt`) | |

How they compose: `Session` does not know blocks on the line. It takes
`ymodem_xfer` from `FileTransfer` (`Transfer(n) == INSTANCE FileTransfer`), and
`Ymodem` is shown to implement `FileTransfer` (`KeepsPromise`), by TLC and by
proof. A frame is one message in `Session`; that it is read as one is what
`CmdFrame` shows. `Session` begins with a command line that `Cli` accepts, and
what `--write-program` sends in it is the file that `Sign` makes. `Cli` extends
`Getopt`: a step of the parser that calls `parse_opt` is one step with it.

Abstractions worth knowing:

- Time is a counter of whole seconds, because the code compares `time()`; it
  stops one second behind the limit it is compared with. `Tick` may happen any
  number of times between two steps of the host, so a slow answer and a timeout
  race in every order.
- A block in `Ymodem` carries the interval of the file it holds, so that a
  block with the wrong bytes can be told from the right one. A block with a
  wrong checksum is one that the line has damaged.
- `late` in `Ymodem` and `shorter` and `lost` in `Fwpkg` are history variables:
  no action looks at them. `cut` and `late` in `Session` name the transfers that
  did not deliver their file and still returned no error < 0: the first
  returned `EXIT_FAILURE`, which is 1, the second `EXIT_SUCCESS` after a wait that
  gave up on a stray byte (the unsure success of `Ymodem`). The callers test
  `ret < 0`, so `XferReturns` goes on after both.
- A chip whose file the host has given up is `midfile`: it waits for the rest of
  it and drops every command that reaches it, the next download included. It
  asks for no other file.
- Output streams are buffered. `StdioBuf` is how much may wait in the stream for
  the calls whose results nobody looks at: `fclose` in `Fwpkg` (`CloseFails`),
  `fseek` and `exit` in `Sign` (`FlushFails`, `HeaderFails`). `lost` says that one of
  these writes has failed. In `Sign` it also tells where the header goes:
  `fseek` that fails does not move.
- The line has no flow control. In `Session` a command that meets a full chip or
  another speed is lost; `Send` never waits.
- A message in `Session` is sent at the speed of its sender and is nothing to a
  side that listens at another speed.
- A file in `Fwpkg` is a sequence of cells that name the file and the place
  they come from; so is one in `Sign`, and a hash there is the sequence of the
  bytes it is computed from: two hashes are equal just when these are.
- `avail` in `Ymodem` and `size` in `Sign` change while the program runs
  (`Resize`): the length of a file is always taken before it is read.
- `calm` in `Session` marks the runs in which nothing fails and the user and the
  chip answer in time; `Succeeds` and `ErasedWhenCalm` are about these.
- A long option is a name in pieces, cut where another name may differ; an
  abbreviation is a prefix of it. `typed` and `calls` in `Getopt` are history.

## 3. Runs

Every passing run explores its state space completely.

| run | question | bounds | distinct states |
|---|---|---|---|
| `YmodemDamage` | is a transfer stop-and-wait, does success mean stored, does it implement `FileTransfer`? | 3 blocks, the last one short, block number modulo 2; 2 damaged blocks, 1 stray byte, 1 lost block or answer; a file of 5 or 7 bytes that changes once | 759 k |
| `YmodemEnds` | are blocks in order and repeats harmless once the host is out of step, is a file that lacks a block noticed, does every transfer end, does the image arrive? | 6 blocks modulo 4; 1 damaged block, 2 stray bytes, no loss; a file of 5, 10 or 11 bytes of 11 that changes once | 1.04 M |
| `YmodemSilent` (violation) | does a transfer end after a lost block or answer? No | | |
| `SessionFaults` | does status 0 mean flashed, is nothing else erased, do speeds agree, is there one file at a time, does the program end? In a calm run, does it succeed? | all verbs; a loader, two bins of one sector and of one and a half, and one of a type that is never sent; every subset of the bins, and a name that is not one; 1 failed I/O call, 1 lost message, 1 split acknowledgement, 1 transfer cut short, 1 that returns success too early, or none of these and answers in time | 1.25 M |
| `SessionErase` (violation) | does status 0 of `--erase` mean erased? No | 1 lost message | |
| `SessionCut` (violation) | does a transfer that fails make the program fail? No | 1 transfer cut short | |
| `CmdFrame` | does a call read one frame, and end? | 3 messages, 3 calls, 1 lost byte; text that ends in a byte of the magic, a frame whose data are the magic | 64 k |
| `FwpkgInject` | is every bin where the new table says, does inject end? | packages of 1 to 3 bins, one refused, one full; up to 3 bin files, 2 changes, 1 failed call, the last `fclose` included; chunks and stream buffer of 2 units | 41 k |
| `FwpkgGap` (violation) | is it so with a gap behind the table? No | 1 package | |
| `CliParse` | is `parse_opt` called for what was typed, in order, does a program work for the lines its manual page shows and only for them, does parsing end? | every command line of up to 4 elements out of 8 (`ws63flash`), 5 out of 5 (`ws63fwpkg`), 3 out of 7 (`ws63sign`), with and without POSIXLY_CORRECT | 266 k |
| `CliHelp` (violation) | does every line that the help texts show run? No | up to 3 elements | |
| `SignImage` | do header, length and hash describe the body, is it the whole image, is it what is sent? | images of 0 to 19 bytes; blocks of 4 bytes, counters modulo 16, reads of up to 8 bytes at any alignment, 1 short read, 1 change of length, 1 failed write, a stream buffer of 4 bytes | 110 k |

Why these bounds are enough to be interesting. In `YmodemEnds` the image has
more blocks than there are block numbers, so a wrapped number does meet an old
block; in `YmodemDamage` two numbers are enough, as in an alternating bit
protocol, because at most one block is outstanding. `LineCap` of 1 or 2 in
`Ymodem` fills the line; in `Session` one command fills the chip. A bin of one sector and a half and one of exactly a sector are
the two cases of the erase size. Chunks of two units make a copy take several
turns, some of them short. A command line of five elements has `--`, options on
both sides of arguments and segments of unequal length, so that `exchange` takes
more than one turn. In `SignImage` an image has up to five blocks of the hash, so
that the buffer of two blocks is filled, passed by and left with a whole block,
and more bytes than a counter can hold, so that the carry is used; a chunk of
two blocks stands for 4096 = 64 blocks. One fault of each kind in one run lets every pair of
them meet.

Every property has a mutant in `PROJECT.json`: a change of one definition, of
the kind a programmer might make (the operators whose comment begins
`Mutant:`), with which TLC finds the property violated in the same run.

### Fairness

- The host (`HostStep`) is weakly fair: a single thread that the scheduler runs.
  A failed call or a broken transfer is part of it only in the sense that a
  host that can do nothing else takes that way out; no fault is obliged to
  happen.
- `Tick` is weakly fair: time passes.
- The chip is weakly fair where a property needs it. In `Ymodem` it serves its
  input and repeats its invitation. In `Session` somebody resets it (`PowerUp`)
  and it answers only in the calm runs, which `Succeeds` is about; in all others
  it may do nothing for ever, and `Terminates` holds nevertheless. What
  `Terminates` does take for granted is that each `ymodem_xfer` ends, which
  `YmodemEnds` shows for a line that loses nothing and `YmodemSilent` refutes for
  one that does. In `CmdFrame` it is not fair at all: it may stay silent.
- `Cli` and `Sign` are single threads without anybody to wait for: weak fairness
  of their next steps. In `Sign` neither a failed write nor a change of the file
  is obliged to happen.

### What the violations say of the code

- `YmodemSilent`: `ymodem_wait_ack` skips its own limit while nothing arrives
  (`ymodem.h:104`), so one lost block or answer followed by silence hangs the
  program, although `ymodem.h:84-85` give limits.
- `SessionErase`: `verb_erase` does not look at the answer (`ws63flash.c:666`)
  and returns 0 when the command was lost. The downloads have the same gap, but
  there the transfer that follows fails, which is what `FlashedOnSuccess` shows.
- `SessionCut`: `ymodem_xfer` returns 1 for a file that runs out
  (`ymodem.h:236`), its callers test `ret < 0`, and the program exits with 0. The
  next download then reaches a chip that still waits for the rest of the file;
  the same may follow a late transfer that returned `EXIT_SUCCESS`. That is why
  `FlashedOnSuccess` and `OneAtATime` except these two (`AllTold`).
- `FwpkgGap`: the loop at `ws63fwpkg.c:216` pads in the wrong case.
- `CliHelp`: `--erase TTY FWPKG` is what the help text (`ws63flash.c:60`) and
  `README.en:51` show, and what `parse_opt` refuses (`ws63flash.c:140`);
  `man/ws63flash.1:16` has `--erase TTY`. `--write TTY LOADERBOOT` and `--inject FWPKG`
  are refused too (`ws63flash.c:148`, `ws63fwpkg.c:100`), although the help texts
  (`ws63flash.c:58`, `ws63fwpkg.c:56`) and the manual pages show BIN as optional. TLC
  stops at the first such line; `RunsWhatWasTyped` of `CliParse`, whose limits are
  those of the manual pages and not those of `parse_opt`, says of the last two that
  they are always refused, and that no other line of the manual pages is.

What the passing properties except. Each of these is a definition that can be
taken out of the property, and then TLC finds the property violated with the bounds
of its run:

- `AllTold` in `FlashedOnSuccess` and `OneAtATime`: a transfer that was cut, see
  `SessionCut`, or returned `EXIT_SUCCESS` while the chip lacks a block. Also
  `CutTransferFails` is about the first of these only.
- `Skipped` in `FlashedOnSuccess`: a bin whose `type_2` is neither 0 nor 1 is passed
  over (`ws63flash.c:366`) with status 0, although it was named on the command line
  and is marked in the table that is printed (`:252`). `README.en:39` shows a named bin
  as one that is flashed. What was in its place is still there.
- `lost` in `OldBinsKept` and `NewBinsPlaced`: the result of `fclose(outfw)` is not
  looked at (`ws63fwpkg.c:234`). What waits in the stream, all of a small package, may
  be lost while `verb_inject` returns 0. After every other failed call it does not.
- `Whole` in `NewBinsPlaced`: `copy_part` takes a file that has become shorter for one
  that ends (`io.h:290`), and the bins behind it lie before their places. Those
  before it, and all old bins, are where the table says.
- `lost` in `HeaderDescribesBody`, `SignsTheWholeImage` and `SendsAllOfIt`: the end of
  the image and its padding are written by an `fseek` whose result is not looked at
  (`ws63sign.c:111`, `ws63flash.c:723`), the header by `exit` or by the `fseek` of
  `ws63flash.c:805`. When one of them fails (a full disk) the status is 0 and the file
  is not what was signed: its end is missing, the header stands behind it, or it
  begins with the header that has no length.

Seen while modelling, without a property:

- A handshake acknowledgement split between two reads is never recognised
  (`ws63flash.c:318`): with `MaxSplit = 1` in a calm run TLC refutes `Succeeds`.
- A file that is cut inside its last block is padded and counts as sent
  (`ymodem.h:235`); `ShortFileRefused` states only what the code notices.
- The length field of the header stays the old one after `--inject`
  (`fwpkg.h:55`), and old and new bins together may be more than
  `MAX_PARTITION_CNT` (`ws63fwpkg.c:192`).
- `ws63fwpkg -o FILE -o -` writes to FILE: `-` does not set the output back
  (`ws63fwpkg.c:83`). An output that exists is not cut (`ws63fwpkg.c:86`).
- `ws63sign`: `-o` is declared without an argument (`ws63sign.c:39`), so it can
  only fail; a second argument is documented (`:36`) and refused (`:57`); a
  stale `errno` decides whether `a.signed` is opened (`:83`).

## 4. Proofs

All theorems hold for every value of the constants that the named assumptions
(`YmodemAssumption`, `FrameAssumption`, `FwpkgAssumption`) allow.

`YmodemProofs`:

- `TypeCorrect`: `Spec => []TypeOK`, with no further assumption.
- `AlwaysInStep`, for a file that always holds what the caller asks for
  (`LongEnough`: every length in `Avails` is at least `Size`; it may change
  during the transfer): `InStep` is inductive together with `TypeOK`. It is needed
  because neither an ACK nor a NAK carries a block number: that success means
  stored can only be seen from what may be on the line. As long as no wait gave
  up on a stray byte (`~late`), either nothing is outstanding, or the block in
  `blkbuf` is on its way, or one answer to it is, or it was lost
  (`Idle`, `Awaiting`), and the receiver wants this block or has just taken it
  (`Wanted`, `Taken`). The proof has one lemma for each action.
- `SuccessIsStored` and `NeverRunsAhead` follow from it.
- `Implements`: every step of a transfer is a step of `FileTransfer` or none.
  `SureStep` is the case before, `UnsureStep` the one after a wait gave up.
- `NoticesShortFile`: success is not reported for a file that ran out before its
  last block. `Reading` says where the file position is for each block.
- `StoresInOrder`: also after a wait gave up, when the host may be blocks ahead of
  the chip, what is stored is in order. This one has the hypothesis
  `total_blk < NumMod`: then a number names one block, and `Ordered` only has to
  say that every data block that exists carries its own piece of the file.
- `RepeatsDoNoHarm` and `OrderSurvivesWrap`: what holds on a line that has damaged
  and lost nothing, for any modulus of the block numbers and any number of stray
  bytes. The file info, the data blocks, EOT and the final block get places
  0, 1, 2, ... of the transfer. `CleanInv` says that what is on its way to the
  chip is a trail (`Trail`) from the place of the chip to the place of the host
  that goes up by one or stays at each step: no block is missing from it
  (`NoGap`), and its first is the last block the chip took or the next one, which
  two neighbouring numbers tell apart (`NumbersDiffer`).
- `StoresInOrderWrapped`: order without a bound on the size of the image, on the
  damaged blocks or on the changes of the file, on a line that also loses and
  damages. Its hypothesis is
  `2 * LineCap + MaxNoise + MaxLoss + 3 < NumMod`: the line and its faults
  cannot hold a whole turn of the 256 numbers. Some bound of this kind is
  needed: with `NumMod = 2`, 3 stray bytes and 1 lost block TLC finds a block out
  of order. `WrapInv` says that the host is ahead of the chip by no more than
  the blocks on their way, the NAKs on their way and what was lost (`Gap`), and
  that a block on its way is hardly older than what is behind it (`Queue`);
  `TrafficInv` bounds blocks and answers together, since each is made from
  another one or from a stray byte. Then a number names one block among those
  that can be outstanding (`SameNumber`).

TLC checked `CleanInv` and `WrapInv` on small instances, with places out of a finite set
in place of any integers, before they were proved.

`CmdFrameProofs`:

- `FrameShape`: what `ws63_send_cmddef` builds are bytes, begins with the magic,
  fits the reader's buffer and announces its own length in bytes 4 and 5.
- `TypeCorrect`, and `AlwaysInFrame`, the inductive invariant: a call that began
  between two messages is outside of frames, or has exactly the bytes of the
  frame it is in, with the right length as soon as it has read it.
- `ReadsOneFrame`: such a call returns 0 only at the end of a whole frame.

These two rest on the assumption that the text of the chip has no byte 0xEF (`FrameAssumption`).

`FwpkgProofs`:

- `TypeCorrect`: the types, and that the source of a copy is a file there is.
- `KeepsOldBins`: under `Contiguous` (the bins follow the table at once, and the
  first of the table is the first in the file, which is what `FwpkgGap` and the
  hazard at `ws63fwpkg.c:222` are about) a successful inject keeps every old
  bin, whichever call fails but the last `fclose` (`~lost`). The invariant `KeptInv` says that the table has moved by `Shift`, and
  that what `copy_part` has read of the package so far is in the output, moved
  by just as much; the key is that the header is then exactly `First + Shift`
  long (`HeaderSizes`).
- `BinsStayApart`: the bins of the new table share nothing. It asks only that
  the bins lie behind the table (`Behind`), so it covers packages with gaps. The
  invariant `PlacesInv` says that `outfwlen` is behind every bin in the table.
- `PlacesNewBins`: under `Contiguous` a successful inject has every new bin
  where its info says, up to a bin file that got shorter (`Whole`),
  unless the last `fclose` failed (`~lost`). `stat`, the table and the copy go over the bin files one
  after the other; `NewInv` says that each file that did not get shorter is at
  least as long as its info says, and that the output ends where the next info
  begins as long as no file before was short.

`Sha256Proofs`, about operators, under `Sha256Assumption` (a block has room for
the length, and a counter is a multiple of 8 and more than two blocks):

- `ProcessBytesWorks`: a context that is sound (whole blocks in `state`, counters
  of their length, at most one block kept back) stays so, and its
  message grows by the bytes it was given.
- `FinishWorks`: what is compressed in the end is `Padded` of this message,
  including the carry between the counters and the second block of padding.

`SignProofs`, which rests on these two:

- `SignTypeCorrect`, `HashesWhatIsWritten`, `HeaderIsRight`, `WholeImageSigned`,
  `SendsWhatWasSigned`: one invariant, `SignInv`, gives all five. Until the end of
  the input everything that was read is hashed and written (`Reading`), from
  then on the buffer of the header is that of the padded image (`Signed`). The
  last three except the runs in which a write failed that nobody looks at
  (`lost`, see section 3): any other write may fail.

`SessionProofs`, under `SessionAssumption` and `PartitionTable` (partitions start on a
sector, end in the flash and share no sector: the code takes the table as it
is, and with partitions that overlap the download of one may erase another):

- `TypeCorrect`: the types, with `Route`: where the loop over the bins is.
- `DownloadsOneAtATime`: nobody waits for the answer to a download, so this
  needs `Place`, the core of the module: for each `pc`, what the chip is doing,
  which commands may be waiting for it (`Fits`, at most one download among them,
  `Lone`), and which answers there may be, stale ones included. It says this of
  a chip that is `midfile` too: as long as `AllTold`, the verb is then over, and no
  download follows.
- `FilesAtOneSpeed`, `ErasesItsSectors`, `ExitZeroMeansFlashed` and
  `CalmEraseErases` take `Place` or the types and add what they are about:
  `Speed`, `FlashMoves`, `Stored` with `FlashFollows`, `CalmErase`.

These are all the safety properties of `SessionFaults`.

`CliProofs`, for every vocabulary and length of command lines:

- `TypeCorrect`: the segments that `exchange` moves lie in `argv`, do not meet, and
  `argv` keeps its elements (`SwapKeeps`). `Walk` orders `first_nonopt`,
  `last_nonopt` and `optind` at each step of getopt.
- `VerbIsFinal`: there are arguments only when `scan` has reached "args"
  (`Parsed`), and from there getopt hands out no option.
- `VerbHasItsArgs`: a verb begins with a number of arguments between its limits.
  No run has a property of just this; `RunsWhatWasTyped` contains it.

`CliOrderProofs`, on top of it:

- `CallsAreAsTyped` is `ParsesAsTyped` for every vocabulary and length. What is
  compared, the reading of the line from left to right, is recursive (`IsValue`,
  `FlattenSeq`), and induction over data is not to be had as such; but a least
  number that goes wrong leads to a contradiction (`LeastOf`), which gives its
  unfolding (`Alternates`, `FlattenSteps`), and from there each element adds
  what it should (`OptionsGrow`, `ArgsGrow`). The invariant is `Layout`: how far
  the calls are (`Asked`), that the skipped arguments lie side by side in `argv`
  (`Gathered`), that what is ahead has not been moved (`Ahead`), and how many
  arguments are handed out (`HandedOut`). While `exchange` is in its loop,
  `Gathered` speaks of the list it will leave behind (`Exchanged`), which one
  turn does not change (`TurnKeeps`).
- `RunsAsTyped` is `RunsWhatWasTyped`, in both directions: what runs is what was
  typed on a line the manual pages show (`TakenIsUsable`), and a usage message means that
  the line is none of these, but for `--write` and `--inject` without a BIN. `Sound` says
  that getopt has passed no option it could not use (`IsBad`) and that the one it
  stops at is one, or unknown. `Heard` says what the calls so far make of
  `arguments`. From the first argument on, the calls for options are the declared
  ones (`AllIsTold`), and `arguments.args` is the beginning of `DeclaredArgs` that
  was handed over (`NextArgument`). For the other direction, two verbs among the
  calls are two verbs on the line because the calls are a beginning of what was
  declared (`Begun`).
- `SignsFirstFile` is `SignsTheFirst`. `Seen` says that as long as `errno` is not
  set the input is the first argument, and that there is no second one.

These are all the safety properties of `CliParse`. That "none" stands for a null
pointer, and is therefore no text of the command line (`Texts`), is an assumption of
the representation.

What is only model-checked:

- Liveness (`Terminates`, `ReachesChip`, `Succeeds`, `EveryCallEnds`, `Ends`), out
  of reach of the prover.
- `InOrder` where neither hypothesis of section 4 holds and the line is at fault:
  the instance of `YmodemEnds` has 4 numbers for 6 blocks, 2 stray bytes and no
  loss.

## 5. What is not modelled

- Most of `src/lib` by size: vendored code for formatted output, strings, help
  texts and headers, which keeps no state of these programs. The modelled parts
  of it are named above. That is why the modules cover a small share of all
  lines of the repository, though most functions of `src/src` with a state.
- The compression function of `sha256.c`, and `sha256_stream`, which is not
  called. Whether an address is aligned is a free choice in `Sign`.
- Formats in the command line: `atoi` of `--baud`, `BIN@ADDR`. Options of argp
  itself (`--help`) end the program in `Option`. Without a verb nothing limits
  the number of arguments; command lines are kept shorter than `args`.
- The end of a file that is read as a stream is not sticky in `Sign`: `fread`
  that returns 0 ends the loop.
- Checksums: a failed one is a fault of the line (`Ymodem`), an uninterpreted
  operator (`Crc` in `CmdFrame`).
- Undefined behaviour after a corrupted frame length (`io.h:206`) or with too
  many bins (`ws63fwpkg.c:192`): excluded by the assumptions of the modules.
- The loop of `write()` in `ws63_send_cmddef`: a command is sent in one piece.
- A transfer that begins while the chip is `midfile`: the chip could take its blocks
  for the rest of the file before. It fails in `Session` like one nobody asked
  for, and `SpeedsAgree` is about chips that wait for the first block.
- A stream that fails more than once, or writes a part of what waits in it and
  then recovers: `MaxIo` and `MaxWrite` are 1 in the runs.
- Progress bars, tables and verbose output: they print.
- The order of the bins in the file for `--inject`, when the first of the table
  is not the first in the file: the code loses what lies before it; the
  instance begins with packages that are in order.
- An output of `--inject` that is its input or held something before.
- The loader blob, build files: generated, or without logic.

## 6. Plan

In this order; all but the last are done.

1. `FileTransfer`, `Ymodem`: the transfer, its refinement, `YmodemProofs`.
2. `Session`: the verbs, on top of `FileTransfer`.
3. `CmdFrame` and `CmdFrameProofs`.
4. `Fwpkg` and `FwpkgProofs` (types and old bins).
5. `Sign` and `Sha256`: both loops that sign, and the buffering of the hash.
6. `Getopt` and `Cli`: what a command line makes each program do.
7. `Sha256Proofs` and `SignProofs`: every safety property of `SignImage`.
8. `SessionProofs`: every safety property of `SessionFaults`.
9. `FwpkgProofs`: places of the bins.
10. `CliProofs`: types, `VerbBeforeArgs` and the number of arguments.
    `CliOrderProofs`: `ParsesAsTyped`, `RunsWhatWasTyped` and `SignsTheFirst`.
11. `YmodemProofs`: `RepeatsHarmless` and `InOrder` with numbers that wrap.
12. Partial writes of `ws63_send_cmddef`, as an extension of `CmdFrame`.
