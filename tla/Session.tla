------------------------------ MODULE Session -------------------------------
(***************************************************************************)
(* One run of ws63flash (src/src/ws63flash.c): main and the four verbs     *)
(* verb_flash, verb_write, verb_erase and verb_write_prog, which share     *)
(* their handshake, loader and baud stages, with the chip they talk to.    *)
(*                                                                         *)
(* ymodem_xfer is taken from FileTransfer, which Ymodem implements.  A     *)
(* message is sent at the speed of its sender and is garbage, that is      *)
(* nothing, when the other side listens at another speed.  The chip, its   *)
(* boot ROM and the loader it is given are external: they answer the       *)
(* commands as the host code expects.                                      *)
(***************************************************************************)
EXTENDS Integers, Sequences

CONSTANTS
  Package,       \* the bins of the fwpkg: type_2, burn_addr, length in blocks
  LoaderBlocks,  \* length of the loaderboot, in blocks
  SectorSize,    \* 0x2000 in the code, in blocks here
  FlashSize,     \* size of the flash, in blocks
  ResetTimeout,  \* RESET_TIMEOUT
  FrameTimeout,  \* UART_READ_TIMEOUT
  LineCap,       \* commands the chip holds that it has not served
  MaxIo,         \* I/O calls that may fail
  MaxLoss,       \* messages the line may lose
  MaxSplit,      \* acknowledgements that may be split between two reads
  MaxCut,        \* transfers whose file may run out
  MaxLate,       \* transfers that may return success although the chip lacks a block
  Verbs,         \* which of the four verbs are run
  Calms          \* values of calm

Bins == DOMAIN Package
Speeds == {"slow", "fast"}       \* 115200 and any other --baud
Cells == 0..(FlashSize - 1)

\* What a flash cell holds: a block of a bin, or one of these.
Old == 0
Blank == -1

\* ceil(length / 8192.0) * 0x2000
eras_size(len) == SectorSize * ((len + SectorSize - 1) \div SectorSize)

Region(addr, len) == {c \in Cells : addr <= c /\ c < addr + len}
Sectors(b) == Region(Package[b].addr, eras_size(Package[b].len))

ASSUME SessionAssumption ==
  /\ Package \in Seq([type_2 : Nat, addr : Nat, len : Nat])
  /\ LoaderBlocks \in Nat /\ SectorSize \in Nat \ {0} /\ FlashSize \in Nat
  /\ ResetTimeout \in Nat \ {0} /\ FrameTimeout \in Nat /\ LineCap \in Nat \ {0}
  /\ MaxIo \in Nat /\ MaxLoss \in Nat /\ MaxSplit \in Nat
  /\ MaxCut \in Nat /\ MaxLate \in Nat
  /\ Verbs \subseteq {"flash", "write", "erase", "write_prog"}
  /\ "write_prog" \in Verbs => \E b \in Bins : Package[b].type_2 = 1
  /\ Calms \subseteq BOOLEAN

\* A partition table: every partition starts on a sector and ends in the
\* flash, and no two share a sector.
ASSUME PartitionTable ==
  \A b \in Bins :
    /\ Package[b].addr % SectorSize = 0
    /\ Package[b].addr + eras_size(Package[b].len) <= FlashSize
    /\ \A a \in Bins \ {b} : Sectors(a) \cap Sectors(b) = {}

VARIABLES
  verb, late_baud, baud, args,  \* the command line
  pc,         \* where the host is
  cur,        \* the bin it is at, 0 for the loader
  left,       \* the bins that the loop has not come to
  age,        \* seconds since t0 of the wait it is in
  tty,        \* speed of the TTY, or "closed"
  code,       \* exit status
  cut,        \* the transfers that returned EXIT_FAILURE, which is 1
  late,       \* the ones that returned EXIT_SUCCESS too early
  stored,     \* blocks the chip has taken in the current transfer
  outcome,    \* what the host knows of it
  chip,       \* what the chip is doing
  chipSpeed,
  target,     \* the last download command the chip has accepted
  flash,
  toChip, toHost,
  calm,       \* nothing fails and whoever can answer answers in time
  budget      \* faults that may still happen

argVars  == <<verb, late_baud, baud, args, calm>>
hostVars == <<pc, cur, left, age, tty, code, cut, late>>
xferVars == <<stored, outcome>>
chipVars == <<chip, chipSpeed, target, flash>>
vars == <<argVars, hostVars, xferVars, chipVars, toChip, toHost, budget>>

-----------------------------------------------------------------------------
(* Command line *)

\* No BIN on the command line means all of them.
bin_in_args(b) == args = {} \/ b \in args

\* The bins a verb downloads.  The files given to --write are bins too.
Work ==
  CASE verb = "flash" -> {b \in Bins : Package[b].type_2 = 1 /\ bin_in_args(b)}
    [] verb = "write" -> args
    [] verb = "write_prog" -> {CHOOSE b \in Bins : Package[b].type_2 = 1}
    [] verb = "erase" -> {}

\* --baud before the loader, or after it with --late-baud.
EarlyBaud == baud # "slow" /\ ~late_baud
LateBaud  == baud # "slow" /\ late_baud

-----------------------------------------------------------------------------
(* Commands and frames *)

Cmd(name, speed, addr, len, eras) ==
  [cmd |-> name, speed |-> speed, addr |-> addr, len |-> len, eras |-> eras]

\* Mutant: the test of late_baud forgotten.
HandshakeIgnoresLate == Cmd("handshake", baud, 0, 0, 0)

Handshake == Cmd("handshake", IF EarlyBaud THEN baud ELSE "slow", 0, 0, 0)
SetBaud   == Cmd("setbaud", baud, 0, 0, 0)
Rst       == Cmd("rst", "slow", 0, 0, 0)

\* Mutant: an erase size that does not cover the flash.
EraseAllOneSector == Cmd("download", "slow", 0, 0, SectorSize)

\* The template of the download command: address 0, length 0, 0xFFFFFFFF.
EraseAll == Cmd("download", "slow", 0, 0, FlashSize)

\* Mutant: length \div 0x2000 + 1 sectors, one too many at a boundary.
DownloadErasesMore(b) ==
  Cmd("download", "slow", Package[b].addr, Package[b].len,
      SectorSize * (Package[b].len \div SectorSize + 1))

Download(b) ==
  Cmd("download", "slow", Package[b].addr, Package[b].len,
      eras_size(Package[b].len))

InTune == tty = chipSpeed

\* ws63_send_cmddef: write the whole frame.  The line has no flow control: what
\* a chip has no room for is lost.
Send(cmd) ==
  /\ tty # "closed"
  /\ toChip' = IF InTune /\ chip # "off" /\ Len(toChip) < LineCap
               THEN Append(toChip, cmd) ELSE toChip

\* The chip writes to the line.
Emit(what) == toHost' = IF InTune THEN toHost \o what ELSE toHost

Saturate(t, limit) == IF t > limit THEN t ELSE t + 1

-----------------------------------------------------------------------------
(* Host *)

Goto(l) == pc' = l /\ age' = 0

\* A verb returns v; main then puts the TTY back to 115200.
VerbReturns(v) == Goto("restore") /\ code' = v

HostOnly == UNCHANGED <<argVars, chipVars, budget>>

\* Stage 0 of verb_flash: no loaderboot in the package, or a BIN that is not
\* in it (0), ends the run before the chip is disturbed.
Stage0 ==
  /\ pc = "stage0"
  /\ \/ /\ verb = "flash"
        /\ \/ \A b \in Bins : Package[b].type_2 # 0
           \/ ~(args \subseteq Bins)
        /\ VerbReturns("fail")
     \/ /\ verb = "flash" => /\ \E b \in Bins : Package[b].type_2 = 0
                             /\ args \subseteq Bins
        /\ Goto("shake") /\ UNCHANGED code
  /\ UNCHANGED <<cur, left, tty, cut, late, xferVars, toChip, toHost>>
  /\ HostOnly

\* Mutant: the loop never looks at the time.
ShakeForever ==
  /\ pc = "shake"
  /\ Send(Handshake)
  /\ pc' = "shake_read"
  /\ UNCHANGED <<age, code, cur, left, tty, cut, late, xferVars, toHost>>
  /\ HostOnly

\* Handshake loop: send, then look at the age of the wait.
Shake ==
  /\ pc = "shake"
  /\ Send(Handshake)
  /\ \/ /\ age > ResetTimeout
        /\ VerbReturns("fail")
     \/ /\ age <= ResetTimeout
        /\ pc' = "shake_read"
        /\ UNCHANGED <<age, code>>
  /\ UNCHANGED <<cur, left, tty, cut, late, xferVars, toHost>>
  /\ HostOnly

\* One read() of the loop returns the first n messages that wait, or nothing.
\* The acknowledgement is recognised when the read holds all of it.
ShakeRead ==
  /\ pc = "shake_read"
  /\ \E n \in (IF toHost = <<>> THEN {0} ELSE 1..Len(toHost)) :
       /\ toHost' = SubSeq(toHost, n + 1, Len(toHost))
       /\ \/ /\ \E k \in 1..n : toHost[k] = "ack"
             /\ Goto(IF EarlyBaud THEN "early_open" ELSE "xfer")
          \/ /\ \A k \in 1..n : toHost[k] # "ack"
             /\ pc' = "shake"
             /\ UNCHANGED age
  /\ UNCHANGED <<cur, left, tty, code, cut, late, xferVars, toChip>>
  /\ HostOnly

\* The acknowledgement is split between two reads and never recognised.
ShakeReadSplit ==
  /\ pc = "shake_read"
  /\ toHost # <<>> /\ Head(toHost) = "ack"
  /\ budget.split > 0
  /\ budget' = [budget EXCEPT !.split = @ - 1]
  /\ toHost' = Tail(toHost)
  /\ pc' = "shake"
  /\ UNCHANGED <<cur, left, age, tty, code, cut, late, argVars, xferVars, chipVars, toChip>>

\* ymodem_xfer, of the loaderboot (cur = 0) and of the bins.  Both sides must
\* be at the same speed and the chip must be waiting for this kind of file.
NBlocks == IF cur = 0 THEN LoaderBlocks ELSE Package[cur].len
BlockOf(k) == k
Transfer(n) == INSTANCE FileTransfer WITH NBlocks <- n, ImageBlock <- BlockOf
XferSizes == {LoaderBlocks} \cup {Package[b].len : b \in Bins}

Receiving == InTune /\ chip = (IF cur = 0 THEN "rom_ymodem" ELSE "ymodem")

XferStore ==
  /\ pc = "xfer" /\ Receiving
  /\ \E n \in XferSizes : n = NBlocks /\ Transfer(n)!Store
  /\ flash' = IF cur = 0 THEN flash
              ELSE [flash EXCEPT ![target.addr + Len(stored)] = cur]
  /\ UNCHANGED <<argVars, hostVars, chip, chipSpeed, target, toChip, toHost,
                 budget>>

\* The end of a transfer as the host sees it.
XferEnds(result) ==
  /\ pc = "xfer"
  /\ \E n \in XferSizes : n = NBlocks /\ Transfer(n)!Report
  /\ outcome' = result
  /\ UNCHANGED <<argVars, pc, cur, left, age, tty, code, chipSpeed, target,
                 flash, toChip>>

\* The chip takes the file for complete: the loader starts and says so, or the
\* bin is done.
ChipCloses ==
  /\ Receiving /\ toChip = <<>>
  /\ \/ cur = 0 /\ chip' = "loader" /\ toHost' = <<"text", "frame">>
     \/ cur > 0 /\ chip' = "settling" /\ toHost' = <<>>

\* The host leaves, and the chip waits for the rest of the file.
ChipWaits == chip' = "midfile" /\ UNCHANGED toHost

XferDelivered ==
  /\ XferEnds("delivered")
  /\ ChipCloses
  /\ UNCHANGED <<cut, late, budget>>

\* A transfer returns an error < 0: the chip asks for no file, or, unless the run
\* is calm, a call or the line fails.
XferBreaks ==
  /\ XferEnds("unsure")
  /\ \/ ~Receiving /\ UNCHANGED <<chip, toHost>>
     \/ Receiving /\ ~calm /\ ChipWaits
  /\ UNCHANGED <<cut, late, budget>>

\* The file runs out and the transfer returns EXIT_FAILURE.
XferCut ==
  /\ XferEnds("unsure")
  /\ Receiving /\ ChipWaits
  /\ budget.cut > 0
  /\ budget' = [budget EXCEPT !.cut = @ - 1]
  /\ cut' = cut \cup {cur}
  /\ UNCHANGED late

\* The host has taken the answers to repeated blocks for others ("late" in
\* Ymodem) and returns EXIT_SUCCESS: the chip may lack a block, and it may have
\* closed the file or not.
XferLate ==
  /\ XferEnds("unsure")
  /\ ChipCloses \/ (Receiving /\ ChipWaits)
  /\ budget.late > 0
  /\ budget' = [budget EXCEPT !.late = @ - 1]
  /\ late' = late \cup {cur}
  /\ UNCHANGED cut

\* Mutant: the result of ymodem_xfer is not looked at.
XferReturnsAnyway ==
  /\ pc = "xfer"
  /\ outcome # "running"
  /\ Goto(IF cur = 0 THEN "boot_frame" ELSE "sleep")
  /\ UNCHANGED <<code, cur, left, tty, cut, late, xferVars, toChip, toHost>>
  /\ HostOnly

\* The callers only test ret < 0: EXIT_FAILURE goes on like EXIT_SUCCESS, and a
\* success is one whatever the chip has.
XferReturns ==
  /\ pc = "xfer"
  /\ outcome # "running"
  /\ \/ /\ outcome = "unsure" /\ cur \notin cut \cup late
        /\ VerbReturns("fail")
     \/ /\ outcome = "delivered" \/ cur \in cut \cup late
        /\ Goto(IF cur = 0 THEN "boot_frame" ELSE "sleep")
        /\ UNCHANGED code
  /\ UNCHANGED <<cur, left, tty, cut, late, xferVars, toChip, toHost>>
  /\ HostOnly

\* Mutant: no delay.
NoSleep ==
  /\ pc = "sleep"
  /\ Goto("next_bin")
  /\ UNCHANGED <<cur, left, tty, code, cut, late, xferVars, toChip, toHost>>
  /\ HostOnly

\* usleep(100000) after a bin.  In a calm run this is long enough for the chip to
\* settle, as the comment in the code has it.
Sleep ==
  /\ pc = "sleep"
  /\ calm => chip # "settling"
  /\ Goto("next_bin")
  /\ UNCHANGED <<cur, left, tty, code, cut, late, xferVars, toChip, toHost>>
  /\ HostOnly

\* uart_read_until_magic, whose result nobody looks at.
FrameWaits == {"boot_frame", "baud_ack", "baud_frame", "erase_frame", "dl_frame"}

AfterFrame ==
  CASE pc = "boot_frame" /\ verb = "erase" -> "erase"
    [] pc = "boot_frame" /\ verb # "erase" -> IF LateBaud THEN "setbaud"
                                                          ELSE "first_bin"
    [] pc = "baud_ack"    -> "baud_open"
    [] pc = "baud_frame"  -> "first_bin"
    [] pc = "erase_frame" -> "reset"
    [] pc = "dl_frame"    -> "xfer"

\* Entering ymodem_xfer starts a new transfer.
EnterXfer(l) ==
  IF l = "xfer" THEN stored' = <<>> /\ outcome' = "running"
                ELSE UNCHANGED xferVars

FrameRead ==
  /\ pc \in FrameWaits
  /\ tty # "closed"
  /\ toHost # <<>>
  /\ toHost' = Tail(toHost)
  /\ \/ /\ Head(toHost) \in {"frame", "ack"}
        /\ Goto(AfterFrame) /\ EnterXfer(AfterFrame)
     \/ /\ Head(toHost) \notin {"frame", "ack"}
        /\ age' = 0 /\ UNCHANGED <<pc, xferVars>>
  /\ UNCHANGED <<cur, left, tty, code, cut, late, toChip>>
  /\ HostOnly

\* Mutant: the command is sent again when its answer does not come.
FrameGivesUpRetries ==
  /\ pc \in FrameWaits
  /\ tty # "closed"
  /\ toHost = <<>> /\ age > FrameTimeout
  /\ Goto(IF pc = "dl_frame" THEN "next_bin" ELSE AfterFrame)
  /\ UNCHANGED <<cur, left, tty, code, cut, late, xferVars, toChip, toHost>>
  /\ HostOnly

\* Too long a silence.
FrameGivesUp ==
  /\ pc \in FrameWaits
  /\ tty # "closed"
  /\ toHost = <<>> /\ age > FrameTimeout
  /\ Goto(AfterFrame) /\ EnterXfer(AfterFrame)
  /\ UNCHANGED <<cur, left, tty, code, cut, late, toChip, toHost>>
  /\ HostOnly

SetBaudCmd ==
  /\ pc = "setbaud"
  /\ Send(SetBaud)
  /\ Goto("baud_ack")
  /\ UNCHANGED <<cur, left, tty, code, cut, late, xferVars, toHost>>
  /\ HostOnly

BaudOpens == {"early_open", "baud_open"}
AfterOpen == IF pc = "early_open" THEN "xfer" ELSE "baud_frame"

\* uart_open(&fd, NULL, arguments.baud); its result is not looked at either.
BaudOpen ==
  /\ pc \in BaudOpens
  /\ Goto(AfterOpen)
  /\ tty' = IF tty = "closed" THEN tty ELSE baud
  /\ UNCHANGED <<cur, left, code, cut, late, xferVars, toChip, toHost>>
  /\ HostOnly

FirstBin ==
  /\ pc = "first_bin"
  /\ Goto("next_bin")
  /\ left' = Work
  /\ UNCHANGED <<cur, tty, code, cut, late, xferVars, toChip, toHost>>
  /\ HostOnly

\* Mutant: the loop does not go on.
TakeBinAgain(b) == cur' = b /\ UNCHANGED left

TakeBin(b) == cur' = b /\ left' = left \ {b}

\* The loop over the bins, in the order of the table, or in the one the files
\* were named in: ask for the next download, or leave.
Follows(b) == verb # "write" => \A a \in left : b <= a

NextBin ==
  /\ pc = "next_bin"
  /\ \/ \E b \in left :
          /\ Follows(b) /\ TakeBin(b)
          /\ Send(Download(b))
          /\ Goto("dl_frame")
     \/ /\ left = {}
        /\ Goto("reset")
        /\ UNCHANGED <<cur, left, toChip>>
  /\ UNCHANGED <<tty, code, cut, late, xferVars, toHost>>
  /\ HostOnly

EraseCmd ==
  /\ pc = "erase"
  /\ Send(EraseAll)
  /\ Goto("erase_frame")
  /\ UNCHANGED <<cur, left, tty, code, cut, late, xferVars, toHost>>
  /\ HostOnly

\* ws63_poll_reset.  The loop test uses the time read before the last write, so
\* a turn that starts too late is the last one.  Whatever the function returns,
\* the verb returns 0.
PollReset ==
  /\ pc = "reset"
  /\ Send(Rst)
  /\ pc' = IF age < ResetTimeout THEN "reset_read" ELSE "reset_last"
  /\ UNCHANGED <<cur, left, age, tty, code, cut, late, xferVars, toHost>>
  /\ HostOnly

ResetRead ==
  /\ pc \in {"reset_read", "reset_last"}
  /\ toHost' = <<>>
  /\ LET announced == \E k \in DOMAIN toHost : toHost[k] = "reset" IN
       \/ /\ announced \/ pc = "reset_last"
          /\ VerbReturns("ok")
       \/ /\ ~announced /\ pc = "reset_read"
          /\ pc' = "reset"
          /\ UNCHANGED <<age, code>>
  /\ UNCHANGED <<cur, left, tty, cut, late, xferVars, toChip>>
  /\ HostOnly

\* main: uart_open(&fd, NULL, 115200), then return.
Restore ==
  /\ pc = "restore"
  /\ pc' = "exit"
  /\ tty' = IF tty = "closed" THEN tty ELSE "slow"
  /\ UNCHANGED <<cur, left, age, code, cut, late, xferVars, toChip, toHost>>
  /\ HostOnly

Sends == {"shake", "setbaud", "erase", "next_bin", "reset"}

Reads == {"shake_read", "reset_read", "reset_last"} \cup FrameWaits

\* An I/O call of the host fails; on a closed TTY each one does.  A failed
\* write or read ends the verb, except that a failed reset is only reported,
\* and nobody looks at the failures of uart_open and uart_read_until_magic.
\* A uart_open that fails in tcgetattr leaves the TTY as it is, one that fails
\* later closes it.
IoError ==
  /\ pc \in Sends \cup Reads \cup BaudOpens \cup {"stage0", "restore"}
  /\ pc = "next_bin" => left # {}
  /\ \/ tty = "closed" /\ UNCHANGED budget
     \/ /\ tty # "closed" /\ budget.io > 0
        /\ budget' = [budget EXCEPT !.io = @ - 1]
  /\ \/ /\ pc \in {"stage0", "shake", "setbaud", "erase", "next_bin",
                "shake_read"}
        /\ VerbReturns("fail") /\ UNCHANGED <<tty, xferVars>>
     \/ /\ pc \in BaudOpens
        /\ tty' \in {tty, "closed"}
        /\ Goto(AfterOpen) /\ UNCHANGED <<code, xferVars>>
     \/ /\ pc \in FrameWaits
        /\ Goto(AfterFrame) /\ EnterXfer(AfterFrame) /\ UNCHANGED <<tty, code>>
     \/ /\ pc \in {"reset", "reset_read", "reset_last"}
        /\ VerbReturns("ok") /\ UNCHANGED <<tty, xferVars>>
     \/ /\ pc = "restore"
        /\ tty' \in {tty, "closed"} /\ pc' = "exit"
        /\ UNCHANGED <<age, code, xferVars>>
  /\ UNCHANGED <<argVars, cur, left, cut, late, chipVars, toChip, toHost>>

HostStep ==
  \/ Stage0 \/ Shake \/ ShakeRead \/ XferDelivered \/ XferReturns \/ XferStore
  \/ XferBreaks
  \/ Sleep \/ FrameRead \/ FrameGivesUp \/ SetBaudCmd \/ BaudOpen \/ FirstBin
  \/ NextBin \/ EraseCmd \/ PollReset \/ ResetRead \/ Restore
  \/ (IoError /\ budget' = budget)

\* A second passes.  In a calm run it only passes in a wait for a frame that
\* nobody is about to send.
Timed == FrameWaits \cup {"shake", "shake_read", "reset", "reset_read",
                              "reset_last"}

Tick ==
  /\ pc \in Timed
  /\ calm => /\ pc \in FrameWaits /\ toHost = <<>> /\ toChip = <<>>
             /\ chip \notin {"switching", "switched"}
  /\ age' = Saturate(age, IF pc \in FrameWaits THEN FrameTimeout
                                               ELSE ResetTimeout)
  /\ age' # age
  /\ UNCHANGED <<argVars, pc, cur, left, tty, code, cut, late, xferVars, chipVars, toChip,
                 toHost, budget>>

-----------------------------------------------------------------------------
(* Chip and line: external to the repository *)

ChipOnly == UNCHANGED <<argVars, hostVars, xferVars, budget>>

\* The user resets the chip: its boot ROM listens at 115200.
PowerUp ==
  /\ chip = "off"
  /\ chip' = "rom"
  /\ UNCHANGED <<chipSpeed, target, flash, toChip, toHost>>
  /\ ChipOnly

\* A command arrives.  One that does not fit what the chip does is dropped.
Serve ==
  /\ toChip # <<>>
  /\ toChip' = Tail(toChip)
  /\ LET c == Head(toChip)
         fits == \/ chip = "rom" /\ c.cmd = "handshake"
                 \/ chip = "loader" /\ c.cmd # "handshake"
     IN \/ /\ chip = "rom" /\ c.cmd = "handshake"
           /\ Emit(<<"text", "ack">>)
           /\ chip' = "rom_ymodem" /\ chipSpeed' = c.speed
           /\ UNCHANGED <<target, flash>>
        \/ /\ chip = "loader" /\ c.cmd = "setbaud"
           /\ Emit(<<"frame">>)
           /\ chip' = "switching"
           /\ target' = c
           /\ UNCHANGED <<chipSpeed, flash>>
        \/ /\ chip = "loader" /\ c.cmd = "download"
           /\ Emit(<<"frame">>)
           /\ flash' = [x \in Cells |->
                          IF x \in Region(c.addr, c.eras) THEN Blank
                                                          ELSE flash[x]]
           /\ chip' = IF c.len = 0 THEN "loader" ELSE "ymodem"
           /\ target' = c
           /\ UNCHANGED chipSpeed
        \/ /\ chip = "loader" /\ c.cmd = "rst"
           /\ Emit(<<"reset">>)
           /\ chip' = "off" /\ chipSpeed' = "slow"
           /\ UNCHANGED <<target, flash>>
        \/ /\ ~fits
           /\ UNCHANGED <<chipVars, toHost>>
  /\ ChipOnly

\* After a setbaud the loader changes its speed, then says so.
Switch ==
  \/ /\ chip = "switching"
     /\ chip' = "switched" /\ chipSpeed' = target.speed
     /\ UNCHANGED <<target, flash, toChip, toHost>>
     /\ ChipOnly
  \/ /\ chip = "switched"
     /\ chip' = "loader"
     /\ Emit(<<"frame">>)
     /\ UNCHANGED <<chipSpeed, target, flash, toChip>>
     /\ ChipOnly

\* The loader has finished with a bin and listens again.
Settle ==
  /\ chip = "settling"
  /\ chip' = "loader"
  /\ UNCHANGED <<chipSpeed, target, flash, toChip, toHost>>
  /\ ChipOnly

\* The line loses a message.
Lose ==
  /\ budget.loss > 0
  /\ budget' = [budget EXCEPT !.loss = @ - 1]
  /\ \/ toChip # <<>> /\ toChip' = Tail(toChip) /\ UNCHANGED toHost
     \/ toHost # <<>> /\ toHost' = Tail(toHost) /\ UNCHANGED toChip
  /\ UNCHANGED <<argVars, hostVars, xferVars, chipVars>>

ChipStep == PowerUp \/ Serve \/ Switch \/ Settle

-----------------------------------------------------------------------------

Names == Bins \cup {0}      \* 0 is a name the package does not hold

Init ==
  /\ verb \in Verbs /\ late_baud \in BOOLEAN /\ baud \in Speeds
  /\ args \in CASE verb = "flash" -> SUBSET Names
                [] verb = "write" ->
                     SUBSET {b \in Bins : Package[b].len > 0} \ {{}}
                [] OTHER -> {{}}
  /\ pc = "stage0" /\ cur = 0 /\ age = 0 /\ tty = "slow" /\ code = "none"
  /\ left = {} /\ cut = {} /\ late = {}
  /\ stored = <<>> /\ outcome = "running"
  /\ chip = "off" /\ chipSpeed = "slow" /\ target = EraseAll
  /\ flash = [c \in Cells |-> Old]
  /\ toChip = <<>> /\ toHost = <<>>
  /\ calm \in Calms
  /\ budget = IF calm THEN [io |-> 0, loss |-> 0, split |-> 0, cut |-> 0,
                              late |-> 0]
              ELSE [io |-> MaxIo, loss |-> MaxLoss, split |-> MaxSplit,
                    cut |-> MaxCut, late |-> MaxLate]

Next == HostStep \/ Tick \/ ChipStep \/ XferCut \/ XferLate \/ IoError
          \/ ShakeReadSplit \/ Lose

Spec == Init /\ [][Next]_vars

\* The scheduler runs the host, each ymodem_xfer ends, and seconds pass.  Only in
\* a calm run does the user reset the chip and does the chip go on.  Faults are
\* never obliged to happen.
FairSpec ==
  /\ Spec
  /\ WF_vars(HostStep) /\ WF_vars(Tick)
  /\ WF_vars(calm /\ PowerUp) /\ WF_vars(calm /\ Serve)
  /\ WF_vars(calm /\ Switch) /\ WF_vars(calm /\ Settle)

-----------------------------------------------------------------------------
(* Properties *)

Commands ==
  {Handshake, SetBaud, Rst, EraseAll} \cup {Download(b) : b \in Bins}

TypeOK ==
  /\ verb \in Verbs /\ late_baud \in BOOLEAN /\ baud \in Speeds
  /\ args \subseteq (IF verb = "write" THEN Bins ELSE Names) /\ calm \in Calms
  /\ pc \in Sends \cup Reads \cup BaudOpens
             \cup {"stage0", "xfer", "sleep", "first_bin", "restore", "exit"}
  /\ cur \in Work \cup {0} /\ left \subseteq Work \ {cur}
  /\ pc \in {"dl_frame", "sleep"} => cur # 0
  /\ age \in Nat
  /\ tty \in Speeds \cup {"closed"}
  /\ code \in {"none", "ok", "fail"}
  /\ cut \subseteq Work \cup {0} /\ late \subseteq Work \cup {0}
  /\ stored \in Seq(Nat) /\ outcome \in {"running", "delivered", "unsure"}
  /\ chip \in {"off", "rom", "rom_ymodem", "loader", "switching", "switched",
               "ymodem", "settling", "midfile"}
  /\ chipSpeed \in Speeds /\ target \in Commands
  /\ DOMAIN flash = Cells
  /\ \A c \in Cells : flash[c] \in {Old, Blank} \cup Bins
  /\ toChip \in Seq(Commands) /\ Len(toChip) <= LineCap
  /\ toHost \in Seq({"text", "ack", "frame", "reset"})
  /\ budget \in [io : 0..MaxIo, loss : 0..MaxLoss, split : 0..MaxSplit,
                 cut : 0..MaxCut, late : 0..MaxLate]

Holds(b) == \A c \in Region(Package[b].addr, Package[b].len) : flash[c] = b

\* No transfer returned without an error < 0 that had not delivered its file.
AllTold == cut = {} /\ late = {}

\* What --flash marks in the table it prints, and the files of the other verbs.
Marked == IF verb = "flash"
          THEN {b \in Bins : Package[b].type_2 # 0 /\ bin_in_args(b)} ELSE Work

\* Marked, and of a type that --flash passes over.
Skipped(b) == verb = "flash" /\ Package[b].type_2 # 1

(***************************************************************************)
(* Exit status 0 of --flash, --write and --write-program means that the    *)
(* flash holds every bin that was asked for, whatever was lost on the line *)
(* and whichever I/O call failed: no later erase has wiped it, and nothing *)
(* was sent at the wrong speed.  A marked bin whose type is neither 0 nor  *)
(* 1 is not sent, and what was in its place is still there.  Excepted are  *)
(* the runs in which a transfer did not deliver its file and returned no   *)
(* error < 0.                                                              *)
(***************************************************************************)
FlashedOnSuccess ==
  code = "ok" /\ AllTold =>
    \A b \in Marked :
      IF Skipped(b) THEN \A c \in Sectors(b) : flash[c] = Old ELSE Holds(b)

(***************************************************************************)
(* Only --erase erases flash outside the sectors of the bins it downloads. *)
(***************************************************************************)
ErasesOnlyItsSectors ==
  verb # "erase" =>
    \A c \in Cells \ UNION {Sectors(b) : b \in Work} : flash[c] = Old

(***************************************************************************)
(* When the host starts a file that the chip is waiting for, both are at   *)
(* the same speed: with --baud before the loader, with --late-baud, and    *)
(* when an answer to either was lost or late, unless an I/O call failed.   *)
(***************************************************************************)
SpeedsAgree ==
  pc = "xfer" /\ chip \in {"rom_ymodem", "ymodem"} /\ (calm \/ budget.io = MaxIo) =>
    tty = chipSpeed

(***************************************************************************)
(* The chip is never told to download while it takes another file or waits *)
(* for the rest of one, unless a transfer that did not deliver its file    *)
(* returned no error < 0: then the next download does come too early.      *)
(***************************************************************************)
OneAtATime ==
  chip \in {"rom_ymodem", "ymodem", "midfile"} /\ AllTold =>
    \A k \in DOMAIN toChip : toChip[k].cmd # "download"

(***************************************************************************)
(* Exit status 0 of --erase means that the flash is erased.                *)
(***************************************************************************)
ErasedOnSuccess ==
  verb = "erase" /\ code = "ok" => \A c \in Cells : flash[c] = Blank

(***************************************************************************)
(* It does when the chip answers in time and nothing is lost.              *)
(***************************************************************************)
ErasedWhenCalm == calm => ErasedOnSuccess

(***************************************************************************)
(* A transfer that ends with an error makes the program exit with one.     *)
(***************************************************************************)
CutTransferFails == cut # {} => code # "ok"

(***************************************************************************)
(* The program ends whatever the chip and the line do outside of           *)
(* ymodem_xfer, a chip that never answers included, if every ymodem_xfer   *)
(* ends.  (That it may not end when a block is lost is shown for Ymodem.)  *)
(***************************************************************************)
Terminates == <>(pc = "exit")

(***************************************************************************)
(* With a chip and a user that answer in time and no failing call, a       *)
(* handshake that was begun ends in exit status 0 with the chip reset.     *)
(***************************************************************************)
Succeeds ==
  calm /\ pc = "shake" ~>
    (pc = "exit" /\ code = "ok" /\ chip \in {"off", "rom"})
=============================================================================
