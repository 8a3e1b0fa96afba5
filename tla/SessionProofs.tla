--------------------------- MODULE SessionProofs ---------------------------
(***************************************************************************)
(* Proofs about Session for every package, flash, timeout and number of    *)
(* faults.                                                                 *)
(***************************************************************************)
EXTENDS Session, SequenceTheorems, TLAPS

-----------------------------------------------------------------------------
(* Commands and bins *)

Names4 == {"handshake", "setbaud", "rst", "download"}

LEMMA CmdIs ==
  ASSUME NEW n, NEW s, NEW a, NEW l, NEW e
  PROVE  /\ Cmd(n, s, a, l, e).cmd = n /\ Cmd(n, s, a, l, e).speed = s
         /\ Cmd(n, s, a, l, e).addr = a /\ Cmd(n, s, a, l, e).len = l
         /\ Cmd(n, s, a, l, e).eras = e
BY DEF Cmd

LEMMA CmdNames ==
  /\ Handshake.cmd = "handshake" /\ SetBaud.cmd = "setbaud" /\ Rst.cmd = "rst"
  /\ EraseAll.cmd = "download" /\ \A b : Download(b).cmd = "download"
BY CmdIs DEF Handshake, SetBaud, Rst, EraseAll, Download

\* A command is known by its name.
LEMMA CommandNamed ==
  ASSUME NEW c \in Commands, baud \in Speeds
  PROVE  /\ c.cmd \in Names4 /\ c.speed \in Speeds
         /\ c.cmd = "handshake" => c = Handshake
         /\ c.cmd = "setbaud" => c = SetBaud
         /\ c.cmd = "rst" => c = Rst
         /\ c.cmd = "download" => c = EraseAll \/ \E b \in Bins : c = Download(b)
<1>1. c = Handshake \/ c = SetBaud \/ c = Rst \/ c = EraseAll
      \/ \E b \in Bins : c = Download(b)
  BY DEF Commands
<1>2. /\ Handshake.speed \in Speeds /\ SetBaud.speed \in Speeds
      /\ Rst.speed \in Speeds /\ EraseAll.speed \in Speeds
      /\ \A b : Download(b).speed \in Speeds
  BY CmdIs DEF Handshake, SetBaud, Rst, EraseAll, Download, Speeds
<1>3. QED
  BY <1>1, <1>2, CmdNames DEF Names4

\* How a transfer can end.
XferStops == XferDelivered \/ XferBreaks \/ XferCut \/ XferLate

LEMMA StopsDo ==
  ASSUME XferStops
  PROVE  /\ pc = "xfer" /\ outcome = "running"
         /\ UNCHANGED <<argVars, pc, cur, left, age, tty, code, chipSpeed, target,
                       flash, toChip, stored>>
         /\ outcome' \in {"delivered", "unsure"}
         /\ chip' \in {chip, "loader", "settling", "midfile"}
         /\ toHost' \in {toHost, <<>>, <<"text", "frame">>}
         /\ cut' \in {cut, cut \cup {cur}} /\ late' \in {late, late \cup {cur}}
         /\ \/ UNCHANGED <<budget, cut, late>>
            \/ budget.cut > 0 /\ budget' = [budget EXCEPT !.cut = @ - 1]
            \/ budget.late > 0 /\ budget' = [budget EXCEPT !.late = @ - 1]
BY DEF XferStops, XferDelivered, XferBreaks, XferCut, XferLate, XferEnds,
       ChipCloses,
       ChipWaits, Transfer!Report

\* What is written on the command line does not change.
LEMMA ArgsStay ==
  ASSUME [Next]_vars
  PROVE  /\ UNCHANGED <<verb, late_baud, baud, args, calm>>
         /\ Work' = Work /\ Commands' = Commands /\ Handshake' = Handshake
         /\ SetBaud' = SetBaud
<1>1. UNCHANGED argVars
  BY StopsDo DEF Next, HostStep, ChipStep, Stage0, Shake, ShakeRead,
         XferReturns, XferStore, XferStops, Sleep, FrameRead, FrameGivesUp,
         SetBaudCmd, BaudOpen, FirstBin, NextBin, EraseCmd, PollReset,
         ResetRead, Restore, IoError, Tick, PowerUp, Serve, Switch, Settle,
         ShakeReadSplit, Lose, HostOnly, ChipOnly, vars
<1>2. QED
  BY <1>1 DEF argVars, Work, bin_in_args, Commands, Handshake, SetBaud, EarlyBaud

LEMMA BinsAre ==
  /\ 0 \notin Bins /\ Bins \subseteq Nat \ {0}
  /\ \A b \in Bins : Package[b].addr \in Nat /\ Package[b].len \in Nat
<1> DEFINE S == [type_2 : Nat, addr : Nat, len : Nat]
<1>1. Package \in Seq(S)
  BY SessionAssumption
<1>2. Bins = 1..Len(Package) /\ Len(Package) \in Nat
  BY <1>1 DEF Bins
<1>3. \A b \in Bins : Package[b] \in S
  <2> HIDE DEF S
  <2>1. QED
    BY <1>1, <1>2, ElementOfSeq
<1>4. QED
  BY <1>2, <1>3

LEMMA WorkType ==
  ASSUME TypeOK
  PROVE  Work \subseteq Bins /\ 0 \notin Work /\ (verb = "erase" => Work = {})
<1>1. verb \in {"flash", "write", "erase", "write_prog"} /\ verb \in Verbs
  BY SessionAssumption DEF TypeOK
<1>2. CASE verb = "flash"
  BY <1>2, BinsAre DEF Work
<1>3. CASE verb = "write"
  BY <1>3, BinsAre DEF Work, TypeOK
<1>4. CASE verb = "erase"
  BY <1>4 DEF Work
<1>5. CASE verb = "write_prog"
  <2>1. \E b \in Bins : Package[b].type_2 = 1
    BY <1>1, <1>5, SessionAssumption
  <2>2. QED
    BY <1>5, <2>1, BinsAre DEF Work
<1>6. QED
  BY <1>1, <1>2, <1>3, <1>4, <1>5

-----------------------------------------------------------------------------
(* Types *)

Messages == {"text", "ack", "frame", "reset"}

LEMMA Take ==
  ASSUME NEW S, NEW q \in Seq(S), q # <<>>
  PROVE  /\ Tail(q) \in Seq(S) /\ Head(q) \in S /\ Len(Tail(q)) = Len(q) - 1
         /\ Len(q) \in Nat \ {0} /\ Head(q) = q[1]
         /\ \A k \in 1..(Len(q) - 1) : Tail(q)[k] = q[k + 1]
OBVIOUS

LEMMA Put ==
  ASSUME NEW S, NEW q \in Seq(S), NEW e \in S
  PROVE  /\ Append(q, e) \in Seq(S) /\ Len(Append(q, e)) = Len(q) + 1
         /\ Append(q, e)[Len(q) + 1] = e
         /\ \A k \in 1..Len(q) : Append(q, e)[k] = q[k]
OBVIOUS

LEMMA SendType ==
  ASSUME TypeOK, NEW c \in Commands, Send(c)
  PROVE  toChip' \in Seq(Commands) /\ Len(toChip') <= LineCap
<1>1. /\ toChip \in Seq(Commands) /\ Len(toChip) \in Nat /\ Len(toChip) <= LineCap
      /\ LineCap \in Nat
  BY SessionAssumption DEF TypeOK
<1>2. Append(toChip, c) \in Seq(Commands) /\ Len(Append(toChip, c)) = Len(toChip) + 1
  BY <1>1, Put
<1>3. QED
  BY <1>1, <1>2 DEF Send

LEMMA EmitType ==
  ASSUME TypeOK, NEW w \in Seq(Messages), Emit(w)
  PROVE  toHost' \in Seq(Messages)
<1>1. toHost \in Seq(Messages)
  BY DEF TypeOK, Messages
<1>2. toHost \o w \in Seq(Messages)
  BY <1>1, ConcatProperties
<1>3. QED
  BY <1>1, <1>2 DEF Emit

LEMMA CommandsAre ==
  /\ Handshake \in Commands /\ SetBaud \in Commands /\ Rst \in Commands
  /\ EraseAll \in Commands /\ \A b \in Bins : Download(b) \in Commands
BY DEF Commands

BudgetSet == [io : 0..MaxIo, loss : 0..MaxLoss, split : 0..MaxSplit,
              cut : 0..MaxCut, late : 0..MaxLate]

LEMMA SpendType ==
  ASSUME budget \in BudgetSet
  PROVE  /\ budget.io > 0 => [budget EXCEPT !.io = @ - 1] \in BudgetSet
         /\ budget.loss > 0 => [budget EXCEPT !.loss = @ - 1] \in BudgetSet
         /\ budget.split > 0 => [budget EXCEPT !.split = @ - 1] \in BudgetSet
         /\ budget.cut > 0 => [budget EXCEPT !.cut = @ - 1] \in BudgetSet
         /\ budget.late > 0 => [budget EXCEPT !.late = @ - 1] \in BudgetSet
<1>1. /\ budget.io \in 0..MaxIo /\ budget.loss \in 0..MaxLoss
      /\ budget.split \in 0..MaxSplit /\ budget.cut \in 0..MaxCut
      /\ budget.late \in 0..MaxLate
  BY DEF BudgetSet
<1>2. \A m \in Nat : \A n \in 0..m : n > 0 => n - 1 \in 0..m
  OBVIOUS
<1>3. /\ budget.io > 0 => budget.io - 1 \in 0..MaxIo
      /\ budget.loss > 0 => budget.loss - 1 \in 0..MaxLoss
      /\ budget.split > 0 => budget.split - 1 \in 0..MaxSplit
      /\ budget.cut > 0 => budget.cut - 1 \in 0..MaxCut
      /\ budget.late > 0 => budget.late - 1 \in 0..MaxLate
  BY <1>1, <1>2, SessionAssumption
<1>4. QED
  BY <1>1, <1>3 DEF BudgetSet

LEMMA InitType == Init => TypeOK
<1> SUFFICES ASSUME Init PROVE TypeOK
  OBVIOUS
<1>1. verb \in Verbs /\ late_baud \in BOOLEAN /\ baud \in Speeds /\ calm \in Calms
  BY DEF Init
<1>2. args \subseteq IF verb = "write" THEN Bins ELSE Names
  BY DEF Init, Names
<1>3. EraseAll \in Commands /\ "slow" \in Speeds
  BY CommandsAre DEF Speeds
<1>4. budget \in [io : 0..MaxIo, loss : 0..MaxLoss, split : 0..MaxSplit,
                  cut : 0..MaxCut, late : 0..MaxLate]
  BY SessionAssumption DEF Init
<1>5. flash = [c \in Cells |-> Old]
  BY DEF Init
<1>6. DOMAIN flash = Cells /\ \A c \in Cells : flash[c] \in {Old, Blank} \cup Bins
  BY <1>5
<1>7. toChip \in Seq(Commands) /\ Len(toChip) <= LineCap /\ toHost \in Seq(Messages)
      /\ stored \in Seq(Nat)
  BY SessionAssumption DEF Init
<1>8. QED
  BY <1>1, <1>2, <1>3, <1>4, <1>6, <1>7 DEF Init, TypeOK, Messages

\* A step of the host that leaves the chip alone keeps the types when what it
\* changes has them.
HostTypes ==
  /\ pc \in Sends \cup Reads \cup BaudOpens
             \cup {"stage0", "xfer", "sleep", "first_bin", "restore", "exit"}
  /\ cur \in Work \cup {0} /\ left \subseteq Work \ {cur}
  /\ pc \in {"dl_frame", "sleep"} => cur # 0
  /\ age \in Nat
  /\ tty \in Speeds \cup {"closed"}
  /\ code \in {"none", "ok", "fail"}
  /\ cut \subseteq Work \cup {0} /\ late \subseteq Work \cup {0}

XferTypes == stored \in Seq(Nat) /\ outcome \in {"running", "delivered", "unsure"}

ChipTypes ==
  /\ chip \in {"off", "rom", "rom_ymodem", "loader", "switching", "switched",
               "ymodem", "settling", "midfile"}
  /\ chipSpeed \in Speeds /\ target \in Commands
  /\ DOMAIN flash = Cells
  /\ \A c \in Cells : flash[c] \in {Old, Blank} \cup Bins

LineTypes ==
  /\ toChip \in Seq(Commands) /\ Len(toChip) <= LineCap
  /\ toHost \in Seq(Messages)

LEMMA TypeParts ==
  /\ TypeOK => /\ HostTypes /\ XferTypes /\ ChipTypes /\ LineTypes
               /\ budget \in BudgetSet
  /\ TypeOK /\ [Next]_vars /\ HostTypes' /\ XferTypes' /\ ChipTypes' /\ LineTypes'
       /\ budget' \in BudgetSet
     => TypeOK'
<1>1. TypeOK => /\ HostTypes /\ XferTypes /\ ChipTypes /\ LineTypes
                /\ budget \in BudgetSet
  BY DEF TypeOK, HostTypes, XferTypes, ChipTypes, LineTypes, BudgetSet, Messages
<1>2. ASSUME TypeOK, [Next]_vars, HostTypes', XferTypes', ChipTypes', LineTypes',
             budget' \in BudgetSet
      PROVE  TypeOK'
  <2>1. UNCHANGED <<verb, late_baud, baud, args, calm>>
    BY <1>2, ArgsStay
  <2>2. QED
    BY <1>2, <2>1 DEF TypeOK, HostTypes, XferTypes, ChipTypes, LineTypes, BudgetSet,
                      Messages
<1>3. QED
  BY <1>1, <1>2

(***************************************************************************)
(* Where the host can be.                                                  *)
(***************************************************************************)
Early == {"stage0", "shake", "shake_read", "early_open"}
Mid == {"boot_frame", "setbaud", "baud_ack", "baud_open", "baud_frame",
        "first_bin", "next_bin", "dl_frame", "sleep", "erase", "erase_frame"}
Late == {"reset", "reset_read", "reset_last"}
End == {"restore", "exit"}
BeforeBins == Early \cup {"boot_frame", "erase", "erase_frame", "setbaud",
                          "baud_ack", "baud_open", "baud_frame", "first_bin"}

Route ==
  /\ pc \in Early \cup Mid \cup Late \cup End \cup {"xfer"}
  /\ code = "none" <=> pc \notin End
  /\ pc \in BeforeBins => cur = 0
  /\ pc = "early_open" => EarlyBaud
  /\ pc \in {"erase", "erase_frame"} => verb = "erase"
  /\ pc \in {"setbaud", "baud_ack", "baud_open", "baud_frame"} => LateBaud
  /\ pc \in {"setbaud", "baud_ack", "baud_open", "baud_frame", "first_bin",
             "next_bin"} => verb # "erase"

LEMMA StageTypes ==
  ASSUME TypeOK, Route, [Next]_vars, Stage0 \/ Restore \/ Sleep \/ FirstBin \/ BaudOpen
                              \/ XferReturns
  PROVE  TypeOK'
<1>1. HostTypes /\ XferTypes /\ ChipTypes /\ LineTypes /\ budget \in BudgetSet
  BY TypeParts
<1>2. Work' = Work /\ Commands' = Commands /\ 0 \notin Work /\ baud \in Speeds
  BY ArgsStay, WorkType DEF TypeOK
<1>3. UNCHANGED <<xferVars, chipVars, toChip, toHost, budget, cur>>
  BY DEF Stage0, Restore, Sleep, FirstBin, BaudOpen, XferReturns, HostOnly
<1>4. XferTypes' /\ ChipTypes' /\ LineTypes'
  BY <1>1, <1>2, <1>3 DEF XferTypes, ChipTypes, LineTypes, xferVars, chipVars
<1>5. HostTypes'
  <2>1. CASE Stage0
    BY <1>1, <1>2, <2>1
       DEF Stage0, HostTypes, Goto, VerbReturns, Sends, Reads, FrameWaits,
           BaudOpens
  <2>2. CASE Restore
    BY <1>1, <1>2, <2>2 DEF Restore, HostTypes, Speeds
  <2>3. CASE Sleep \/ FirstBin
    <3>1. FirstBin => cur = 0
      BY DEF FirstBin, Route, BeforeBins
    <3>2. QED
      BY <1>1, <1>2, <1>3, <2>3, <3>1 DEF Sleep, FirstBin, HostTypes, Goto, Sends
  <2>4. CASE BaudOpen
    BY <1>1, <1>2, <2>4 DEF BaudOpen, HostTypes, Goto, AfterOpen, Reads, FrameWaits
  <2>5. CASE XferReturns
    BY <1>1, <1>2, <2>5
       DEF XferReturns, HostTypes, Goto, VerbReturns, Reads, FrameWaits
  <2>6. QED
    BY <2>1, <2>2, <2>3, <2>4, <2>5
<1>6. QED
  BY <1>1, <1>3, <1>4, <1>5, TypeParts

LEMMA SendTypes ==
  ASSUME TypeOK, Route, [Next]_vars,
         Shake \/ SetBaudCmd \/ NextBin \/ EraseCmd \/ PollReset
  PROVE  TypeOK'
<1>1. HostTypes /\ XferTypes /\ ChipTypes /\ LineTypes /\ budget \in BudgetSet
  BY TypeParts
<1>2. Work' = Work /\ Commands' = Commands /\ 0 \notin Work /\ Work \subseteq Bins
  BY ArgsStay, WorkType
<1>3. UNCHANGED <<xferVars, chipVars, toHost, budget, tty, cut, late>>
  BY DEF Shake, SetBaudCmd, NextBin, EraseCmd, PollReset, HostOnly
<1>4. XferTypes' /\ ChipTypes'
  BY <1>1, <1>2, <1>3 DEF XferTypes, ChipTypes, xferVars, chipVars
<1>5. toChip' = toChip \/ \E c \in Commands : Send(c)
  BY <1>1, <1>2, CommandsAre
     DEF Shake, SetBaudCmd, NextBin, EraseCmd, PollReset, HostTypes
<1>6. LineTypes'
  BY <1>1, <1>2, <1>3, <1>5, SendType DEF LineTypes
<1>7. HostTypes'
  <2>1. CASE Shake
    BY <1>1, <1>2, <2>1 DEF Shake, HostTypes, Goto, VerbReturns, Reads
  <2>2. CASE NextBin
    BY <1>1, <1>2, <2>2
       DEF NextBin, TakeBin, HostTypes, Goto, Sends, Reads, FrameWaits
  <2>3. CASE SetBaudCmd \/ EraseCmd
    BY <1>1, <1>2, <2>3 DEF SetBaudCmd, EraseCmd, HostTypes, Goto, Reads, FrameWaits
  <2>4. CASE PollReset
    BY <1>1, <1>2, <2>4 DEF PollReset, HostTypes, Reads
  <2>5. QED
    BY <2>1, <2>2, <2>3, <2>4
<1>8. QED
  BY <1>1, <1>3, <1>4, <1>6, <1>7, TypeParts

LEMMA ReadTypes ==
  ASSUME TypeOK, Route, [Next]_vars,
         ShakeRead \/ ShakeReadSplit \/ FrameRead \/ FrameGivesUp \/ ResetRead
  PROVE  TypeOK'
<1>1. HostTypes /\ XferTypes /\ ChipTypes /\ LineTypes /\ budget \in BudgetSet
  BY TypeParts
<1>2. Work' = Work /\ Commands' = Commands /\ 0 \notin Work
  BY ArgsStay, WorkType
<1>3. UNCHANGED <<chipVars, toChip, cur, left, tty, cut, late>>
  BY DEF ShakeRead, ShakeReadSplit, FrameRead, FrameGivesUp, ResetRead, HostOnly
<1>4. ChipTypes' /\ toChip' \in Seq(Commands) /\ Len(toChip') <= LineCap
  BY <1>1, <1>2, <1>3 DEF ChipTypes, LineTypes, chipVars
<1>5. XferTypes'
  <2>1. UNCHANGED xferVars \/ (stored' = <<>> /\ outcome' = "running")
    BY DEF ShakeRead, ShakeReadSplit, FrameRead, FrameGivesUp, ResetRead, EnterXfer
  <2>2. <<>> \in Seq(Nat)
    OBVIOUS
  <2>3. QED
    BY <1>1, <2>1, <2>2 DEF XferTypes, xferVars
<1>6. toHost' \in Seq(Messages)
  <2>1. toHost \in Seq(Messages) /\ <<>> \in Seq(Messages)
    BY <1>1 DEF LineTypes
  <2>2. CASE ShakeRead
    BY <2>1, <2>2, SubSeqProperties DEF ShakeRead
  <2>3. CASE ShakeReadSplit \/ FrameRead
    BY <2>1, <2>3, Take DEF ShakeReadSplit, FrameRead
  <2>4. CASE FrameGivesUp \/ ResetRead
    BY <2>1, <2>4 DEF FrameGivesUp, ResetRead
  <2>5. QED
    BY <2>2, <2>3, <2>4
<1>7. budget' \in BudgetSet
  BY <1>1, SpendType DEF ShakeRead, ShakeReadSplit, FrameRead, FrameGivesUp,
                         ResetRead, HostOnly
<1>8. HostTypes'
  <2>1. CASE ShakeRead \/ ShakeReadSplit
    BY <1>1, <1>2, <1>3, <2>1
       DEF ShakeRead, ShakeReadSplit, HostTypes, Goto, Sends, BaudOpens
  <2>2. CASE FrameRead \/ FrameGivesUp
    <3>1. AfterFrame \in {"erase", "setbaud", "first_bin", "baud_open", "reset", "xfer"}
      BY <2>2 DEF FrameRead, FrameGivesUp, FrameWaits, AfterFrame
    <3>2. \/ pc' = pc /\ age' = 0 /\ code' = code
          \/ pc' = AfterFrame /\ age' = 0 /\ code' = code
      BY <2>2 DEF FrameRead, FrameGivesUp, Goto
    <3>3. QED
      BY <1>1, <1>2, <1>3, <3>1, <3>2 DEF HostTypes, Sends, BaudOpens
  <2>3. CASE ResetRead
    BY <1>1, <1>2, <1>3, <2>3 DEF ResetRead, HostTypes, VerbReturns, Goto, Sends
  <2>4. QED
    BY <2>1, <2>2, <2>3
<1>9. QED
  BY <1>1, <1>2, <1>4, <1>5, <1>6, <1>7, <1>8, TypeParts DEF LineTypes

LEMMA XferTypesStay ==
  ASSUME TypeOK, [Next]_vars, XferStore \/ XferStops
  PROVE  TypeOK'
<1>1. HostTypes /\ XferTypes /\ ChipTypes /\ LineTypes /\ budget \in BudgetSet
  BY TypeParts
<1>2. Work' = Work /\ Commands' = Commands /\ 0 \notin Work /\ Work \subseteq Bins
  BY ArgsStay, WorkType
<1>3. /\ UNCHANGED <<pc, cur, left, age, tty, code, chipSpeed, target, toChip>>
      /\ cut' \in {cut, cut \cup {cur}} /\ late' \in {late, late \cup {cur}}
  BY StopsDo DEF XferStore, XferStops, hostVars
<1>4. HostTypes'
  BY <1>1, <1>2, <1>3 DEF HostTypes
<1>5. XferTypes'
  <2>1. stored \in Seq(Nat) /\ Len(stored) + 1 \in Nat
    BY <1>1 DEF XferTypes
  <2>2. Append(stored, Len(stored) + 1) \in Seq(Nat)
    BY <2>1, Put
  <2>3. \/ UNCHANGED outcome /\ stored' = Append(stored, Len(stored) + 1)
        \/ UNCHANGED stored /\ outcome' \in {"delivered", "unsure"}
    BY StopsDo DEF XferStore, XferStops, Transfer!Store, BlockOf
  <2>4. QED
    BY <1>1, <2>1, <2>2, <2>3 DEF XferTypes
<1>6. ChipTypes'
  <2>1. chip' \in {chip, "loader", "settling", "midfile"}
    BY StopsDo DEF XferStore, XferStops
  <2>2. DOMAIN flash' = Cells /\ \A c \in Cells : flash'[c] \in {Old, Blank} \cup Bins
    <3>1. flash' = flash \/ flash' = [flash EXCEPT ![target.addr + Len(stored)] = cur]
      BY StopsDo DEF XferStore, XferStops
    <3>2. flash' # flash => cur \in Bins
      BY <1>1, <1>2, StopsDo DEF XferStore, XferStops, HostTypes
    <3>3. QED
      BY <1>1, <3>1, <3>2 DEF ChipTypes
  <2>3. QED
    BY <1>1, <1>2, <1>3, <2>1, <2>2 DEF ChipTypes
<1>7. LineTypes'
  <2>1. toHost' \in {toHost, <<>>, <<"text", "frame">>}
    BY StopsDo DEF XferStore, XferStops
  <2>2. <<>> \in Seq(Messages) /\ <<"text", "frame">> \in Seq(Messages)
    BY DEF Messages
  <2>3. QED
    BY <1>1, <1>2, <1>3, <2>1, <2>2 DEF LineTypes
<1>8. budget' \in BudgetSet
  BY <1>1, SpendType, StopsDo DEF XferStore, XferStops
<1>9. QED
  BY <1>4, <1>5, <1>6, <1>7, <1>8, TypeParts

LEMMA IoTypes ==
  ASSUME TypeOK, Route, [Next]_vars, IoError
  PROVE  TypeOK'
<1>1. HostTypes /\ XferTypes /\ ChipTypes /\ LineTypes /\ budget \in BudgetSet
  BY TypeParts
<1>2. Work' = Work /\ Commands' = Commands /\ 0 \notin Work /\ Work \subseteq Bins
  BY ArgsStay, WorkType
<1>3. UNCHANGED <<chipVars, toChip, toHost, cur, left, cut, late>>
  BY DEF IoError
<1>4. ChipTypes' /\ LineTypes'
  BY <1>1, <1>2, <1>3 DEF ChipTypes, LineTypes, chipVars
<1>5. XferTypes'
  <2>1. UNCHANGED xferVars \/ (stored' = <<>> /\ outcome' = "running")
    BY DEF IoError, EnterXfer
  <2>2. <<>> \in Seq(Nat)
    OBVIOUS
  <2>3. QED
    BY <1>1, <2>1, <2>2 DEF XferTypes, xferVars
<1>6. budget' \in BudgetSet
  BY <1>1, SpendType DEF IoError
<1>7. HostTypes'
  <2>1. pc \in FrameWaits =>
          AfterFrame \in {"erase", "setbaud", "first_bin", "baud_open", "reset", "xfer"}
    BY DEF FrameWaits, AfterFrame
  <2>2. \/ pc' \in {"restore", "exit", AfterOpen}
        \/ pc \in FrameWaits /\ pc' = AfterFrame
    BY DEF IoError, Goto, VerbReturns
  <2>3. AfterOpen \in {"xfer", "baud_frame"}
    BY DEF AfterOpen
  <2>4. /\ age' \in {age, 0} /\ tty' \in {tty, "closed"}
        /\ code' \in {code, "fail", "ok"}
    BY DEF IoError, Goto, VerbReturns
  <2>5. pc' \in {"restore", "exit", "xfer", "baud_frame", "erase", "setbaud",
                 "first_bin", "baud_open", "reset"}
    BY <2>1, <2>2, <2>3
  <2>6. QED
    BY <1>1, <1>2, <1>3, <2>4, <2>5
       DEF HostTypes, Sends, Reads, FrameWaits, BaudOpens
<1>8. QED
  BY <1>4, <1>5, <1>6, <1>7, TypeParts

LEMMA LineStepTypes ==
  ASSUME TypeOK, [Next]_vars, Tick \/ Lose \/ PowerUp \/ Switch \/ Settle
  PROVE  TypeOK'
<1>1. HostTypes /\ XferTypes /\ ChipTypes /\ LineTypes /\ budget \in BudgetSet
  BY TypeParts
<1>2. Work' = Work /\ Commands' = Commands /\ baud \in Speeds
  BY ArgsStay DEF TypeOK
<1>3. UNCHANGED <<pc, cur, left, tty, code, cut, late, stored, outcome>>
  BY DEF Tick, Lose, PowerUp, Switch, Settle, ChipOnly, hostVars, xferVars
<1>4. age' \in Nat
  BY <1>1, SessionAssumption
     DEF Tick, Lose, PowerUp, Switch, Settle, ChipOnly, hostVars, Saturate,
         HostTypes
<1>5. HostTypes' /\ XferTypes'
  BY <1>1, <1>2, <1>3, <1>4 DEF HostTypes, XferTypes
<1>6. ChipTypes'
  <2>1. target.speed \in Speeds
    BY <1>1, <1>2, CommandNamed DEF ChipTypes
  <2>2. QED
    BY <1>1, <1>2, <2>1
       DEF Tick, Lose, PowerUp, Switch, Settle, chipVars, ChipTypes
<1>7. toChip' \in Seq(Commands) /\ Len(toChip') <= LineCap
  <2>1. toChip \in Seq(Commands) /\ Len(toChip) <= LineCap
    BY <1>1 DEF LineTypes
  <2>2. toChip' = toChip \/ (toChip # <<>> /\ toChip' = Tail(toChip))
    BY DEF Tick, Lose, PowerUp, Switch, Settle
  <2>3. CASE toChip' = toChip
    BY <2>1, <2>3
  <2>4. CASE toChip # <<>> /\ toChip' = Tail(toChip)
    <3>1. Tail(toChip) \in Seq(Commands) /\ Len(Tail(toChip)) = Len(toChip) - 1
      BY <2>1, <2>4, Take
    <3>2. Len(toChip) \in Nat /\ LineCap \in Nat
      BY <2>1, SessionAssumption
    <3>3. QED
      BY <2>1, <2>4, <3>1, <3>2
  <2>5. QED
    BY <2>2, <2>3, <2>4
<1>8. toHost' \in Seq(Messages)
  <2>1. toHost \in Seq(Messages) /\ <<"frame">> \in Seq(Messages)
    BY <1>1 DEF LineTypes, Messages
  <2>2. \/ toHost' = toHost \/ (toHost # <<>> /\ toHost' = Tail(toHost))
        \/ Emit(<<"frame">>)
    BY DEF Tick, Lose, PowerUp, Switch, Settle
  <2>3. QED
    BY <2>1, <2>2, Take, EmitType
<1>9. budget' \in BudgetSet
  BY <1>1, SpendType DEF Tick, Lose, PowerUp, Switch, Settle, ChipOnly
<1>10. QED
  BY <1>2, <1>5, <1>6, <1>7, <1>8, <1>9, TypeParts DEF LineTypes

LEMMA ServeTypes ==
  ASSUME TypeOK, [Next]_vars, Serve
  PROVE  TypeOK'
<1>1. HostTypes /\ XferTypes /\ ChipTypes /\ LineTypes /\ budget \in BudgetSet
  BY TypeParts
<1>2. Work' = Work /\ Commands' = Commands /\ baud \in Speeds
  BY ArgsStay DEF TypeOK
<1>3. HostTypes' /\ XferTypes' /\ budget' \in BudgetSet
  BY <1>1, <1>2 DEF Serve, ChipOnly, hostVars, xferVars, HostTypes, XferTypes
<1>4. toChip \in Seq(Commands) /\ toChip # <<>> /\ Len(toChip) <= LineCap
  BY <1>1 DEF LineTypes, Serve
<1>5. /\ Head(toChip) \in Commands /\ Tail(toChip) \in Seq(Commands)
      /\ Len(Tail(toChip)) <= LineCap
  BY <1>4, Take, SessionAssumption
<1>6. toHost' \in Seq(Messages)
  <2>1. /\ <<"text", "ack">> \in Seq(Messages) /\ <<"frame">> \in Seq(Messages)
        /\ <<"reset">> \in Seq(Messages)
    BY DEF Messages
  <2>2. \/ toHost' = toHost \/ Emit(<<"text", "ack">>) \/ Emit(<<"frame">>)
        \/ Emit(<<"reset">>)
    BY DEF Serve
  <2>3. QED
    BY <1>1, <2>1, <2>2, EmitType DEF LineTypes
<1>7. ChipTypes'
  <2>1. Head(toChip).speed \in Speeds
    BY <1>2, <1>5, CommandNamed
  <2>2. DOMAIN flash' = Cells /\ \A c \in Cells : flash'[c] \in {Old, Blank} \cup Bins
    BY <1>1 DEF Serve, chipVars, ChipTypes
  <2>3. /\ chip' \in {chip, "rom_ymodem", "switching", "loader", "ymodem", "off"}
        /\ chipSpeed' \in {chipSpeed, Head(toChip).speed, "slow"}
        /\ target' \in {target, Head(toChip)}
    BY DEF Serve, chipVars
  <2>4. QED
    BY <1>1, <1>2, <1>5, <2>1, <2>2, <2>3 DEF ChipTypes, Speeds
<1>8. QED
  BY <1>2, <1>3, <1>5, <1>6, <1>7, TypeParts DEF LineTypes, Serve

\* Where a step of the host takes it.
LEMMA RouteStays ==
  ASSUME TypeOK, Route, [Next]_vars
  PROVE  Route'
<1>1. UNCHANGED <<verb, late_baud, baud>>
  BY ArgsStay
<1>2. EarlyBaud' = EarlyBaud /\ LateBaud' = LateBaud
  BY <1>1 DEF EarlyBaud, LateBaud
<1>3. ASSUME UNCHANGED <<pc, code, cur>> PROVE Route'
  BY <1>1, <1>2, <1>3 DEF Route
<1>4. ASSUME pc' = "restore", code' \in {"ok", "fail"} PROVE Route'
  BY <1>4 DEF Route, Early, Mid, Late, End, BeforeBins
<1>5. ASSUME UNCHANGED <<code, cur>>, pc \in FrameWaits, pc' = AfterFrame
      PROVE  Route'
  BY <1>1, <1>2, <1>5
     DEF Route, AfterFrame, FrameWaits, Early, Mid, Late, End, BeforeBins
<1>6. ASSUME UNCHANGED <<code, cur>>, pc \in BaudOpens, pc' = AfterOpen
      PROVE  Route'
  BY <1>1, <1>2, <1>6
     DEF Route, AfterOpen, BaudOpens, Early, Mid, Late, End, BeforeBins
<1>7. CASE Stage0 \/ Shake \/ ShakeRead \/ ShakeReadSplit
  BY <1>1, <1>2, <1>4, <1>7
     DEF Stage0, Shake, ShakeRead, ShakeReadSplit, Goto, VerbReturns, Route, Early,
         Mid, Late, End, BeforeBins
<1>8. CASE XferReturns
  BY <1>1, <1>2, <1>4, <1>8
     DEF XferReturns, Goto, VerbReturns, Route, Early, Mid, Late, End, BeforeBins
<1>9. CASE Sleep \/ SetBaudCmd \/ FirstBin \/ NextBin \/ EraseCmd
  <2>1. pc = "sleep" => verb # "erase"
    BY WorkType DEF TypeOK
  <2>2. QED
    BY <1>1, <1>2, <1>9, <2>1
       DEF Sleep, SetBaudCmd, FirstBin, NextBin, EraseCmd, Goto, Route, Early, Mid,
           Late, End, BeforeBins
<1>10. CASE PollReset \/ ResetRead \/ Restore
  BY <1>1, <1>2, <1>4, <1>10
     DEF PollReset, ResetRead, Restore, Goto, VerbReturns, Route, Early, Mid, Late,
         End, BeforeBins
<1>11. CASE FrameRead \/ FrameGivesUp
  BY <1>3, <1>5, <1>11 DEF FrameRead, FrameGivesUp, Goto
<1>12. CASE BaudOpen
  BY <1>6, <1>12 DEF BaudOpen, Goto
<1>13. CASE IoError
  <2>1. cur' = cur
    BY <1>13 DEF IoError
  <2>2. \/ pc' = "restore" /\ code' \in {"ok", "fail"}
        \/ pc \in BaudOpens /\ pc' = AfterOpen /\ code' = code
        \/ pc \in FrameWaits /\ pc' = AfterFrame /\ code' = code
        \/ pc = "restore" /\ pc' = "exit" /\ code' = code
    BY <1>13 DEF IoError, Goto, VerbReturns
  <2>3. ASSUME pc = "restore", pc' = "exit", code' = code PROVE Route'
    BY <2>1, <2>3 DEF Route, Early, Mid, Late, End, BeforeBins
  <2>4. QED
    BY <1>4, <1>5, <1>6, <2>1, <2>2, <2>3
<1>14. CASE \/ XferStore \/ XferStops \/ Tick \/ Lose
            \/ PowerUp \/ Serve \/ Switch \/ Settle \/ UNCHANGED vars
  BY <1>3, <1>14, StopsDo
     DEF XferStore, XferStops, Tick, Lose, PowerUp, Serve, Switch, Settle,
         ChipOnly, hostVars, vars
<1>15. QED
  BY <1>7, <1>8, <1>9, <1>10, <1>11, <1>12, <1>13, <1>14
     DEF Next, HostStep, ChipStep, XferStops

LEMMA TypeStays ==
  ASSUME TypeOK, Route, [Next]_vars
  PROVE  TypeOK'
<1>1. CASE UNCHANGED vars
  <2>1. HostTypes' /\ XferTypes' /\ ChipTypes' /\ LineTypes' /\ budget' \in BudgetSet
    BY <1>1, TypeParts, ArgsStay
       DEF vars, hostVars, xferVars, chipVars, HostTypes, XferTypes, ChipTypes,
           LineTypes
  <2>2. QED
    BY <2>1, TypeParts
<1>2. QED
  BY <1>1, StageTypes, SendTypes, ReadTypes, XferTypesStay, IoTypes, LineStepTypes,
     ServeTypes DEF Next, HostStep, ChipStep, XferStops

LEMMA InitRoute == Init => Route
BY DEF Init, Route, Early, Mid, Late, End, BeforeBins

(***************************************************************************)
(* Every state of a run is well-typed, for every package, flash, timeout   *)
(* and number of faults: the bin the loop is at is one the verb downloads  *)
(* and is not met again, what the chip has accepted and what is under way  *)
(* to it are commands the host can build, the chip holds no more of them   *)
(* than it has room for, and no fault happens that the budget does not     *)
(* have.                                                                   *)
(***************************************************************************)
THEOREM TypeCorrect == Spec => []TypeOK
<1>1. Init => TypeOK /\ Route
  BY InitType, InitRoute
<1>2. TypeOK /\ Route /\ [Next]_vars => TypeOK' /\ Route'
  BY TypeStays, RouteStays
<1>3. QED
  BY <1>1, <1>2, PTL DEF Spec

(***************************************************************************)
(* What the chip can be doing, and what can be under way to it, where the  *)
(* host is.                                                                *)
(***************************************************************************)
InBoot == pc \in Early \/ (pc = "xfer" /\ cur = 0)
InLoader == pc \in Mid \/ (pc = "xfer" /\ cur # 0)
BootChip == {"off", "rom", "rom_ymodem"}
LoaderChip == {"loader", "switching", "switched", "ymodem", "settling", "midfile"}

\* The chip does not take a file, and has been handed to the loader.
Listens == LoaderChip \ {"ymodem"}

ChipFollows ==
  /\ pc \in Early => chip \in BootChip
  /\ pc = "xfer" /\ cur = 0 =>
       /\ outcome = "running" => chip \in BootChip
       /\ outcome = "delivered" => chip = "loader"
  /\ pc = "xfer" /\ cur # 0 /\ outcome = "delivered" =>
       chip \in {"loader", "settling"}
  /\ InLoader => chip \in LoaderChip
  /\ chip = "ymodem" =>
       /\ pc \in {"dl_frame", "xfer"} \/ code = "fail"
       /\ cur # 0 /\ target = Download(cur)
  /\ pc \in Late \/ code = "ok" => chip # "rom_ymodem"
  /\ chip = "switching" => target = SetBaud

Waiting == {toChip[k] : k \in 1..Len(toChip)}
NoDownload == \A c \in Waiting : c.cmd # "download"

\* A command that can be under way.
Fits(c) ==
  /\ c.cmd = "handshake" => InBoot \/ code = "fail" \/ chip = "midfile"
  /\ c.cmd = "setbaud" => ~InBoot
  /\ c.cmd = "rst" => pc \in Late \cup End
  /\ c.cmd = "download" =>
       /\ chip \in Listens
       /\ \/ pc \in {"dl_frame", "xfer"} /\ cur # 0
          \/ code = "fail"
          \/ verb = "erase" /\ pc \in {"erase_frame"} \cup Late \cup End
       /\ IF verb = "erase" THEN c = EraseAll ELSE cur # 0 /\ c = Download(cur)

\* There is one download at most, and no reset before it.
Lone ==
  \A k \in 1..Len(toChip) : toChip[k].cmd = "download" =>
    \A j \in 1..Len(toChip) :
      /\ j # k => toChip[j].cmd # "download"
      /\ j < k => toChip[j].cmd # "rst"

(***************************************************************************)
(* The transfers that went on although the file may not have arrived.      *)
(***************************************************************************)
Untold == cut \cup late

CutFollows ==
  /\ cut # {} => chip = "midfile"
  /\ Untold \cap left = {}
  /\ pc \in Early => Untold = {} /\ outcome = "running"
  /\ pc \in BeforeBins \/ (pc = "xfer" /\ cur = 0) => Untold \subseteq {0}
  /\ pc = "dl_frame" => cur \notin Untold
  /\ pc = "xfer" /\ outcome # "unsure" => cur \notin Untold
  /\ pc = "xfer" /\ cur \in Untold =>
       \/ chip = "midfile" /\ NoDownload
       \/ /\ chip = "loader" \/ (cur # 0 /\ chip = "settling")
          /\ toChip = <<>>
  /\ chip = "midfile" /\ Untold = {} =>
       /\ code = "fail" \/ (pc = "xfer" /\ outcome = "unsure")
       /\ NoDownload

Place ==
  /\ TypeOK /\ Route /\ ChipFollows /\ CutFollows /\ Lone
  /\ \A c \in Waiting : Fits(c)
  /\ pc = "xfer" /\ outcome = "delivered" => toChip = <<>>

LEMMA WaitingType == ASSUME TypeOK PROVE Waiting \subseteq Commands
<1>1. toChip \in Seq(Commands)
  BY DEF TypeOK
<1>2. QED
  BY <1>1, ElementOfSeq DEF Waiting

\* Nothing new is under way.
LEMMA LineKeeps ==
  ASSUME TypeOK, Lone,
         toChip' = toChip \/ (toChip # <<>> /\ toChip' = Tail(toChip))
  PROVE  Waiting' \subseteq Waiting /\ Lone'
<1>1. toChip \in Seq(Commands) /\ Len(toChip) \in Nat
  BY DEF TypeOK
<1>2. CASE toChip' = toChip
  BY <1>2 DEF Waiting, Lone
<1>3. CASE toChip # <<>> /\ toChip' = Tail(toChip)
  <2>1. /\ Len(toChip') = Len(toChip) - 1
        /\ \A k \in 1..Len(toChip') : toChip'[k] = toChip[k + 1]
    BY <1>1, <1>3, Take
  <2>2. \A k \in 1..Len(toChip') : k + 1 \in 1..Len(toChip)
    BY <1>1, <2>1
  <2>3. Waiting' \subseteq Waiting
    BY <2>1, <2>2 DEF Waiting
  <2>4. Lone'
    <3> SUFFICES ASSUME NEW k \in 1..Len(toChip'), toChip'[k].cmd = "download",
                        NEW j \in 1..Len(toChip')
                 PROVE  /\ j # k => toChip'[j].cmd # "download"
                        /\ j < k => toChip'[j].cmd # "rst"
      BY DEF Lone
    <3>1. k + 1 \in 1..Len(toChip) /\ j + 1 \in 1..Len(toChip)
      BY <2>2
    <3>2. (j # k => j + 1 # k + 1) /\ (j < k => j + 1 < k + 1)
      BY <1>1, <2>1
    <3>3. QED
      BY <2>1, <3>1, <3>2 DEF Lone
  <2>5. QED
    BY <2>3, <2>4
<1>4. QED
  BY <1>2, <1>3

\* What stays behind the command that the chip takes.
LEMMA Behind ==
  ASSUME TypeOK, Lone, toChip # <<>>, toChip' = Tail(toChip)
  PROVE  /\ Head(toChip) \in Waiting /\ Head(toChip) \in Commands
         /\ Head(toChip).cmd \in {"download", "rst"} => NoDownload'
<1>1. toChip \in Seq(Commands) /\ Len(toChip) \in Nat \ {0} /\ Head(toChip) = toChip[1]
  BY DEF TypeOK
<1>2. /\ Len(toChip') = Len(toChip) - 1
      /\ \A k \in 1..Len(toChip') : toChip'[k] = toChip[k + 1]
  BY <1>1, Take
<1>3. Head(toChip) \in Waiting /\ Head(toChip) \in Commands
  BY <1>1, WaitingType DEF Waiting
<1>4. ASSUME Head(toChip).cmd \in {"download", "rst"}, NEW k \in 1..Len(toChip')
      PROVE  toChip'[k].cmd # "download"
  <2>1. /\ k + 1 \in 1..Len(toChip) /\ 1 \in 1..Len(toChip) /\ 1 < k + 1
        /\ 1 # k + 1 /\ toChip'[k] = toChip[k + 1]
    BY <1>1, <1>2
  <2>2. QED
    BY <1>1, <1>4, <2>1 DEF Lone
<1>5. QED
  BY <1>3, <1>4 DEF NoDownload, Waiting

LEMMA LineGets ==
  ASSUME TypeOK, Lone, NEW c \in Commands, Send(c),
         c.cmd = "download" => \A d \in Waiting : d.cmd \notin {"download", "rst"}
  PROVE  Waiting' \subseteq Waiting \cup {c} /\ Lone'
<1>1. toChip \in Seq(Commands) /\ Len(toChip) \in Nat
  BY DEF TypeOK
<1>2. CASE toChip' = toChip
  BY <1>2, LineKeeps
<1>3. CASE toChip' = Append(toChip, c)
  <2>1. /\ Len(toChip') = Len(toChip) + 1 /\ toChip'[Len(toChip) + 1] = c
        /\ \A k \in 1..Len(toChip) : toChip'[k] = toChip[k]
    BY <1>1, <1>3, Put
  <2>2. \A k \in 1..Len(toChip') : k \in 1..Len(toChip) \/ k = Len(toChip) + 1
    BY <1>1, <2>1
  <2>3. Waiting' \subseteq Waiting \cup {c}
    BY <2>1, <2>2 DEF Waiting
  <2>4. Lone'
    <3> SUFFICES ASSUME NEW k \in 1..Len(toChip'), toChip'[k].cmd = "download",
                        NEW j \in 1..Len(toChip')
                 PROVE  /\ j # k => toChip'[j].cmd # "download"
                        /\ j < k => toChip'[j].cmd # "rst"
      BY DEF Lone
    <3>1. CASE k \in 1..Len(toChip) /\ j \in 1..Len(toChip)
      BY <2>1, <3>1 DEF Lone
    <3>2. CASE k = Len(toChip) + 1 /\ j \in 1..Len(toChip)
      <4>1. toChip[j] \in Waiting /\ toChip'[j] = toChip[j] /\ c.cmd = "download"
        BY <2>1, <3>2 DEF Waiting
      <4>2. QED
        BY <4>1
    <3>3. CASE k \in 1..Len(toChip) /\ j = Len(toChip) + 1
      <4>1. toChip[k] \in Waiting /\ toChip[k].cmd = "download" /\ ~(j < k)
            /\ toChip'[j] = c
        BY <1>1, <2>1, <3>3 DEF Waiting
      <4>2. QED
        BY <4>1
    <3>4. CASE k = Len(toChip) + 1 /\ j = Len(toChip) + 1
      BY <1>1, <3>4
    <3>5. QED
      BY <2>2, <3>1, <3>2, <3>3, <3>4
  <2>5. QED
    BY <2>3, <2>4
<1>4. QED
  BY <1>2, <1>3 DEF Send

\* A place that is kept by a step is one.
LEMMA PlaceIs ==
  ASSUME Place, [Next]_vars, ChipFollows', CutFollows', Lone',
         \A c \in Waiting' : Fits(c)',
         (pc = "xfer" /\ outcome = "delivered" => toChip = <<>>)'
  PROVE  Place'
BY TypeStays, RouteStays DEF Place

\* A verb that fails leaves the chip where it is.
LEMMA PlaceFails ==
  ASSUME Place, [Next]_vars, pc' = "restore", code' = "fail", Lone',
         UNCHANGED <<chip, target, cur, cut, late, left, outcome>>,
         \A c \in Waiting' : c \in Waiting \/ c = Handshake
  PROVE  Place'
<1>1. verb' = verb /\ SetBaud' = SetBaud
  BY ArgsStay
<1>2. ChipFollows'
  BY <1>1 DEF Place, ChipFollows, InLoader, Early, Mid, Late
<1>3. CutFollows'
  <2>1. NoDownload => NoDownload'
    BY CmdNames DEF NoDownload
  <2>2. QED
    BY <2>1 DEF Place, CutFollows, Untold, Early, BeforeBins
<1>4. ASSUME NEW c \in Waiting' PROVE Fits(c)'
  <2>1. c \in Waiting \/ c.cmd = "handshake"
    BY CmdNames
  <2>2. CASE c \in Waiting
    BY <1>1, <2>2 DEF Place, Fits, InBoot, Early, End
  <2>3. CASE c.cmd = "handshake"
    BY <2>3 DEF Fits
  <2>4. QED
    BY <2>1, <2>2, <2>3
<1>5. QED
  BY <1>2, <1>3, <1>4, PlaceIs

\* The host goes on, and the line and the chip stay as they are.
LEMMA PlaceGoes ==
  ASSUME Place, [Next]_vars, ChipFollows', CutFollows', toChip' = toChip,
         \A c \in Waiting : Fits(c) => Fits(c)',
         (pc = "xfer" /\ outcome = "delivered")' => toChip = <<>>
  PROVE  Place'
<1>1. TypeOK /\ Lone
  BY DEF Place
<1>2. Lone' /\ Waiting' \subseteq Waiting
  BY <1>1, LineKeeps
<1>3. \A c \in Waiting' : Fits(c)'
  BY <1>2 DEF Place
<1>4. QED
  BY <1>2, <1>3, PlaceIs

LEMMA PlaceBoot ==
  ASSUME Place, [Next]_vars, Stage0 \/ ShakeRead \/ ShakeReadSplit
  PROVE  Place'
<1>1. verb' = verb /\ SetBaud' = SetBaud
  BY ArgsStay
<1>2. /\ UNCHANGED <<chip, target, cur, cut, late, left, outcome, toChip>>
      /\ pc \in Early /\ cur = 0
      /\ \/ pc' \in Early \cup {"xfer"} /\ code' = code
         \/ pc' = "restore" /\ code' = "fail"
  BY DEF Stage0, ShakeRead, ShakeReadSplit, Goto, VerbReturns, HostOnly, chipVars,
         xferVars, Early, Place, Route, BeforeBins
<1>3. CASE pc' = "restore" /\ code' = "fail"
  <2>1. Lone' /\ Waiting' \subseteq Waiting
    BY <1>2, LineKeeps DEF Place
  <2>2. QED
    BY <1>2, <1>3, <2>1, PlaceFails
<1>4. CASE pc' \in Early \cup {"xfer"} /\ code' = code
  <2>1. ChipFollows'
    BY <1>1, <1>2, <1>4
       DEF Place, ChipFollows, CutFollows, Untold, Route, InLoader, BootChip,
           Early, Mid,
           Late, End
  <2>2. CutFollows'
    BY <1>2, <1>4
       DEF Place, CutFollows, Untold, NoDownload, Waiting, Early, BeforeBins
  <2>3. ASSUME NEW c \in Waiting, Fits(c) PROVE Fits(c)'
    BY <1>1, <1>2, <1>4, <2>3 DEF Place, Route, Fits, InBoot, Early, Late, End
  <2>4. outcome' = "running"
    BY <1>2 DEF Place, CutFollows, Untold
  <2>5. QED
    BY <1>2, <2>1, <2>2, <2>3, <2>4, PlaceGoes
<1>5. QED
  BY <1>2, <1>3, <1>4

LEMMA PlaceOpen ==
  ASSUME Place, [Next]_vars, UNCHANGED <<chipVars, toChip, cur, cut, late, left, code, xferVars>>,
         pc \in BaudOpens, pc' = AfterOpen
  PROVE  Place'
<1>1. verb' = verb /\ SetBaud' = SetBaud
  BY ArgsStay
<1>2. /\ UNCHANGED <<chip, target, outcome>> /\ cur = 0
      /\ \/ pc = "early_open" /\ pc' = "xfer"
         \/ pc = "baud_open" /\ pc' = "baud_frame"
  BY DEF chipVars, xferVars, BaudOpens, AfterOpen, Place, Route, BeforeBins, Early
<1>3. ChipFollows'
  <2>1. code' = "none"
    BY DEF Place, Route, BaudOpens, End
  <2>2. CASE pc = "early_open"
    BY <1>1, <1>2, <2>1, <2>2
       DEF Place, CutFollows, Untold, ChipFollows, InLoader, BootChip, Early, Mid,
           Late
  <2>3. CASE pc = "baud_open"
    BY <1>1, <1>2, <2>1, <2>3
       DEF Place, ChipFollows, InLoader, Early, Mid, Late
  <2>4. QED
    BY <1>2, <2>2, <2>3
<1>4. CutFollows'
  BY <1>2 DEF Place, CutFollows, Untold, NoDownload, Waiting, Early, BeforeBins
<1>5. ASSUME NEW c \in Waiting, Fits(c) PROVE Fits(c)'
  BY <1>1, <1>2, <1>5 DEF Place, Route, Fits, InBoot, Early, Late, End
<1>6. pc' = "xfer" => outcome' = "running"
  BY <1>2 DEF Place, CutFollows, Untold, NoDownload, Waiting, Early
<1>7. QED
  BY <1>2, <1>3, <1>4, <1>5, <1>6, PlaceGoes

\* The frame that the host waits for comes, or it gives up.
LEMMA PlaceFrame ==
  ASSUME Place, [Next]_vars, UNCHANGED <<chipVars, toChip, cur, cut, late, left, code>>,
         pc \in FrameWaits, pc' = AfterFrame, EnterXfer(AfterFrame)
  PROVE  Place'
<1>1. verb' = verb /\ SetBaud' = SetBaud
  BY ArgsStay
<1>2. /\ UNCHANGED <<chip, target>>
      /\ \/ /\ pc \in {"boot_frame", "baud_ack", "baud_frame"} /\ cur = 0
            /\ pc' \in {"erase", "setbaud", "first_bin", "baud_open"}
         \/ pc = "erase_frame" /\ pc' = "reset" /\ verb = "erase" /\ cur = 0
         \/ pc = "dl_frame" /\ pc' = "xfer" /\ outcome' = "running" /\ cur # 0
  BY DEF chipVars, FrameWaits, AfterFrame, EnterXfer, Place, Route, BeforeBins,
         TypeOK
<1>3. code = "none"
  BY DEF FrameWaits, Place, Route, End
<1>4. ChipFollows'
  BY <1>1, <1>2, <1>3 DEF Place, ChipFollows, InLoader, LoaderChip, Early, Mid, Late
<1>5. CutFollows'
  BY <1>2 DEF Place, CutFollows, Untold, NoDownload, Waiting, Early, BeforeBins
<1>6. ASSUME NEW c \in Waiting, Fits(c) PROVE Fits(c)'
  BY <1>1, <1>2, <1>3, <1>6 DEF Fits, InBoot, Early, Late, End
<1>7. pc' = "xfer" => outcome' = "running"
  BY <1>2
<1>8. QED
  BY <1>4, <1>5, <1>6, <1>7, PlaceGoes

\* A command of the host is on its way.
LEMMA PlaceSends ==
  ASSUME Place, [Next]_vars, Shake \/ SetBaudCmd \/ EraseCmd \/ PollReset \/ NextBin
  PROVE  Place'
<1>1. verb' = verb /\ SetBaud' = SetBaud
  BY ArgsStay
<1>2. TypeOK /\ Route /\ Lone /\ Waiting \subseteq Commands /\ code = "none"
      /\ \A c \in Waiting : Fits(c)
  BY WaitingType
     DEF Place, Route, End, Shake, SetBaudCmd, EraseCmd, PollReset, NextBin
<1>3. UNCHANGED <<chip, target, cut, late, outcome>>
  BY DEF Shake, SetBaudCmd, EraseCmd, PollReset, NextBin, HostOnly, chipVars,
         xferVars
<1>4. CASE Shake
  <2>1. /\ UNCHANGED <<cur, left>> /\ pc = "shake" /\ Send(Handshake)
        /\ \/ pc' = "restore" /\ code' = "fail"
           \/ pc' = "shake_read" /\ code' = code
    BY <1>4 DEF Shake, Goto, VerbReturns
  <2>2. Lone' /\ Waiting' \subseteq Waiting \cup {Handshake}
    BY <1>2, <2>1, LineGets, CommandsAre, CmdNames
  <2>3. CASE pc' = "restore" /\ code' = "fail"
    BY <1>3, <2>1, <2>2, <2>3, PlaceFails
  <2>4. CASE pc' = "shake_read" /\ code' = code
    <3>1. ChipFollows' /\ CutFollows'
      BY <1>1, <1>2, <1>3, <2>1, <2>4
         DEF Place, ChipFollows, CutFollows, Untold, InLoader, BootChip, Early,
             Mid, Late,
             BeforeBins
    <3>2. ASSUME NEW c \in Waiting' PROVE Fits(c)'
      BY <1>1, <1>2, <1>3, <2>1, <2>2, <2>4, CmdNames
         DEF Fits, InBoot, Early, Late, End
    <3>3. QED
      BY <2>2, <2>4, <3>1, <3>2, PlaceIs
  <2>5. QED
    BY <2>1, <2>3, <2>4
<1>5. CASE SetBaudCmd \/ PollReset
  <2>1. /\ UNCHANGED <<cur, left, code>>
        /\ \/ pc = "setbaud" /\ pc' = "baud_ack" /\ Send(SetBaud)
           \/ pc = "reset" /\ pc' \in Late /\ Send(Rst)
    BY <1>5 DEF SetBaudCmd, PollReset, Goto, Late
  <2>2. Lone' /\ Waiting' \subseteq Waiting \cup
                   {IF pc = "setbaud" THEN SetBaud ELSE Rst}
    BY <1>2, <2>1, LineGets, CommandsAre, CmdNames
  <2>3. ChipFollows' /\ CutFollows'
    BY <1>1, <1>2, <1>3, <2>1
       DEF Place, ChipFollows, CutFollows, Untold, InLoader, Early, Mid, Late,
           BeforeBins
  <2>4. ASSUME NEW c \in Waiting' PROVE Fits(c)'
    BY <1>1, <1>2, <1>3, <2>1, <2>2, CmdNames DEF Fits, InBoot, Early, Late, End
  <2>5. pc' # "xfer"
    BY <2>1 DEF Late
  <2>6. QED
    BY <2>2, <2>3, <2>4, <2>5, PlaceIs
<1>6. CASE EraseCmd
  <2>1. /\ UNCHANGED <<cur, left, code>> /\ pc = "erase" /\ pc' = "erase_frame"
        /\ Send(EraseAll) /\ verb = "erase"
    BY <1>2, <1>6 DEF EraseCmd, Goto, Route
  <2>2. \A d \in Waiting : d.cmd \notin {"download", "rst"}
    BY <1>2, <2>1 DEF Fits, Late, End
  <2>3. Lone' /\ Waiting' \subseteq Waiting \cup {EraseAll}
    BY <1>2, <2>1, <2>2, LineGets, CommandsAre
  <2>4. ChipFollows' /\ CutFollows' /\ chip \in Listens
    BY <1>1, <1>2, <1>3, <2>1
       DEF Place, ChipFollows, CutFollows, Untold, InLoader, Early, Mid, Late,
           BeforeBins,
           Listens
  <2>5. ASSUME NEW c \in Waiting' PROVE Fits(c)'
    BY <1>1, <1>2, <1>3, <2>1, <2>2, <2>3, <2>4, CmdNames
       DEF Fits, InBoot, Early, Late, End
  <2>6. QED
    BY <2>1, <2>3, <2>4, <2>5, PlaceIs
<1>7. CASE NextBin
  <2>1. pc = "next_bin" /\ code' = code /\ verb # "erase"
    BY <1>2, <1>7 DEF NextBin, Route
  <2>2. \A d \in Waiting : d.cmd \notin {"download", "rst"}
    BY <1>2, <2>1 DEF Fits, Late, End
  <2>3. chip \in Listens
    BY <1>2, <2>1 DEF Place, ChipFollows, InLoader, Mid, Listens
  <2>4. CASE left = {} /\ pc' = "reset" /\ UNCHANGED <<cur, left, toChip>>
    <3>1. ChipFollows' /\ CutFollows'
      BY <1>1, <1>2, <1>3, <2>1, <2>3, <2>4
         DEF Place, ChipFollows, CutFollows, Untold, InLoader, Early, Mid, Late,
             BeforeBins,
             Listens, LoaderChip
    <3>2. ASSUME NEW c \in Waiting, Fits(c) PROVE Fits(c)'
      BY <1>1, <1>2, <1>3, <2>1, <2>2, <2>4, <3>2 DEF Fits, InBoot, Early, Late, End
    <3>3. QED
      BY <2>4, <3>1, <3>2, PlaceGoes
  <2>5. ASSUME NEW b \in left, cur' = b, left' = left \ {b}, Send(Download(b)),
               pc' = "dl_frame"
        PROVE  Place'
    <3>1. b \in Bins /\ b # 0 /\ b \notin cut
      BY <1>2, WorkType DEF TypeOK, Place, CutFollows, Untold
    <3>2. Lone' /\ Waiting' \subseteq Waiting \cup {Download(b)}
      BY <1>2, <2>2, <2>5, <3>1, LineGets, CommandsAre
    <3>3. ChipFollows' /\ CutFollows'
      BY <1>1, <1>2, <1>3, <2>1, <2>3, <2>5, <3>1
         DEF Place, ChipFollows, CutFollows, Untold, InLoader, Early, Mid, Late,
             BeforeBins,
             Listens
    <3>4. ASSUME NEW c \in Waiting' PROVE Fits(c)'
      BY <1>1, <1>2, <1>3, <2>1, <2>2, <2>3, <2>5, <3>1, <3>2, CmdNames
         DEF Fits, InBoot, Early, Late, End
    <3>5. QED
      BY <2>5, <3>2, <3>3, <3>4, PlaceIs
  <2>6. QED
    BY <1>7, <2>4, <2>5 DEF NextBin, TakeBin, Goto
<1>8. QED
  BY <1>4, <1>5, <1>6, <1>7

\* Between two bins, and at the end of the run.
LEMMA PlaceLeaves ==
  ASSUME Place, [Next]_vars, Sleep \/ FirstBin \/ ResetRead \/ Restore
  PROVE  Place'
<1>1. verb' = verb /\ SetBaud' = SetBaud /\ 0 \notin Work
  BY ArgsStay, WorkType DEF Place
<1>2. /\ UNCHANGED <<chip, target, cur, cut, late, outcome, toChip>>
      /\ \/ pc \in {"sleep", "first_bin"} /\ pc' = "next_bin" /\ code' = code
         \/ pc \in Late /\ pc' \in Late /\ code' = code
         \/ pc \in Late /\ pc' = "restore" /\ code' = "ok"
         \/ pc = "restore" /\ pc' = "exit" /\ code' = code
      /\ left' = left \/ (left' = Work /\ pc = "first_bin")
  BY DEF Sleep, FirstBin, ResetRead, Restore, Goto, VerbReturns, HostOnly, chipVars,
         xferVars, Late
<1>3. ChipFollows'
  BY <1>1, <1>2 DEF Place, Route, ChipFollows, InLoader, Early, Mid, Late, End
<1>4. CutFollows'
  BY <1>1, <1>2
     DEF Place, Route, CutFollows, Untold, NoDownload, Waiting, Early, Late, End,
         BeforeBins
<1>5. ASSUME NEW c \in Waiting, Fits(c) PROVE Fits(c)'
  BY <1>1, <1>2, <1>5 DEF Place, Route, Fits, InBoot, Early, Late, End
<1>6. pc' # "xfer"
  BY <1>2 DEF Late
<1>7. QED
  BY <1>2, <1>3, <1>4, <1>5, <1>6, PlaceGoes

LEMMA PlaceReturns ==
  ASSUME Place, [Next]_vars, XferReturns
  PROVE  Place'
<1>1. verb' = verb /\ SetBaud' = SetBaud
  BY ArgsStay
<1>2. /\ UNCHANGED <<chip, target, cur, cut, late, left, outcome, toChip>>
      /\ pc = "xfer" /\ outcome # "running" /\ code = "none"
      /\ \/ pc' = "restore" /\ code' = "fail"
         \/ /\ outcome = "delivered" \/ cur \in Untold
            /\ pc' = (IF cur = 0 THEN "boot_frame" ELSE "sleep") /\ code' = code
  BY DEF XferReturns, Goto, VerbReturns, HostOnly, chipVars, xferVars, Place,
         Route, End,
         Untold
<1>3. CASE pc' = "restore" /\ code' = "fail"
  <2>1. Lone' /\ Waiting' \subseteq Waiting
    BY <1>2, LineKeeps DEF Place
  <2>2. QED
    BY <1>2, <1>3, <2>1, PlaceFails
<1>4. CASE /\ outcome = "delivered" \/ cur \in Untold
           /\ pc' = (IF cur = 0 THEN "boot_frame" ELSE "sleep") /\ code' = code
  <2>1. \/ chip = "midfile" /\ NoDownload /\ Untold # {}
        \/ chip \in {"loader", "settling"} /\ toChip = <<>>
    BY <1>2, <1>4 DEF Place, ChipFollows, CutFollows
  <2>2. pc' \notin BeforeBins \/ pc' = "boot_frame"
    BY <1>4 DEF BeforeBins, Early
  <2>3. chip \in LoaderChip
    BY <2>1 DEF LoaderChip
  <2>4. chip # "ymodem"
    BY <2>1
  <2>5. ChipFollows'
    BY <1>1, <1>2, <1>4, <2>3, <2>4
       DEF Place, ChipFollows, InLoader, Early, Mid, Late
  <2>6. CutFollows'
    BY <1>2, <1>4, <2>1, <2>2
       DEF Place, CutFollows, Untold, NoDownload, Waiting, Early, BeforeBins
  <2>7. ASSUME NEW c \in Waiting, Fits(c) PROVE Fits(c)'
    <3>1. toChip # <<>>
      BY DEF Waiting
    <3>2. chip = "midfile" /\ c.cmd # "download"
      BY <2>1, <3>1 DEF NoDownload
    <3>3. QED
      BY <1>2, <1>4, <2>7, <3>2 DEF Fits, InBoot, Early, Late, End
  <2>8. QED
    BY <1>2, <1>4, <2>5, <2>6, <2>7, PlaceGoes
<1>5. QED
  BY <1>2, <1>3, <1>4

LEMMA PlaceIo ==
  ASSUME Place, [Next]_vars, IoError
  PROVE  Place'
<1>1. UNCHANGED <<chipVars, toChip, toHost, cur, left, cut, late>>
  BY DEF IoError
<1>2. \/ pc' = "restore" /\ code' = "fail" /\ UNCHANGED xferVars
      \/ /\ pc \in BaudOpens /\ pc' = AfterOpen /\ code' = code /\ UNCHANGED xferVars
      \/ pc \in FrameWaits /\ pc' = AfterFrame /\ code' = code /\ EnterXfer(AfterFrame)
      \/ pc \in Late /\ pc' = "restore" /\ code' = "ok" /\ UNCHANGED xferVars
      \/ pc = "restore" /\ pc' = "exit" /\ code' = code /\ UNCHANGED xferVars
  BY DEF IoError, Goto, VerbReturns, Late
<1>3. CASE pc' = "restore" /\ code' = "fail" /\ UNCHANGED xferVars
  <2>1. Lone' /\ Waiting' \subseteq Waiting
    BY <1>1, LineKeeps DEF Place
  <2>2. UNCHANGED <<chip, target, outcome>>
    BY <1>1, <1>3 DEF chipVars, xferVars
  <2>3. QED
    BY <1>1, <1>3, <2>1, <2>2, PlaceFails
<1>4. CASE pc \in BaudOpens /\ pc' = AfterOpen /\ code' = code /\ UNCHANGED xferVars
  BY <1>1, <1>4, PlaceOpen
<1>5. CASE pc \in FrameWaits /\ pc' = AfterFrame /\ code' = code /\ EnterXfer(AfterFrame)
  BY <1>1, <1>5, PlaceFrame
<1>6. CASE \/ pc \in Late /\ pc' = "restore" /\ code' = "ok" /\ UNCHANGED xferVars
           \/ pc = "restore" /\ pc' = "exit" /\ code' = code /\ UNCHANGED xferVars
  <2>1. verb' = verb /\ SetBaud' = SetBaud
    BY ArgsStay
  <2>2. UNCHANGED <<chip, target, outcome>>
    BY <1>1, <1>6 DEF chipVars, xferVars
  <2>3. ChipFollows'
    BY <1>1, <1>6, <2>1, <2>2
       DEF Place, Route, ChipFollows, InLoader, Early, Mid, Late, End
  <2>4. CutFollows'
    BY <1>1, <1>6, <2>2
       DEF Place, Route, CutFollows, Untold, NoDownload, Waiting, Early, Late, End,
           BeforeBins
  <2>5. ASSUME NEW c \in Waiting, Fits(c) PROVE Fits(c)'
    BY <1>1, <1>6, <2>1, <2>2, <2>5 DEF Place, Route, Fits, InBoot, Early, Late, End
  <2>6. QED
    BY <1>1, <1>6, <2>3, <2>4, <2>5, PlaceGoes
<1>7. QED
  BY <1>2, <1>3, <1>4, <1>5, <1>6

LEMMA PlaceXfer ==
  ASSUME Place, [Next]_vars, XferStore \/ XferStops
  PROVE  Place'
<1>1. verb' = verb /\ SetBaud' = SetBaud
  BY ArgsStay
<1>2. /\ UNCHANGED <<pc, cur, left, code, target, toChip>> /\ pc = "xfer"
      /\ outcome = "running" /\ 0 \notin left
  BY WorkType, StopsDo
     DEF XferStore, XferStops, Transfer!Store, hostVars, Place, TypeOK
<1>3. \/ XferStore /\ UNCHANGED <<chip, cut, late, outcome>>
      \/ /\ cut' = cut /\ late' = late /\ outcome' = "delivered" /\ toChip = <<>>
         /\ Receiving /\ chip' = (IF cur = 0 THEN "loader" ELSE "settling")
      \/ /\ UNCHANGED <<cut, late>> /\ outcome' = "unsure"
         /\ chip' = (IF Receiving THEN "midfile" ELSE chip)
      \/ /\ Untold' = Untold \cup {cur} /\ outcome' = "unsure" /\ Receiving
         /\ \/ chip' = "midfile"
            \/ /\ cut' = cut /\ toChip = <<>>
               /\ chip' = (IF cur = 0 THEN "loader" ELSE "settling")
  <2>1. XferStore => UNCHANGED <<chip, cut, late, outcome>>
    BY DEF XferStore, Transfer!Store, hostVars
  <2>2. XferDelivered => /\ cut' = cut /\ late' = late /\ outcome' = "delivered"
                         /\ toChip = <<>> /\ Receiving
                         /\ chip' = (IF cur = 0 THEN "loader" ELSE "settling")
    BY DEF XferDelivered, XferEnds, ChipCloses
  <2>3. XferBreaks => /\ UNCHANGED <<cut, late>> /\ outcome' = "unsure"
                      /\ chip' = (IF Receiving THEN "midfile" ELSE chip)
    BY DEF XferBreaks, XferEnds, ChipWaits
  <2>4. XferCut => /\ Untold' = Untold \cup {cur} /\ outcome' = "unsure"
                   /\ Receiving /\ chip' = "midfile"
    BY DEF XferCut, XferEnds, ChipWaits, Untold
  <2>5. XferLate => /\ Untold' = Untold \cup {cur} /\ outcome' = "unsure"
                    /\ Receiving
                    /\ \/ chip' = "midfile"
                       \/ /\ cut' = cut /\ toChip = <<>>
                          /\ chip' = (IF cur = 0 THEN "loader" ELSE "settling")
    BY DEF XferLate, XferEnds, ChipCloses, ChipWaits, Untold
  <2>6. QED
    BY <2>1, <2>2, <2>3, <2>4, <2>5 DEF XferStops
<1>4. /\ Receiving => chip = (IF cur = 0 THEN "rom_ymodem" ELSE "ymodem")
      /\ Receiving => NoDownload
  BY DEF Receiving, Place, Fits, NoDownload, Listens, LoaderChip
<1>5. ChipFollows'
  BY <1>1, <1>2, <1>3, <1>4
     DEF Place, ChipFollows, InLoader, LoaderChip, Early, Mid, Late
<1>6. CutFollows'
  <2>1. NoDownload' = NoDownload
    BY <1>2 DEF NoDownload, Waiting
  <2>2. cur \notin left /\ cur \in Work \cup {0}
    BY DEF Place, TypeOK
  <2>3. pc \notin Early /\ pc \notin BeforeBins
    BY <1>2 DEF Early, BeforeBins
  <2>4. Receiving => cut = {} /\ chip # "midfile" /\ NoDownload
    BY <1>4 DEF Place, CutFollows
  <2>5. cur \notin Untold
    BY <1>2 DEF Place, CutFollows
  <2>6. CASE UNCHANGED <<cut, late>>
    <3>1. Untold' = Untold
      BY <2>6 DEF Untold
    <3>2. cut # {} => chip' = "midfile"
      BY <1>3, <2>4, <2>5, <2>6 DEF Place, CutFollows
    <3>3. chip' = "midfile" => outcome' = "unsure" \/ UNCHANGED <<chip, outcome>>
      BY <1>3
    <3>4. chip' = "midfile" /\ chip # "midfile" => NoDownload
      BY <1>3, <2>4
    <3>5. QED
      BY <1>2, <2>1, <2>2, <2>3, <2>5, <2>6, <3>1, <3>2, <3>3, <3>4
         DEF Place, CutFollows
  <2>7. CASE /\ Untold' = Untold \cup {cur} /\ outcome' = "unsure" /\ Receiving
             /\ \/ chip' = "midfile"
                \/ /\ cut' = cut /\ toChip = <<>>
                   /\ chip' = (IF cur = 0 THEN "loader" ELSE "settling")
    BY <1>2, <2>1, <2>2, <2>3, <2>4, <2>7 DEF Place, CutFollows
  <2>8. QED
    BY <1>3, <2>6, <2>7 DEF XferStore
<1>7. ASSUME NEW c \in Waiting, Fits(c) PROVE Fits(c)'
  <2>1. chip' = chip \/ c.cmd # "download"
    BY <1>3, <1>4 DEF NoDownload, Waiting
  <2>2. chip = "midfile" => chip' = "midfile" \/ toChip = <<>>
    BY <1>3
  <2>3. toChip # <<>>
    BY DEF Waiting
  <2>4. QED
    BY <1>1, <1>2, <1>7, <2>1, <2>2, <2>3 DEF Fits, InBoot, Early, Late, End
<1>8. outcome' = "delivered" => toChip = <<>>
  BY <1>2, <1>3
<1>9. QED
  BY <1>2, <1>5, <1>6, <1>7, <1>8, PlaceGoes

LEMMA PlaceLine ==
  ASSUME Place, [Next]_vars,
         Tick \/ Lose \/ PowerUp \/ Switch \/ Settle \/ UNCHANGED vars
  PROVE  Place'
<1>1. verb' = verb /\ SetBaud' = SetBaud
  BY ArgsStay
<1>2. UNCHANGED <<pc, cur, left, code, cut, late, outcome, target>>
  BY DEF Tick, Lose, PowerUp, Switch, Settle, ChipOnly, hostVars, xferVars,
         chipVars,
         vars
<1>3. toChip' = toChip \/ (toChip # <<>> /\ toChip' = Tail(toChip))
  BY DEF Tick, Lose, PowerUp, Switch, Settle, vars
<1>4. Lone' /\ Waiting' \subseteq Waiting
  BY <1>3, LineKeeps DEF Place
<1>5. \/ chip' = chip
      \/ chip = "off" /\ chip' = "rom"
      \/ chip = "switching" /\ chip' = "switched"
      \/ chip \in {"switched", "settling"} /\ chip' = "loader"
  BY DEF Tick, Lose, PowerUp, Switch, Settle, chipVars, vars
<1>6. ChipFollows'
  BY <1>1, <1>2, <1>5
     DEF Place, ChipFollows, InLoader, BootChip, LoaderChip, Early, Mid, Late
<1>7. CutFollows'
  <2>1. NoDownload => NoDownload'
    BY <1>4 DEF NoDownload
  <2>2. QED
    BY <1>2, <1>3, <1>5, <2>1 DEF Place, CutFollows, Untold, Early, BeforeBins
<1>8. ASSUME NEW c \in Waiting' PROVE Fits(c)'
  <2>1. Fits(c)
    BY <1>4 DEF Place
  <2>2. QED
    BY <1>1, <1>2, <1>5, <2>1 DEF Fits, InBoot, Listens, LoaderChip
<1>9. (pc = "xfer" /\ outcome = "delivered" => toChip = <<>>)'
  BY <1>2, <1>3 DEF Place
<1>10. QED
  BY <1>4, <1>6, <1>7, <1>8, <1>9, PlaceIs

\* The chip takes a command.
LEMMA PlaceServes ==
  ASSUME Place, [Next]_vars, Serve
  PROVE  Place'
<1> DEFINE c == Head(toChip)
<1>1. verb' = verb /\ SetBaud' = SetBaud /\ baud \in Speeds
  BY ArgsStay DEF Place, TypeOK
<1>2. UNCHANGED <<pc, cur, left, code, cut, late, outcome>>
  BY DEF Serve, ChipOnly, hostVars, xferVars
<1>3. toChip # <<>> /\ toChip' = Tail(toChip)
  BY DEF Serve
<1>4. Lone' /\ Waiting' \subseteq Waiting
  BY <1>3, LineKeeps DEF Place
<1>5. /\ c \in Commands /\ Fits(c)
      /\ c.cmd \in {"download", "rst"} => NoDownload'
  BY <1>3, Behind DEF Place
<1>6. \/ chip' = chip /\ target' = target
      \/ chip = "rom" /\ c.cmd = "handshake" /\ chip' = "rom_ymodem" /\ target' = target
      \/ chip = "loader" /\ c.cmd = "setbaud" /\ chip' = "switching" /\ target' = c
      \/ /\ chip = "loader" /\ c.cmd = "download"
         /\ chip' = (IF c.len = 0 THEN "loader" ELSE "ymodem") /\ target' = c
      \/ chip = "loader" /\ c.cmd = "rst" /\ chip' = "off" /\ target' = target
  BY DEF Serve, chipVars
<1>7. ~(pc = "xfer" /\ outcome = "delivered")
  BY <1>3 DEF Place
<1>8. CutFollows'
  <2>1. NoDownload => NoDownload'
    BY <1>4 DEF NoDownload
  <2>2. QED
    BY <1>2, <1>3, <1>6, <2>1 DEF Place, CutFollows, Untold, Early, BeforeBins
<1> HIDE DEF c
<1>9. c.cmd = "setbaud" => c = SetBaud
  BY <1>1, <1>5, CommandNamed
<1>10. CASE chip' = chip /\ target' = target
  <2>1. ChipFollows'
    BY <1>1, <1>2, <1>10 DEF Place, ChipFollows, InLoader
  <2>2. ASSUME NEW d \in Waiting' PROVE Fits(d)'
    BY <1>1, <1>2, <1>4, <1>10 DEF Place, Fits, InBoot
  <2>3. QED
    BY <1>2, <1>4, <1>7, <1>8, <2>1, <2>2, PlaceIs
<1>11. CASE /\ chip = "rom" /\ c.cmd = "handshake" /\ chip' = "rom_ymodem"
            /\ target' = target
  <2>1. InBoot \/ code = "fail"
    BY <1>5, <1>11 DEF Fits
  <2>2. ChipFollows'
    BY <1>2, <1>7, <1>11, <2>1
       DEF Place, Route, ChipFollows, InBoot, InLoader, BootChip, LoaderChip, Early,
           Mid, Late, End
  <2>3. ASSUME NEW d \in Waiting' PROVE Fits(d)'
    BY <1>1, <1>2, <1>4, <1>11 DEF Place, Fits, InBoot, Listens, LoaderChip
  <2>4. QED
    BY <1>2, <1>4, <1>7, <1>8, <2>2, <2>3, PlaceIs
<1>12. CASE /\ chip = "loader" /\ c.cmd = "setbaud" /\ chip' = "switching"
            /\ target' = c
  <2>1. ~InBoot
    BY <1>5, <1>12 DEF Fits
  <2>2. ChipFollows'
    BY <1>1, <1>2, <1>7, <1>9, <1>12, <2>1
       DEF Place, Route, ChipFollows, InBoot, InLoader, LoaderChip, Early, Mid, Late
  <2>3. ASSUME NEW d \in Waiting' PROVE Fits(d)'
    BY <1>1, <1>2, <1>4, <1>12 DEF Place, Fits, InBoot, Listens, LoaderChip
  <2>4. QED
    BY <1>2, <1>4, <1>7, <1>8, <2>2, <2>3, PlaceIs
<1>13. CASE /\ chip = "loader" /\ c.cmd = "download"
            /\ chip' = (IF c.len = 0 THEN "loader" ELSE "ymodem") /\ target' = c
  <2>1. EraseAll.len = 0
    BY CmdIs DEF EraseAll
  <2>2. ASSUME c.len # 0
        PROVE  /\ pc \in {"dl_frame", "xfer"} \/ code = "fail"
               /\ cur # 0 /\ c = Download(cur)
    BY <1>5, <1>13, <2>1, <2>2 DEF Fits
  <2>3. pc \notin Early /\ ~(pc = "xfer" /\ cur = 0 /\ outcome = "running")
    BY <1>13 DEF Place, ChipFollows, BootChip
  <2>4. ChipFollows'
    BY <1>1, <1>2, <1>7, <1>13, <2>2, <2>3
       DEF Place, ChipFollows, InLoader, LoaderChip, Early, Mid, Late
  <2>5. ASSUME NEW d \in Waiting' PROVE Fits(d)'
    <3>1. d.cmd # "download" /\ Fits(d)
      BY <1>4, <1>5, <1>13 DEF Place, NoDownload
    <3>2. QED
      BY <1>1, <1>2, <1>13, <3>1 DEF Fits, InBoot
  <2>6. QED
    BY <1>2, <1>4, <1>7, <1>8, <2>4, <2>5, PlaceIs
<1>14. CASE chip = "loader" /\ c.cmd = "rst" /\ chip' = "off" /\ target' = target
  <2>1. pc \in Late \cup End
    BY <1>5, <1>14 DEF Fits
  <2>2. ChipFollows'
    BY <1>1, <1>2, <1>14, <2>1
       DEF Place, ChipFollows, InLoader, Early, Mid, Late, End
  <2>3. ASSUME NEW d \in Waiting' PROVE Fits(d)'
    <3>1. d.cmd # "download" /\ Fits(d)
      BY <1>4, <1>5, <1>14 DEF Place, NoDownload
    <3>2. QED
      BY <1>1, <1>2, <1>14, <3>1 DEF Fits, InBoot
  <2>4. QED
    BY <1>2, <1>4, <1>7, <1>8, <2>2, <2>3, PlaceIs
<1>15. QED
  BY <1>6, <1>10, <1>11, <1>12, <1>13, <1>14

LEMMA InitPlace == Init => Place
<1> SUFFICES ASSUME Init PROVE Place
  OBVIOUS
<1>1. TypeOK /\ Route
  BY InitType, InitRoute
<1>2. Waiting = {} /\ Lone
  BY DEF Init, Waiting, Lone
<1>3. QED
  BY <1>1, <1>2
     DEF Init, Place, ChipFollows, CutFollows, Untold, InLoader, BootChip, Early,
         Mid, Late,
         BeforeBins

LEMMA PlaceStays == Place /\ [Next]_vars => Place'
<1> SUFFICES ASSUME Place, [Next]_vars PROVE Place'
  OBVIOUS
<1>1. CASE BaudOpen
  BY <1>1, PlaceOpen DEF BaudOpen, Goto, HostOnly
<1>2. CASE FrameRead \/ FrameGivesUp
  <2>1. CASE pc' = pc
    <3>1. UNCHANGED <<chip, target, cur, cut, late, left, code, outcome, toChip>>
      BY <1>2, <2>1
         DEF FrameRead, FrameGivesUp, FrameWaits, AfterFrame, Goto, HostOnly,
             chipVars,
             xferVars
    <3>2. verb' = verb /\ SetBaud' = SetBaud
      BY ArgsStay
    <3>3. ChipFollows' /\ CutFollows'
      BY <2>1, <3>1, <3>2
         DEF Place, ChipFollows, CutFollows, Untold, InLoader, NoDownload, Waiting
    <3>4. \A c \in Waiting : Fits(c) => Fits(c)'
      BY <2>1, <3>1, <3>2 DEF Fits, InBoot
    <3>5. QED
      BY <2>1, <3>1, <3>3, <3>4, PlaceGoes DEF Place
  <2>2. CASE pc' # pc
    BY <1>2, <2>2, PlaceFrame DEF FrameRead, FrameGivesUp, Goto, HostOnly
  <2>3. QED
    BY <2>1, <2>2
<1>3. QED
  BY <1>1, <1>2, PlaceBoot, PlaceSends, PlaceLeaves, PlaceReturns, PlaceIo, PlaceXfer,
     PlaceLine, PlaceServes DEF Next, HostStep, ChipStep, XferStops

(***************************************************************************)
(* The chip is never told to download while it takes another file or waits *)
(* for the rest of one, though the host looks at no answer and the line is *)
(* a queue: a download is only under way to a chip that listens, it is the *)
(* only one, no reset is before it, and a transfer that returned an error  *)
(* < 0 is the last one.  Excepted are the runs in which a transfer did not *)
(* deliver its file and returned no such error.                            *)
(***************************************************************************)
THEOREM DownloadsOneAtATime == Spec => []OneAtATime
<1>1. Place => OneAtATime
  BY DEF Place, OneAtATime, CutFollows, Untold, AllTold, NoDownload, Fits, Waiting,
         Listens, LoaderChip, TypeOK
<1>2. QED
  BY <1>1, InitPlace, PlaceStays, PTL DEF Spec

-----------------------------------------------------------------------------
(* Speeds *)

\* No I/O call has failed.
Sound == calm \/ budget.io = MaxIo

SlowStages == {"boot_frame", "setbaud", "baud_ack", "baud_open"}
FastStages == {"baud_frame", "first_bin", "next_bin", "dl_frame", "sleep"}

\* A bin has been asked for.
Asked == ~NoDownload \/ chip = "ymodem"

(***************************************************************************)
(* The speed of the host at every stage, and that of a chip which was      *)
(* asked for a file.                                                       *)
(***************************************************************************)
Speed ==
  /\ calm => budget.io = 0
  /\ chip = "rom_ymodem" => chipSpeed = Handshake.speed
  /\ Sound =>
       /\ tty # "closed"
       /\ pc \in Early => tty = "slow"
       /\ pc \in SlowStages \/ (pc = "xfer" /\ cur = 0) => tty = Handshake.speed
       /\ pc \in FastStages \/ (pc = "xfer" /\ cur # 0) => tty = baud
       /\ pc \in {"dl_frame", "xfer"} /\ cur # 0 /\ Asked => chipSpeed = baud

LEMMA CommandSpeeds ==
  /\ Handshake.speed = (IF EarlyBaud THEN baud ELSE "slow") /\ SetBaud.speed = baud
  /\ ~LateBaud => Handshake.speed = baud
BY CmdIs DEF Handshake, SetBaud, EarlyBaud, LateBaud

LEMMA IoBudget ==
  ASSUME TypeOK, [Next]_vars
  PROVE  /\ budget.io \in 0..MaxIo
         /\ budget'.io = budget.io \/ (budget.io > 0 /\ budget'.io = budget.io - 1)
<1>1. budget \in BudgetSet
  BY TypeParts
<1>2. \/ UNCHANGED budget
      \/ budget.io > 0 /\ budget' = [budget EXCEPT !.io = @ - 1]
      \/ budget' = [budget EXCEPT !.loss = @ - 1]
      \/ budget' = [budget EXCEPT !.split = @ - 1]
      \/ budget' = [budget EXCEPT !.cut = @ - 1]
      \/ budget' = [budget EXCEPT !.late = @ - 1]
  BY StopsDo DEF Next, HostStep, ChipStep, Stage0, Shake, ShakeRead,
         XferReturns, XferStore, XferStops, Sleep, FrameRead, FrameGivesUp,
         SetBaudCmd, BaudOpen, FirstBin, NextBin, EraseCmd, PollReset,
         ResetRead, Restore, IoError, Tick, PowerUp, Serve, Switch, Settle,
         ShakeReadSplit, Lose, HostOnly, ChipOnly, vars
<1>3. QED
  BY <1>1, <1>2 DEF BudgetSet

\* A run in which no call has failed yet has had none fail before.
LEMMA SoundBefore ==
  ASSUME TypeOK, Speed, [Next]_vars
  PROVE  /\ (calm => budget.io = 0)'
         /\ Sound' => Sound /\ ~(IoError /\ tty # "closed")
<1>1. calm' = calm /\ MaxIo \in Nat
  BY ArgsStay, SessionAssumption
<1>2. /\ budget.io \in 0..MaxIo
      /\ budget'.io = budget.io \/ (budget.io > 0 /\ budget'.io = budget.io - 1)
  BY IoBudget
<1>3. (calm => budget.io = 0)'
  BY <1>1, <1>2 DEF Speed
<1>4. Sound' => Sound
  BY <1>1, <1>2 DEF Sound
<1>5. ASSUME IoError, tty # "closed" PROVE ~Sound'
  <2>1. budget.io > 0 /\ budget' = [budget EXCEPT !.io = @ - 1]
    BY <1>5 DEF IoError
  <2>2. budget'.io = budget.io - 1
    BY <2>1, TypeParts DEF BudgetSet
  <2>3. QED
    BY <1>1, <1>2, <2>1, <2>2 DEF Sound, Speed
<1>6. QED
  BY <1>3, <1>4, <1>5

\* A step of the host that does not fail.
LEMMA SpeedHost ==
  ASSUME Place, Place', Speed, [Next]_vars, HostStep \/ ShakeReadSplit, ~IoError,
         ~XferStore, ~XferStops
  PROVE  Speed'
<1>1. /\ UNCHANGED <<verb, late_baud, baud, calm>> /\ Handshake' = Handshake
      /\ TypeOK /\ Route
  BY ArgsStay DEF Place
<1>2. UNCHANGED <<chip, chipSpeed>>
  BY DEF HostStep, XferStops, ShakeReadSplit, Stage0, Shake, ShakeRead,
         XferReturns, Sleep,
         FrameRead, FrameGivesUp, SetBaudCmd, BaudOpen, FirstBin, NextBin, EraseCmd,
         PollReset, ResetRead, Restore, HostOnly, chipVars
<1>3. (calm => budget.io = 0)' /\ (Sound' => Sound)
  BY <1>1, SoundBefore
<1>4. (chip = "rom_ymodem" => chipSpeed = Handshake.speed)'
  BY <1>1, <1>2 DEF Speed
<1>5. ASSUME Sound, UNCHANGED tty,
             \/ pc' \in {pc} \cup Late \cup End \cup {"erase", "erase_frame"}
             \/ pc' \in SlowStages /\ (pc \in SlowStages \/ (pc = "xfer" /\ cur = 0))
             \/ /\ pc' \in FastStages \/ (pc' = "xfer" /\ cur # 0)
                /\ pc \in FastStages \/ (pc = "xfer" /\ cur # 0)
             \/ pc' \in Early /\ pc \in Early,
             cur' = cur \/ pc' # "xfer"
      PROVE  /\ (tty # "closed")'
             /\ (pc \in Early => tty = "slow")'
             /\ (pc \in SlowStages \/ (pc = "xfer" /\ cur = 0) => tty = Handshake.speed)'
             /\ (pc \in FastStages \/ (pc = "xfer" /\ cur # 0) => tty = baud)'
  BY <1>1, <1>5 DEF Speed, Early, Late, End, SlowStages, FastStages
<1>6. ASSUME Sound
      PROVE  /\ (tty # "closed")'
             /\ (pc \in Early => tty = "slow")'
             /\ (pc \in SlowStages \/ (pc = "xfer" /\ cur = 0) => tty = Handshake.speed)'
             /\ (pc \in FastStages \/ (pc = "xfer" /\ cur # 0) => tty = baud)'
  <2>1. CASE Stage0 \/ Shake \/ ShakeReadSplit
    BY <1>5, <1>6, <2>1
       DEF Stage0, Shake, ShakeReadSplit, Goto, VerbReturns, Early, End
  <2>2. CASE ShakeRead
    <3>1. CASE pc' = "xfer"
      <4>1. cur' = 0 /\ tty' = tty /\ ~EarlyBaud /\ tty = "slow" /\ "slow" # "closed"
        BY <1>1, <1>6, <2>2, <3>1
           DEF ShakeRead, Goto, Route, BeforeBins, Early, Speed
      <4>2. QED
        BY <1>1, <3>1, <4>1, CommandSpeeds DEF Early, SlowStages, FastStages
    <3>2. CASE pc' # "xfer"
      BY <1>5, <1>6, <2>2, <3>2 DEF ShakeRead, Goto, Early
    <3>3. QED
      BY <3>1, <3>2
  <2>3. CASE XferReturns
    BY <1>5, <1>6, <2>3
       DEF XferReturns, Goto, VerbReturns, End, SlowStages, FastStages
  <2>4. CASE Sleep \/ SetBaudCmd \/ FirstBin \/ NextBin \/ EraseCmd
    BY <1>5, <1>6, <2>4
       DEF Sleep, SetBaudCmd, FirstBin, NextBin, EraseCmd, Goto, Late, SlowStages,
           FastStages
  <2>5. CASE PollReset \/ ResetRead
    BY <1>5, <1>6, <2>5 DEF PollReset, ResetRead, Goto, VerbReturns, Late, End
  <2>6. CASE Restore
    BY <1>1, <1>6, <2>6
       DEF Restore, Speed, Early, SlowStages, FastStages
  <2>7. CASE BaudOpen
    <3>1. /\ tty' = baud /\ cur = 0 /\ cur' = cur /\ baud # "closed"
          /\ \/ pc = "early_open" /\ EarlyBaud /\ pc' = "xfer"
             \/ pc' = "baud_frame"
      BY <1>1, <1>6, <2>7
         DEF BaudOpen, BaudOpens, AfterOpen, Goto, Route, BeforeBins, Early, Speed,
             TypeOK, Speeds
    <3>2. QED
      BY <1>1, <3>1, CommandSpeeds DEF Early, SlowStages, FastStages
  <2>8. CASE FrameRead \/ FrameGivesUp
    <3>1. /\ UNCHANGED <<tty, cur>>
          /\ pc' = pc \/ (pc \in FrameWaits /\ pc' = AfterFrame)
      BY <2>8 DEF FrameRead, FrameGivesUp, Goto
    <3>2. \/ pc' \in {pc, "reset", "erase"}
          \/ pc = "boot_frame" /\ pc' = "first_bin" /\ ~LateBaud
          \/ pc = "baud_ack" /\ pc' = "baud_open"
          \/ pc = "boot_frame" /\ pc' = "setbaud"
          \/ pc = "baud_frame" /\ pc' = "first_bin"
          \/ pc = "dl_frame" /\ pc' = "xfer" /\ cur # 0
      BY <1>1, <3>1 DEF FrameWaits, AfterFrame, TypeOK
    <3>3. CASE pc = "boot_frame" /\ pc' = "first_bin" /\ ~LateBaud
      <4>1. tty' = baud /\ tty' # "closed"
        BY <1>6, <3>1, <3>3, CommandSpeeds DEF Speed, SlowStages
      <4>2. QED
        BY <1>1, <3>3, <4>1 DEF Early, SlowStages, FastStages
    <3>4. CASE ~(pc = "boot_frame" /\ pc' = "first_bin" /\ ~LateBaud)
      BY <1>5, <1>6, <3>1, <3>2, <3>4 DEF Late, SlowStages, FastStages
    <3>5. QED
      BY <3>3, <3>4
  <2>9. QED
    BY <2>1, <2>2, <2>3, <2>4, <2>5, <2>6, <2>7, <2>8 DEF HostStep, XferStops
<1>7. ASSUME Sound, (pc \in {"dl_frame", "xfer"} /\ cur # 0 /\ Asked)'
      PROVE  (chipSpeed = baud)'
  <2>1. \/ pc \in {"dl_frame", "xfer"} /\ cur' = cur /\ toChip' = toChip
        \/ \E b \in left : pc = "next_bin" /\ Send(Download(b))
    <3>1. pc \in Early \cup {"boot_frame", "baud_ack", "baud_frame", "baud_open"} =>
            cur = 0
      BY <1>1 DEF Route, BeforeBins
    <3>2. CASE Stage0 \/ Shake \/ ShakeRead \/ ShakeReadSplit
      BY <1>7, <3>1, <3>2
         DEF Stage0, Shake, ShakeRead, ShakeReadSplit, Goto, VerbReturns, Early
    <3>3. CASE BaudOpen
      BY <1>7, <3>1, <3>3 DEF BaudOpen, BaudOpens, AfterOpen, Goto, Early
    <3>4. CASE FrameRead \/ FrameGivesUp
      <4>1. /\ UNCHANGED <<toChip, cur>> /\ pc \in FrameWaits
            /\ pc' = pc \/ pc' = AfterFrame
        BY <3>4 DEF FrameRead, FrameGivesUp, Goto
      <4>2. pc = "dl_frame"
        BY <1>7, <3>1, <4>1 DEF FrameWaits, AfterFrame
      <4>3. QED
        BY <4>1, <4>2
    <3>5. CASE NextBin
      BY <1>7, <3>5 DEF NextBin, Goto
    <3>6. CASE \/ XferReturns \/ Sleep \/ SetBaudCmd \/ FirstBin \/ EraseCmd
               \/ PollReset \/ ResetRead \/ Restore
      BY <1>7, <3>6
         DEF XferReturns, Sleep, SetBaudCmd, FirstBin, EraseCmd, PollReset,
             ResetRead,
             Restore, Goto, VerbReturns
    <3>7. QED
      BY <3>2, <3>3, <3>4, <3>5, <3>6 DEF HostStep, XferStops
  <2>2. CASE pc \in {"dl_frame", "xfer"} /\ cur' = cur /\ toChip' = toChip
    <3>1. Asked
      BY <1>2, <1>7, <2>2 DEF Asked, NoDownload, Waiting
    <3>2. QED
      BY <1>1, <1>2, <1>7, <2>2, <3>1 DEF Speed
  <2>3. CASE \E b \in left : pc = "next_bin" /\ Send(Download(b))
    <3>1. chip # "ymodem" /\ NoDownload /\ tty = baud
      BY <1>1, <1>7, <2>3
         DEF Place, ChipFollows, Route, End, Late, NoDownload, Fits, Speed,
             FastStages
    <3>2. toChip' = toChip \/ InTune
      BY <2>3 DEF Send
    <3>3. toChip' # toChip
      BY <1>2, <1>7, <3>1 DEF Asked, NoDownload, Waiting
    <3>4. QED
      BY <1>1, <1>2, <3>1, <3>2, <3>3 DEF InTune
  <2>4. QED
    BY <2>1, <2>2, <2>3
<1>8. QED
  BY <1>3, <1>4, <1>6, <1>7 DEF Speed

\* A step that leaves the host where it is.
LEMMA SpeedChip ==
  ASSUME Place, Speed, [Next]_vars,
         \/ XferStore \/ XferStops \/ Tick \/ Lose \/ ChipStep
         \/ UNCHANGED vars
  PROVE  Speed'
<1>1. /\ UNCHANGED <<verb, late_baud, baud, calm>> /\ Handshake' = Handshake
      /\ TypeOK /\ Lone /\ baud \in Speeds
  BY ArgsStay DEF Place, TypeOK
<1>2. UNCHANGED <<pc, cur, tty>>
  BY StopsDo DEF XferStore, XferStops, Tick, Lose, ChipStep, PowerUp, Serve,
         Switch, Settle, ChipOnly, hostVars, vars
<1>3. (calm => budget.io = 0)' /\ (Sound' => Sound)
  BY <1>1, SoundBefore
<1>4. toChip' = toChip \/ (toChip # <<>> /\ toChip' = Tail(toChip))
  BY StopsDo DEF XferStore, XferStops, Tick, Lose, ChipStep, PowerUp, Serve,
         Switch, Settle, vars
<1>5. NoDownload => NoDownload'
  BY <1>1, <1>4, LineKeeps DEF NoDownload
<1>6. CASE Serve
  <2> DEFINE c == Head(toChip)
  <2>1. c \in Commands /\ c \in Waiting
    BY <1>1, <1>6, Behind DEF Serve
  <2>2. \/ UNCHANGED <<chip, chipSpeed>>
        \/ /\ c.cmd = "handshake" /\ chip = "rom" /\ chip' = "rom_ymodem"
           /\ chipSpeed' = c.speed
        \/ /\ c.cmd \in {"setbaud", "download"} /\ chipSpeed' = chipSpeed
           /\ chip' \in {"switching", "loader"} \/ (chip' = "ymodem" /\ c.cmd = "download")
        \/ c.cmd = "rst" /\ chip' = "off"
    BY <1>6 DEF Serve, chipVars
  <2> HIDE DEF c
  <2>3. Fits(c)
    BY <2>1 DEF Place
  <2>4. c.cmd = "handshake" => c = Handshake
    BY <1>1, <2>1, CommandNamed
  <2>5. (chip = "rom_ymodem" => chipSpeed = Handshake.speed)'
    BY <1>1, <2>2, <2>4 DEF Speed
  <2>6. Asked' => Asked
    BY <1>5, <2>1, <2>2 DEF Asked, NoDownload
  <2>7. ASSUME pc \in {"dl_frame", "xfer"}, cur # 0 PROVE chipSpeed' = chipSpeed
    BY <2>2, <2>3, <2>7
       DEF Place, ChipFollows, InLoader, LoaderChip, Fits, Late, End, Mid
  <2>8. QED
    BY <1>1, <1>2, <1>3, <2>5, <2>6, <2>7 DEF Speed
<1>7. CASE \/ XferStore \/ XferStops \/ Tick \/ Lose \/ PowerUp
           \/ Switch \/ Settle \/ UNCHANGED vars
  <2>1. /\ chip' = chip \/ chip' \in {"rom", "loader", "settling", "midfile", "switched"}
        /\ chipSpeed' = chipSpeed \/ (chip = "switching" /\ chip' # chip
                                        /\ chipSpeed' = target.speed)
    BY <1>7, StopsDo
       DEF XferStore, XferStops, Tick, Lose, PowerUp, Switch, Settle, chipVars,
           vars
  <2>2. chip = "switching" => target.speed = baud
    BY CommandSpeeds DEF Place, ChipFollows
  <2>3. (chip = "rom_ymodem" => chipSpeed = Handshake.speed)'
    BY <1>1, <2>1 DEF Speed
  <2>4. Asked' => Asked
    BY <1>5, <2>1 DEF Asked
  <2>5. QED
    BY <1>1, <1>2, <1>3, <2>1, <2>2, <2>3, <2>4 DEF Speed
<1>8. QED
  BY <1>6, <1>7 DEF ChipStep

LEMMA SpeedStays ==
  ASSUME Place, Place', Speed, [Next]_vars
  PROVE  Speed'
<1>1. CASE IoError
  <2>1. TypeOK /\ UNCHANGED <<chip, chipSpeed>> /\ Handshake' = Handshake
    BY <1>1, ArgsStay DEF Place, IoError, chipVars
  <2>2. (calm => budget.io = 0)' /\ (Sound' => Sound /\ tty = "closed")
    BY <1>1, <2>1, SoundBefore
  <2>3. ~Sound'
    BY <2>2 DEF Speed
  <2>4. QED
    BY <2>1, <2>2, <2>3 DEF Speed
<1>2. CASE \/ XferStore \/ XferStops \/ Tick \/ Lose \/ ChipStep
           \/ UNCHANGED vars
  BY <1>2, SpeedChip
<1>3. QED
  BY <1>1, <1>2, SpeedHost DEF Next, HostStep, XferStops

LEMMA InitSpeed == Init => Speed
<1> SUFFICES ASSUME Init PROVE Speed
  OBVIOUS
<1>1. calm => budget.io = 0
  BY DEF Init
<1>2. QED
  BY <1>1 DEF Init, Speed, SlowStages, FastStages

(***************************************************************************)
(* With --baud before the loader or with --late-baud, and whatever answer  *)
(* is lost or late, a chip that waits for a file listens at the speed the  *)
(* host sends it at, as long as no I/O call of the host has failed.        *)
(***************************************************************************)
THEOREM FilesAtOneSpeed == Spec => []SpeedsAgree
<1>1. Place /\ Speed => SpeedsAgree
  <2> SUFFICES ASSUME Place, Speed, pc = "xfer", chip \in {"rom_ymodem", "ymodem"},
                      Sound
               PROVE  tty = chipSpeed
    BY DEF SpeedsAgree, Sound
  <2>1. CASE cur = 0
    <3>1. chip = "rom_ymodem"
      BY <2>1 DEF Place, ChipFollows
    <3>2. QED
      BY <2>1, <3>1 DEF Speed
  <2>2. CASE cur # 0
    <3>1. chip = "ymodem"
      BY <2>2 DEF Place, ChipFollows, InLoader, LoaderChip
    <3>2. QED
      BY <2>2, <3>1 DEF Speed, Asked
  <2>3. QED
    BY <2>1, <2>2
<1>2. Init => Place /\ Speed
  BY InitPlace, InitSpeed
<1>3. Place /\ Speed /\ [Next]_vars => Place' /\ Speed'
  BY PlaceStays, SpeedStays
<1>4. QED
  BY <1>1, <1>2, <1>3, PTL DEF Spec

-----------------------------------------------------------------------------
(* Flash *)

LEMMA ErasCovers ==
  ASSUME NEW n \in Nat
  PROVE  eras_size(n) \in Nat /\ n <= eras_size(n)
<1> DEFINE S == SectorSize
           q == (n + S - 1) \div S
           r == (n + S - 1) % S
<1>1. S \in Nat \ {0}
  BY SessionAssumption
<1>2. n + S - 1 \in Nat /\ q \in Nat /\ r \in 0..(S - 1) /\ n + S - 1 = S * q + r
  BY <1>1
<1>3. S * q \in Nat
  BY <1>1, <1>2
<1>4. eras_size(n) = S * q
  BY DEF eras_size
<1> HIDE DEF S, q, r
<1>5. QED
  BY <1>1, <1>2, <1>3, <1>4

\* A bin lies in its sectors, they lie in the flash, and no two bins share one.
LEMMA SectorsAre ==
  ASSUME NEW b \in Bins
  PROVE  /\ Region(Package[b].addr, Package[b].len) \subseteq Sectors(b)
         /\ Sectors(b) \subseteq Cells
         /\ \A k \in 1..Package[b].len :
              Package[b].addr + k - 1 \in Region(Package[b].addr, Package[b].len)
         /\ \A a \in Bins \ {b} : Sectors(a) \cap Sectors(b) = {}
<1>1. /\ Package[b].addr \in Nat /\ Package[b].len \in Nat
      /\ eras_size(Package[b].len) \in Nat
      /\ Package[b].len <= eras_size(Package[b].len)
  BY BinsAre, ErasCovers
<1>2. Package[b].addr + eras_size(Package[b].len) <= FlashSize /\ FlashSize \in Nat
  BY PartitionTable, SessionAssumption
<1>3. \A a \in Bins \ {b} : Sectors(a) \cap Sectors(b) = {}
  BY PartitionTable
<1>4. QED
  BY <1>1, <1>2, <1>3 DEF Region, Sectors, Cells

\* What a step does to the flash.
LEMMA FlashMoves ==
  ASSUME Place, [Next]_vars
  PROVE  \/ flash' = flash
         \/ /\ XferStore /\ cur \in Work /\ chip = "ymodem" /\ NoDownload
            /\ Len(stored) < Package[cur].len
            /\ stored' = Append(stored, Len(stored) + 1)
            /\ flash' = [flash EXCEPT ![Package[cur].addr + Len(stored)] = cur]
         \/ \E c \in Waiting :
              /\ Serve /\ c.cmd = "download" /\ Fits(c)
              /\ flash' = [x \in Cells |-> IF x \in Region(c.addr, c.eras)
                                             THEN Blank ELSE flash[x]]
<1>1. CASE XferStore
  <2>1. CASE cur = 0
    BY <1>1, <2>1 DEF XferStore
  <2>2. CASE cur # 0
    <3>1. chip = "ymodem" /\ cur \in Work /\ target = Download(cur)
      BY <1>1, <2>2 DEF XferStore, Receiving, Place, TypeOK, ChipFollows
    <3>2. target.addr = Package[cur].addr
      BY <3>1, CmdIs DEF Download
    <3>3. Len(stored) < Package[cur].len /\ stored' = Append(stored, Len(stored) + 1)
      BY <1>1, <2>2 DEF XferStore, Transfer!Store, NBlocks, BlockOf
    <3>4. NoDownload
      BY <3>1 DEF Place, Fits, NoDownload, Listens
    <3>5. QED
      BY <1>1, <2>2, <3>1, <3>2, <3>3, <3>4 DEF XferStore
  <2>3. QED
    BY <2>1, <2>2
<1>2. CASE Serve
  <2>1. Head(toChip) \in Waiting /\ Fits(Head(toChip))
    BY <1>2, Behind DEF Serve, Place
  <2>2. \/ flash' = flash
        \/ /\ Head(toChip).cmd = "download"
           /\ flash' = [x \in Cells |-> IF x \in Region(Head(toChip).addr, Head(toChip).eras)
                                          THEN Blank ELSE flash[x]]
    BY <1>2 DEF Serve, chipVars
  <2>3. QED
    BY <1>2, <2>1, <2>2
<1>3. CASE ~XferStore /\ ~Serve
  BY <1>3, StopsDo
     DEF XferStops, Next, HostStep, ChipStep, Stage0, Shake, ShakeRead,
         XferReturns, Sleep, FrameRead, FrameGivesUp, SetBaudCmd, BaudOpen,
         FirstBin, NextBin, EraseCmd, PollReset, ResetRead, Restore, IoError,
         Tick, PowerUp, Switch, Settle, ShakeReadSplit, Lose, HostOnly,
         ChipOnly, chipVars, vars
<1>4. QED
  BY <1>1, <1>2, <1>3

\* Outside --erase, a step only touches the sectors of the bin the loop is at.
LEMMA FlashCells ==
  ASSUME Place, [Next]_vars, verb # "erase", NEW x \in Cells, flash'[x] # flash[x]
  PROVE  /\ cur \in Work /\ x \in Sectors(cur)
         /\ pc \in {"dl_frame", "xfer"} \/ code = "fail"
<1>1. DOMAIN flash = Cells /\ Work \subseteq Bins
  BY WorkType DEF Place, TypeOK
<1>2. CASE /\ XferStore /\ cur \in Work /\ chip = "ymodem" /\ NoDownload
           /\ Len(stored) < Package[cur].len
           /\ flash' = [flash EXCEPT ![Package[cur].addr + Len(stored)] = cur]
  <2>1. x = Package[cur].addr + Len(stored) /\ pc = "xfer"
    BY <1>1, <1>2 DEF XferStore
  <2>2. Len(stored) \in Nat /\ Package[cur].addr \in Nat /\ Package[cur].len \in Nat
    BY <1>1, <1>2, BinsAre DEF Place, TypeOK
  <2>3. x \in Region(Package[cur].addr, Package[cur].len)
    BY <1>2, <2>1, <2>2 DEF Region
  <2>4. QED
    BY <1>1, <1>2, <2>1, <2>3, SectorsAre
<1>3. ASSUME NEW c \in Waiting, Serve, c.cmd = "download", Fits(c),
             flash' = [y \in Cells |-> IF y \in Region(c.addr, c.eras)
                                         THEN Blank ELSE flash[y]]
      PROVE  /\ cur \in Work /\ x \in Sectors(cur)
             /\ pc \in {"dl_frame", "xfer"} \/ code = "fail"
  <2>1. /\ cur # 0 /\ c = Download(cur)
        /\ pc \in {"dl_frame", "xfer"} \/ code = "fail"
    BY <1>3 DEF Fits
  <2>2. c.addr = Package[cur].addr /\ c.eras = eras_size(Package[cur].len)
    BY <2>1, CmdIs DEF Download
  <2>3. x \in Region(c.addr, c.eras)
    BY <1>3
  <2>4. cur \in Work
    BY <2>1 DEF Place, TypeOK
  <2>5. QED
    BY <2>1, <2>2, <2>3, <2>4 DEF Sectors
<1>4. QED
  BY <1>2, <1>3, FlashMoves

(***************************************************************************)
(* Only --erase erases flash outside the sectors of the bins it downloads, *)
(* whatever is lost, late or fails.                                        *)
(***************************************************************************)
THEOREM ErasesItsSectors == Spec => []ErasesOnlyItsSectors
<1>1. Init => ErasesOnlyItsSectors
  BY DEF Init, ErasesOnlyItsSectors
<1>2. ASSUME Place, ErasesOnlyItsSectors, [Next]_vars PROVE ErasesOnlyItsSectors'
  <2>1. verb' = verb /\ Work' = Work
    BY <1>2, ArgsStay
  <2> SUFFICES ASSUME verb # "erase", NEW x \in Cells \ UNION {Sectors(b) : b \in Work}
               PROVE  flash'[x] = Old
    BY <2>1 DEF ErasesOnlyItsSectors
  <2>2. flash'[x] = flash[x]
    BY <1>2, FlashCells
  <2>3. QED
    BY <1>2, <2>2 DEF ErasesOnlyItsSectors
<1>3. QED
  BY <1>1, <1>2, InitPlace, PlaceStays, PTL DEF Spec

(***************************************************************************)
(* The bins that the flash holds while the loop goes on.                   *)
(***************************************************************************)
Stored ==
  pc = "xfer" /\ cur # 0 =>
    /\ Len(stored) <= Package[cur].len
    /\ stored # <<>> => NoDownload
    /\ \A k \in 1..Len(stored) : flash[Package[cur].addr + k - 1] = cur
    /\ outcome = "delivered" => Len(stored) = Package[cur].len

BinsPhase == pc \in {"next_bin", "dl_frame", "sleep"} \/ (pc = "xfer" /\ cur # 0)

FlashFollows ==
  code # "fail" /\ AllTold =>
    /\ BinsPhase => \A b \in Work \ left :
                      Holds(b) \/ (b = cur /\ pc \in {"dl_frame", "xfer"})
    /\ pc \in Late \cup End => \A b \in Work : Holds(b)

LEMMA StoredStays ==
  ASSUME Place, Stored, [Next]_vars
  PROVE  Stored'
<1>1. Work' = Work /\ Work \subseteq Bins /\ TypeOK /\ Lone
  BY ArgsStay, WorkType DEF Place
<1> SUFFICES ASSUME pc' = "xfer", cur' # 0
             PROVE  /\ Len(stored') <= Package[cur'].len
                    /\ stored' # <<>> => NoDownload'
                    /\ \A k \in 1..Len(stored') :
                         flash'[Package[cur'].addr + k - 1] = cur'
                    /\ outcome' = "delivered" => Len(stored') = Package[cur'].len
  BY DEF Stored
<1>2. cur' \in Bins
  BY <1>1, TypeStays DEF Place, TypeOK
<1>3. Package[cur'].len \in Nat /\ Package[cur'].addr \in Nat
  BY <1>2, BinsAre
<1>4. CASE stored' = <<>> /\ outcome' = "running"
  BY <1>3, <1>4
<1>5. CASE pc = "xfer" /\ cur' = cur /\ ~XferStore /\ ~XferDelivered
  <2>1. stored' = stored /\ (outcome' = outcome \/ outcome' = "unsure")
    BY <1>1, <1>5, StopsDo
       DEF XferStops, XferBreaks, XferCut, XferLate, XferEnds, Next, HostStep,
           ChipStep, Stage0, Shake, ShakeRead,
           XferReturns, Sleep, FrameRead, FrameGivesUp, FrameWaits, SetBaudCmd,
           BaudOpen, BaudOpens, FirstBin, NextBin, EraseCmd, PollReset,
           ResetRead, Restore, IoError, Sends, Reads, Tick, PowerUp, Serve,
           Switch, Settle, ShakeReadSplit, Lose, ChipOnly, xferVars, vars
  <2>2. stored # <<>> => NoDownload /\ flash' = flash
    <3>1. stored # <<>> => NoDownload
      BY <1>5 DEF Stored
    <3>2. QED
      BY <1>5, <3>1, FlashMoves DEF NoDownload
  <2>3. NoDownload => NoDownload'
    <3>1. toChip' = toChip \/ (toChip # <<>> /\ toChip' = Tail(toChip))
      BY <1>1, <1>5, StopsDo
         DEF XferStops, Next, HostStep, ChipStep, Stage0, Shake, ShakeRead,
             XferReturns, Sleep, FrameRead, FrameGivesUp, FrameWaits,
             SetBaudCmd, BaudOpen, BaudOpens, FirstBin, NextBin, EraseCmd,
             PollReset, ResetRead, Restore, IoError, Sends, Reads, Tick,
             PowerUp, Serve, Switch, Settle, ShakeReadSplit, Lose, ChipOnly,
             vars
    <3>2. QED
      BY <1>1, <3>1, LineKeeps DEF NoDownload
  <2>4. CASE stored = <<>>
    BY <1>3, <1>5, <2>1, <2>4 DEF Stored
  <2>5. CASE stored # <<>>
    BY <1>5, <2>1, <2>2, <2>3, <2>5 DEF Stored
  <2>6. QED
    BY <2>4, <2>5
<1>6. CASE XferDelivered
  <2>1. /\ pc = "xfer" /\ cur' = cur /\ UNCHANGED <<stored, flash, toChip>>
        /\ Len(stored) = Package[cur].len
    BY <1>6 DEF XferDelivered, XferEnds, Transfer!Report, NBlocks
  <2>2. QED
    BY <2>1 DEF Stored, NoDownload, Waiting
<1>7. CASE XferStore
  <2>1. pc = "xfer" /\ cur' = cur /\ UNCHANGED <<toChip, outcome>>
        /\ outcome = "running"
    BY <1>7 DEF XferStore, Transfer!Store, hostVars
  <2>2. /\ cur \in Work /\ NoDownload /\ Len(stored) < Package[cur].len
        /\ stored' = Append(stored, Len(stored) + 1)
        /\ flash' = [flash EXCEPT ![Package[cur].addr + Len(stored)] = cur]
    <3>1. chip = "ymodem"
      BY <1>7, <2>1 DEF XferStore, Receiving
    <3>2. ~Serve
      BY <1>7, <2>1 DEF XferStore, Serve, ChipOnly, xferVars, Transfer!Store
    <3>3. flash' = flash => /\ cur \in Work /\ NoDownload
                            /\ Len(stored) < Package[cur].len
                            /\ stored' = Append(stored, Len(stored) + 1)
      BY <1>1, <1>7, <2>1, <3>1
         DEF XferStore, Transfer!Store, NBlocks, BlockOf, TypeOK, Place, Fits,
             NoDownload, Listens
    <3>4. target = Download(cur) /\ target.addr = Package[cur].addr
      BY <3>1, CmdIs DEF Place, ChipFollows, Download
    <3>5. flash' = [flash EXCEPT ![Package[cur].addr + Len(stored)] = cur]
      BY <1>7, <2>1, <3>4 DEF XferStore
    <3>6. QED
      BY <1>7, <3>2, <3>3, <3>5, FlashMoves
  <2>3. /\ stored \in Seq(Nat) /\ Len(stored) \in Nat /\ DOMAIN flash = Cells
        /\ Package[cur].len \in Nat /\ Package[cur].addr \in Nat
    BY <1>1, <1>3, <2>1 DEF TypeOK
  <2>4. Len(stored') = Len(stored) + 1
    BY <2>2, <2>3
  <2>5. \A k \in 1..Package[cur].len : Package[cur].addr + k - 1 \in Cells
    BY <1>1, <2>2, SectorsAre
  <2>6. ASSUME NEW k \in 1..(Len(stored) + 1)
        PROVE  flash'[Package[cur].addr + k - 1] = cur
    <3>1. Package[cur].addr + k - 1 \in Cells
      BY <2>2, <2>3, <2>5
    <3>2. CASE k = Len(stored) + 1
      BY <2>2, <2>3, <3>1, <3>2
    <3>3. CASE k # Len(stored) + 1
      <4>1. k \in 1..Len(stored)
            /\ Package[cur].addr + k - 1 # Package[cur].addr + Len(stored)
        BY <2>3, <3>3
      <4>2. flash[Package[cur].addr + k - 1] = cur
        BY <2>1, <4>1 DEF Stored
      <4>3. QED
        BY <2>2, <2>3, <3>1, <4>1, <4>2
    <3>4. QED
      BY <3>2, <3>3
  <2>7. NoDownload'
    BY <2>1, <2>2 DEF NoDownload, Waiting
  <2>8. QED
    BY <2>1, <2>2, <2>3, <2>4, <2>6, <2>7
<1>8. CASE ~(pc = "xfer" /\ cur' = cur)
  <2>1. pc = "xfer" => cur' = cur
    BY StopsDo DEF Next, HostStep, ChipStep, Stage0, Shake, ShakeRead,
           XferReturns, XferStore, XferStops, Sleep, FrameRead, FrameGivesUp,
           SetBaudCmd, BaudOpen, FirstBin, NextBin, EraseCmd, PollReset,
           ResetRead, Restore, IoError, Tick, PowerUp, Serve, Switch, Settle,
           ShakeReadSplit, Lose, ChipOnly, hostVars, vars
  <2>2. pc # "xfer"
    BY <1>8, <2>1
  <2>3. pc \in Early \cup {"boot_frame", "baud_ack", "baud_frame", "baud_open"} =>
          cur = 0
    BY DEF Place, Route, BeforeBins
  <2>4. CASE Stage0 \/ Shake \/ ShakeRead \/ ShakeReadSplit
    BY <2>3, <2>4
       DEF Stage0, Shake, ShakeRead, ShakeReadSplit, Goto, VerbReturns, Early
  <2>5. CASE BaudOpen
    BY <2>3, <2>5 DEF BaudOpen, BaudOpens, AfterOpen, Goto, Early
  <2>6. CASE FrameRead \/ FrameGivesUp
    BY <1>4, <2>2, <2>6 DEF FrameRead, FrameGivesUp, Goto, EnterXfer
  <2>7. CASE IoError
    <3>1. pc \in BaudOpens => cur = 0
      BY <2>3 DEF BaudOpens, Early
    <3>2. cur' = cur
      BY <2>7 DEF IoError
    <3>3. pc \in FrameWaits /\ EnterXfer(AfterFrame) /\ pc' = AfterFrame
      BY <2>7, <3>1, <3>2 DEF IoError, Goto, VerbReturns
    <3>4. QED
      BY <1>4, <3>3 DEF EnterXfer
  <2>8. CASE \/ XferReturns \/ Sleep \/ SetBaudCmd \/ FirstBin \/ NextBin \/ EraseCmd
             \/ PollReset \/ ResetRead \/ Restore
    BY <2>2, <2>8
       DEF XferReturns, Sleep, SetBaudCmd, FirstBin, NextBin, EraseCmd, PollReset,
           ResetRead, Restore, Goto, VerbReturns
  <2>9. CASE \/ XferStore \/ XferStops \/ Tick \/ Lose \/ ChipStep
             \/ UNCHANGED vars
    BY <2>2, <2>9, StopsDo
       DEF XferStore, XferStops, Tick, Lose, ChipStep, PowerUp, Serve, Switch,
           Settle, ChipOnly, hostVars, vars
  <2>10. QED
    BY <2>4, <2>5, <2>6, <2>7, <2>8, <2>9 DEF Next, HostStep, XferStops
<1>9. QED
  BY <1>5, <1>6, <1>7, <1>8

\* A step does not disturb what the flash holds of the other bins.
LEMMA HoldsStay ==
  ASSUME Place, [Next]_vars, NEW b \in Work, Holds(b),
         b # cur \/ (pc \notin {"dl_frame", "xfer"} /\ code # "fail")
  PROVE  Holds(b)'
<1>1. Work \subseteq Bins /\ verb # "erase"
  BY WorkType DEF Place
<1>2. \A x \in Cells : flash'[x] # flash[x] =>
        /\ cur \in Work /\ x \in Sectors(cur)
        /\ pc \in {"dl_frame", "xfer"} \/ code = "fail"
  BY <1>1, FlashCells
<1>3. \A x \in Region(Package[b].addr, Package[b].len) : x \in Cells /\ x \in Sectors(b)
  BY <1>1, SectorsAre
<1>4. b # cur => \A x \in Sectors(b) : cur \in Work => x \notin Sectors(cur)
  BY <1>1, SectorsAre
<1>5. QED
  BY <1>2, <1>3, <1>4 DEF Holds

\* The way of the host from bin to bin.
LEMMA LoopMoves ==
  ASSUME Place, [Next]_vars, code' # "fail", AllTold'
  PROVE  /\ code # "fail" /\ AllTold
         /\ \/ UNCHANGED <<pc, cur, left>>
            \/ pc = "first_bin" /\ pc' = "next_bin" /\ left' = Work
            \/ /\ pc = "next_bin" /\ pc' = "dl_frame" /\ cur' \in left
               /\ left' = left \ {cur'}
            \/ pc = "next_bin" /\ pc' = "reset" /\ left = {}
            \/ pc = "dl_frame" /\ pc' = "xfer" /\ UNCHANGED <<cur, left>>
            \/ /\ pc = "xfer" /\ cur # 0 /\ outcome = "delivered" /\ pc' = "sleep"
               /\ UNCHANGED <<cur, left>>
            \/ pc = "sleep" /\ pc' = "next_bin" /\ UNCHANGED <<cur, left>>
            \/ verb = "erase" /\ pc = "erase_frame" /\ pc' = "reset"
            \/ pc \in Late \cup End /\ pc' \in Late \cup End
            \/ ~BinsPhase' /\ pc' \notin Late \cup End
<1>1. Route /\ TypeOK
  BY DEF Place
<1>2. CASE Stage0 \/ Shake \/ ShakeRead \/ ShakeReadSplit
  BY <1>1, <1>2
     DEF Stage0, Shake, ShakeRead, ShakeReadSplit, Goto, VerbReturns, HostOnly,
         Route,
         BeforeBins, Early, Late, End, BinsPhase, AllTold
<1>3. CASE BaudOpen
  BY <1>1, <1>3
     DEF BaudOpen, BaudOpens, AfterOpen, Goto, Route, BeforeBins, Early, Late, End,
         BinsPhase, AllTold
<1>4. CASE XferReturns
  BY <1>1, <1>4
     DEF XferReturns, Goto, VerbReturns, Route, Late, End, BinsPhase, AllTold
<1>5. CASE Sleep \/ SetBaudCmd \/ FirstBin \/ NextBin \/ EraseCmd
  BY <1>1, <1>5
     DEF Sleep, SetBaudCmd, FirstBin, NextBin, TakeBin, EraseCmd, Goto, Route, Late,
         End, BinsPhase, AllTold
<1>6. CASE PollReset \/ ResetRead \/ Restore
  BY <1>1, <1>6
     DEF PollReset, ResetRead, Restore, Goto, VerbReturns, Route, Late, End,
                 AllTold
<1>7. ASSUME pc \in FrameWaits, pc' = AfterFrame, UNCHANGED <<cur, left, code, cut, late>>
      PROVE  /\ code # "fail" /\ AllTold
             /\ \/ pc = "dl_frame" /\ pc' = "xfer" /\ UNCHANGED <<cur, left>>
                \/ verb = "erase" /\ pc = "erase_frame" /\ pc' = "reset"
                \/ ~BinsPhase' /\ pc' \notin Late \cup End
  BY <1>1, <1>7 DEF FrameWaits, AfterFrame, Route, Late, End, BinsPhase, AllTold
<1>8. CASE FrameRead \/ FrameGivesUp
  <2>1. /\ UNCHANGED <<cur, left, code, cut, late>> /\ pc \in FrameWaits
        /\ pc' = pc \/ pc' = AfterFrame
    BY <1>8 DEF FrameRead, FrameGivesUp, Goto
  <2>2. CASE pc' = pc
    BY <2>1, <2>2 DEF AllTold
  <2>3. CASE pc' = AfterFrame
    BY <1>7, <2>1, <2>3
  <2>4. QED
    BY <2>1, <2>2, <2>3
<1>9. CASE IoError
  <2>1. UNCHANGED <<cur, left, cut, late>>
    BY <1>9 DEF IoError
  <2>2. \/ pc \in BaudOpens /\ pc' = AfterOpen /\ code' = code
        \/ pc \in FrameWaits /\ pc' = AfterFrame /\ code' = code
        \/ pc \in Late /\ pc' = "restore" /\ code = "none"
        \/ pc = "restore" /\ pc' = "exit" /\ code' = code
    BY <1>1, <1>9 DEF IoError, Goto, VerbReturns, Late, Route, End
  <2>3. CASE pc \in FrameWaits /\ pc' = AfterFrame /\ code' = code
    BY <1>7, <2>1, <2>3
  <2>4. CASE ~(pc \in FrameWaits /\ pc' = AfterFrame /\ code' = code)
    BY <1>1, <2>1, <2>2, <2>4
       DEF BaudOpens, AfterOpen, Route, BeforeBins, Early, Late, End, BinsPhase,
           AllTold
  <2>5. QED
    BY <2>3, <2>4
<1>10. CASE \/ XferStore \/ XferStops \/ Tick \/ Lose \/ ChipStep
            \/ UNCHANGED vars
  BY <1>10, StopsDo
     DEF XferStore, XferStops, Tick, Lose, ChipStep, PowerUp, Serve, Switch,
         Settle, ChipOnly, hostVars, vars, AllTold
<1>11. QED
  BY <1>2, <1>3, <1>4, <1>5, <1>6, <1>8, <1>9, <1>10 DEF Next, HostStep, XferStops

LEMMA FlashStays ==
  ASSUME Place, Stored, FlashFollows, [Next]_vars
  PROVE  FlashFollows'
<1>1. Work' = Work /\ (verb = "erase" => Work = {}) /\ 0 \notin Work
  BY ArgsStay, WorkType DEF Place
<1> SUFFICES ASSUME code' # "fail", AllTold'
             PROVE  /\ BinsPhase' => \A b \in Work \ left' :
                         Holds(b)' \/ (b = cur' /\ pc' \in {"dl_frame", "xfer"})
                    /\ pc' \in Late \cup End => \A b \in Work : Holds(b)'
  BY <1>1 DEF FlashFollows
<1>2. /\ BinsPhase => \A b \in Work \ left :
                        Holds(b) \/ (b = cur /\ pc \in {"dl_frame", "xfer"})
      /\ pc \in Late \cup End => \A b \in Work : Holds(b)
      /\ code # "fail"
  BY LoopMoves DEF FlashFollows
<1>3. \A b \in Work : Holds(b) /\ (b # cur \/ pc \notin {"dl_frame", "xfer"})
                         => Holds(b)'
  BY <1>2, HoldsStay
<1>4. CASE UNCHANGED <<pc, cur, left>>
  <2>1. BinsPhase' = BinsPhase
    BY <1>4 DEF BinsPhase
  <2>2. pc \in Late \cup End => pc \notin {"dl_frame", "xfer"}
    BY DEF Late, End
  <2>3. QED
    BY <1>2, <1>3, <1>4, <2>1, <2>2
<1>5. CASE pc = "first_bin" /\ pc' = "next_bin" /\ left' = Work
  BY <1>5 DEF Late, End
<1>6. CASE /\ pc = "next_bin" /\ pc' = "dl_frame" /\ cur' \in left
           /\ left' = left \ {cur'}
  BY <1>2, <1>3, <1>6 DEF BinsPhase, Late, End
<1>7. CASE pc = "next_bin" /\ pc' = "reset" /\ left = {}
  BY <1>2, <1>3, <1>7 DEF BinsPhase
<1>8. CASE pc = "dl_frame" /\ pc' = "xfer" /\ UNCHANGED <<cur, left>>
  BY <1>2, <1>3, <1>8 DEF BinsPhase, Late, End
<1>9. CASE /\ pc = "xfer" /\ cur # 0 /\ outcome = "delivered" /\ pc' = "sleep"
           /\ UNCHANGED <<cur, left>>
  <2>1. cur \in Bins
    BY <1>9, WorkType DEF Place, TypeOK
  <2>2. /\ Package[cur].len \in Nat /\ Package[cur].addr \in Nat
        /\ Len(stored) = Package[cur].len
        /\ \A k \in 1..Len(stored) : flash[Package[cur].addr + k - 1] = cur
    BY <1>9, <2>1, BinsAre DEF Stored
  <2>3. Holds(cur)
    <3> SUFFICES ASSUME NEW x \in Region(Package[cur].addr, Package[cur].len)
                 PROVE  flash[x] = cur
      BY DEF Holds
    <3> DEFINE k == x - Package[cur].addr + 1
    <3>1. x \in Int /\ Package[cur].addr <= x /\ x < Package[cur].addr + Package[cur].len
      BY SessionAssumption DEF Region, Cells
    <3>2. k \in 1..Len(stored) /\ Package[cur].addr + k - 1 = x
      <4> HIDE DEF k
      <4>1. k = x - Package[cur].addr + 1
        BY DEF k
      <4>2. /\ Package[cur].addr \in Nat /\ Package[cur].len \in Nat
            /\ Len(stored) = Package[cur].len
        BY <2>2
      <4>3. QED
        BY <3>1, <4>1, <4>2
    <3> HIDE DEF k
    <3>3. flash[Package[cur].addr + k - 1] = cur
      BY <2>2, <3>2
    <3>4. QED
      BY <3>2, <3>3
  <2>4. flash' = flash
    <3>1. ~XferStore
      BY <1>9 DEF XferStore, hostVars
    <3>2. ~Serve
      BY <1>9 DEF Serve, ChipOnly, hostVars
    <3>3. QED
      BY <3>1, <3>2, FlashMoves
  <2>5. \A b \in Work \ left : Holds(b)
    BY <1>2, <1>9, <2>3 DEF BinsPhase
  <2>6. QED
    BY <1>9, <2>4, <2>5 DEF Holds, Late, End
<1>10. CASE pc = "sleep" /\ pc' = "next_bin" /\ UNCHANGED <<cur, left>>
  BY <1>2, <1>3, <1>10 DEF BinsPhase, Late, End
<1>11. CASE verb = "erase" /\ pc = "erase_frame" /\ pc' = "reset"
  BY <1>1, <1>11
<1>12. CASE pc \in Late \cup End /\ pc' \in Late \cup End
  BY <1>2, <1>3, <1>12 DEF BinsPhase, Late, End
<1>13. CASE ~BinsPhase' /\ pc' \notin Late \cup End
  BY <1>13
<1>14. QED
  BY <1>4, <1>5, <1>6, <1>7, <1>8, <1>9, <1>10, <1>11, <1>12, <1>13, LoopMoves

(***************************************************************************)
(* Exit status 0 of --flash, --write and --write-program means that the    *)
(* flash holds every bin that was asked for, or what was in its place when *)
(* --flash passes over its type, for every package whose bins do not share *)
(* a sector and every mixture of losses, timeouts and                      *)
(* failing calls, if each transfer that did not deliver its file returned  *)
(* an error < 0.  (Transfers that did not, by EXIT_FAILURE or by an early  *)
(* EXIT_SUCCESS, are in cut and late, and the run goes on after them.)     *)
(***************************************************************************)
THEOREM ExitZeroMeansFlashed == Spec => []FlashedOnSuccess
<1>1. Init => Place /\ Stored /\ FlashFollows
  <2>1. Init => Stored /\ FlashFollows
    BY DEF Init, Stored, FlashFollows, BinsPhase, Late, End
  <2>2. QED
    BY <2>1, InitPlace
<1>2. Place /\ Stored /\ FlashFollows /\ [Next]_vars
        => Place' /\ Stored' /\ FlashFollows'
  BY PlaceStays, StoredStays, FlashStays
<1>3. Place /\ FlashFollows /\ ErasesOnlyItsSectors => FlashedOnSuccess
  <2> SUFFICES ASSUME Place, FlashFollows, ErasesOnlyItsSectors,
                      code = "ok", AllTold, NEW b \in Marked
               PROVE  IF Skipped(b) THEN \A c \in Sectors(b) : flash[c] = Old
                                    ELSE Holds(b)
    BY DEF FlashedOnSuccess
  <2>1. CASE Skipped(b)
    <3>1. verb = "flash" /\ b \in Bins /\ b \notin Work
      BY <2>1 DEF Marked, Skipped, Work
    <3>2. Work \subseteq Bins
      BY WorkType DEF Place
    <3>3. \A a \in Work : Sectors(a) \cap Sectors(b) = {}
      BY <3>1, <3>2, PartitionTable
    <3>4. Sectors(b) \subseteq Cells \ UNION {Sectors(a) : a \in Work}
      BY <3>3 DEF Sectors, Region
    <3>5. QED
      BY <2>1, <3>1, <3>4 DEF ErasesOnlyItsSectors
  <2>2. CASE ~Skipped(b)
    <3>1. b \in Work
      BY <2>2 DEF Marked, Skipped, Work
    <3>2. QED
      BY <2>2, <3>1 DEF Place, Route, FlashFollows, End
  <2>3. QED
    BY <2>1, <2>2
<1>4. QED
  BY <1>1, <1>2, <1>3, ErasesItsSectors, PTL DEF Spec

-----------------------------------------------------------------------------
(* --erase when nothing fails *)

Erased == \A c \in Cells : flash[c] = Blank
Quiet == budget.io = 0 /\ budget.loss = 0 /\ budget.split = 0 /\ budget.cut = 0
         /\ budget.late = 0

(***************************************************************************)
(* The one way of a calm --erase to its erase command and past it.         *)
(***************************************************************************)
CalmErase ==
  calm /\ verb = "erase" =>
    /\ Quiet /\ AllTold
    /\ pc = "xfer" /\ outcome = "delivered" =>
         InTune /\ toHost = <<"text", "frame">>
    /\ pc = "boot_frame" =>
         /\ chip = "loader" /\ InTune /\ toChip = <<>>
         /\ toHost \in {<<"text", "frame">>, <<"frame">>}
    /\ pc = "erase" =>
         chip = "loader" /\ InTune /\ toChip = <<>> /\ toHost = <<>>
    /\ pc = "erase_frame" =>
         \/ /\ chip = "loader" /\ InTune /\ toChip = <<EraseAll>> /\ toHost = <<>>
            /\ age = 0
         \/ Erased
    /\ pc \in Late \/ code = "ok" => Erased

LEMMA ErasedStays ==
  ASSUME Place, [Next]_vars, verb = "erase", Erased
  PROVE  Erased'
<1>1. Work = {} /\ DOMAIN flash = Cells
  BY WorkType DEF Place, TypeOK
<1>2. QED
  BY <1>1, FlashMoves DEF Erased

\* The erase command erases all of the flash.
LEMMA EraseAllErases ==
  ASSUME Place, [Next]_vars, Serve, chip = "loader", toChip = <<EraseAll>>
  PROVE  Erased'
<1>1. /\ Head(toChip) = EraseAll /\ EraseAll.cmd = "download" /\ EraseAll.addr = 0
      /\ EraseAll.eras = FlashSize
  BY CmdIs DEF EraseAll
<1>2. flash' = [x \in Cells |-> IF x \in Region(0, FlashSize) THEN Blank ELSE flash[x]]
  BY <1>1 DEF Serve
<1>3. \A x \in Cells : x \in Region(0, FlashSize)
  BY SessionAssumption DEF Region, Cells
<1>4. QED
  BY <1>2, <1>3 DEF Erased

LEMMA CalmStays ==
  ASSUME Place, Speed, CalmErase, [Next]_vars
  PROVE  CalmErase'
<1>1. verb' = verb /\ calm' = calm /\ TypeOK /\ Route /\ EraseAll' = EraseAll
  BY ArgsStay DEF Place, EraseAll
<1> SUFFICES ASSUME calm, verb = "erase"
             PROVE  /\ Quiet' /\ AllTold'
                    /\ pc' = "xfer" /\ outcome' = "delivered" =>
                         InTune' /\ toHost' = <<"text", "frame">>
                    /\ pc' = "boot_frame" =>
                         /\ chip' = "loader" /\ InTune' /\ toChip' = <<>>
                         /\ toHost' \in {<<"text", "frame">>, <<"frame">>}
                    /\ pc' = "erase" =>
                         /\ chip' = "loader" /\ InTune' /\ toChip' = <<>>
                         /\ toHost' = <<>>
                    /\ pc' = "erase_frame" =>
                         \/ /\ chip' = "loader" /\ InTune' /\ toChip' = <<EraseAll>>
                            /\ toHost' = <<>> /\ age' = 0
                         \/ Erased'
                    /\ pc' \in Late \/ code' = "ok" => Erased'
  BY <1>1 DEF CalmErase
<1>2. /\ Quiet /\ AllTold /\ cur = 0
      /\ tty # "closed" /\ ~IoError /\ (Erased => Erased')
  <2>1. Sound /\ Sound'
    BY <1>1 DEF Sound
  <2>2. tty # "closed" /\ ~IoError
    BY <1>1, <2>1, SoundBefore DEF Speed
  <2>3. cur = 0
    BY <1>1, WorkType DEF TypeOK
  <2>4. QED
    BY <2>2, <2>3, ErasedStays DEF CalmErase
<1>3. ~Lose /\ ~ShakeReadSplit
  BY <1>2 DEF Quiet, Lose, ShakeReadSplit
<1>4. UNCHANGED <<budget, cut, late>>
  BY <1>2, <1>3, StopsDo
     DEF Quiet, Next, HostStep, ChipStep, Stage0, Shake, ShakeRead, XferReturns,
         XferStore, XferStops, Sleep, FrameRead, FrameGivesUp, SetBaudCmd,
         BaudOpen, FirstBin, NextBin, EraseCmd, PollReset, ResetRead, Restore,
         Tick, PowerUp, Serve, Switch, Settle, HostOnly, ChipOnly, hostVars,
         vars
<1>5. Quiet' /\ AllTold'
  BY <1>2, <1>4 DEF Quiet, AllTold
<1>6. pc \notin Late \cup End => code = "none"
  BY <1>1 DEF Route
<1>7. CASE Stage0 \/ Shake \/ ShakeRead \/ BaudOpen
  <2>1. /\ pc' \in Early \cup {"xfer", "restore", "baud_frame"} /\ code' # "ok"
        /\ pc' = "xfer" => outcome' = "running"
    BY <1>1, <1>6, <1>7
       DEF Stage0, Shake, ShakeRead, BaudOpen, BaudOpens, AfterOpen, Goto,
           VerbReturns, xferVars, Place, Route, CutFollows, Untold, NoDownload,
           Waiting, Early, Late, End
  <2>2. QED
    BY <1>5, <2>1 DEF Early, Late
<1>8. CASE XferDelivered
  BY <1>1, <1>2, <1>5, <1>6, <1>8
     DEF XferDelivered, XferEnds, ChipCloses, Receiving, InTune, Late, End
<1>9. CASE XferStore \/ XferBreaks \/ XferCut \/ XferLate
  <2>1. /\ pc' = "xfer" /\ outcome' # "delivered" /\ code' = code /\ code = "none"
    BY <1>6, <1>9, StopsDo
       DEF XferStore, XferStops, XferBreaks, XferCut, XferLate, XferEnds,
           Transfer!Store, hostVars, Late, End
  <2>2. QED
    BY <1>5, <2>1 DEF Late
<1>10. CASE XferReturns
  <2>1. /\ pc = "xfer" /\ code = "none" /\ UNCHANGED <<chip, chipSpeed, tty, toChip, toHost>>
        /\ \/ pc' = "restore" /\ code' = "fail"
           \/ outcome = "delivered" /\ pc' = "boot_frame" /\ code' = code
    BY <1>2, <1>6, <1>10
       DEF XferReturns, Goto, VerbReturns, HostOnly, chipVars, AllTold, Late, End
  <2>2. outcome = "delivered" => /\ chip = "loader" /\ toChip = <<>> /\ InTune
                                 /\ toHost = <<"text", "frame">>
    BY <1>2, <2>1 DEF Place, ChipFollows, CalmErase
  <2>3. QED
    BY <1>5, <2>1, <2>2 DEF InTune, Late
<1>11. CASE FrameRead
  <2>1. /\ UNCHANGED <<chip, chipSpeed, tty, toChip, code>> /\ toHost # <<>>
        /\ toHost' = Tail(toHost) /\ pc \in FrameWaits
        /\ \/ Head(toHost) \in {"frame", "ack"} /\ pc' = AfterFrame
           \/ Head(toHost) \notin {"frame", "ack"} /\ pc' = pc
    BY <1>11 DEF FrameRead, Goto, HostOnly, chipVars
  <2>2. pc \in {"boot_frame", "erase_frame"}
    BY <1>1, <1>2, <2>1 DEF FrameWaits, TypeOK, Route
  <2>3. code = "none"
    BY <1>6, <2>2 DEF Late, End
  <2>4. CASE pc = "boot_frame"
    <3>1. AfterFrame = "erase"
      BY <2>4 DEF AfterFrame
    <3>2. /\ chip = "loader" /\ InTune /\ toChip = <<>>
          /\ \/ toHost = <<"text", "frame">> /\ Head(toHost) = "text"
                /\ Tail(toHost) = <<"frame">>
             \/ toHost = <<"frame">> /\ Head(toHost) = "frame" /\ Tail(toHost) = <<>>
      <4>1. /\ chip = "loader" /\ InTune /\ toChip = <<>>
            /\ toHost \in {<<"text", "frame">>, <<"frame">>}
        BY <2>4 DEF CalmErase
      <4>2. /\ Head(<<"text", "frame">>) = "text" /\ Head(<<"frame">>) = "frame"
            /\ Tail(<<"text", "frame">>) = <<"frame">> /\ Tail(<<"frame">>) = <<>>
        OBVIOUS
      <4>3. QED
        BY <4>1, <4>2
    <3>3. QED
      BY <1>5, <2>1, <2>3, <2>4, <3>1, <3>2 DEF InTune, Late
  <2>5. CASE pc = "erase_frame"
    <3>1. AfterFrame = "reset" /\ Erased
      BY <2>1, <2>5 DEF AfterFrame, CalmErase
    <3>2. QED
      BY <1>2, <1>5, <2>1, <2>5, <3>1
  <2>6. QED
    BY <2>2, <2>4, <2>5
<1>12. CASE FrameGivesUp
  <2>1. /\ toHost = <<>> /\ age > FrameTimeout /\ pc \in FrameWaits /\ code' = code
        /\ pc' = AfterFrame
    BY <1>12 DEF FrameGivesUp, Goto
  <2>2. pc \in {"boot_frame", "erase_frame"} /\ code = "none"
    BY <1>1, <1>2, <1>6, <2>1 DEF FrameWaits, TypeOK, Route, Late, End
  <2>3. pc # "boot_frame"
    BY <2>1 DEF CalmErase
  <2>4. age # 0
    BY <2>1, SessionAssumption
  <2>5. Erased /\ pc' = "reset"
    BY <2>1, <2>2, <2>3, <2>4 DEF CalmErase, AfterFrame
  <2>6. QED
    BY <1>2, <1>5, <2>5
<1>13. CASE EraseCmd
  <2>1. /\ pc = "erase" /\ pc' = "erase_frame" /\ age' = 0 /\ code' = code
        /\ UNCHANGED <<chip, chipSpeed, tty, toHost>> /\ Send(EraseAll)
    BY <1>13 DEF EraseCmd, Goto, HostOnly, chipVars
  <2>2. /\ chip = "loader" /\ InTune /\ toChip = <<>> /\ toHost = <<>>
        /\ code = "none"
    BY <1>6, <2>1 DEF CalmErase, Late, End
  <2>3. toChip' = <<EraseAll>>
    BY <2>1, <2>2, SessionAssumption DEF Send
  <2>4. QED
    BY <1>5, <2>1, <2>2, <2>3 DEF InTune, Late
<1>14. CASE PollReset \/ ResetRead \/ Restore
  <2>1. /\ pc' \in Late \cup End
        /\ pc' \in Late \/ code' = "ok" => pc \in Late \/ code = "ok"
    BY <1>14 DEF PollReset, ResetRead, Restore, Goto, VerbReturns, Late, End
  <2>2. pc' \in Late \/ code' = "ok" => Erased'
    BY <1>2, <2>1 DEF CalmErase
  <2>3. QED
    BY <1>5, <2>1, <2>2 DEF Late, End
<1>15. ~Sleep /\ ~SetBaudCmd /\ ~FirstBin /\ ~NextBin
  BY <1>1, <1>2 DEF Sleep, SetBaudCmd, FirstBin, NextBin, TypeOK, Route
<1>16. CASE Tick
  <2>1. /\ UNCHANGED <<pc, outcome, chip, chipSpeed, tty, toChip, toHost, code>>
        /\ toChip = <<>>
    BY <1>16 DEF Tick, chipVars, xferVars
  <2>2. QED
    BY <1>2, <1>5, <2>1 DEF CalmErase, InTune
<1>17. CASE PowerUp \/ Switch \/ Settle
  <2>1. UNCHANGED <<pc, outcome, tty, code, age>> /\ chip \in {"off", "switching", "switched", "settling"}
    BY <1>17 DEF PowerUp, Switch, Settle, ChipOnly, hostVars, xferVars
  <2>2. pc = "xfer" /\ outcome = "delivered" => chip = "loader"
    BY <1>2 DEF Place, ChipFollows
  <2>3. QED
    BY <1>2, <1>5, <2>1, <2>2 DEF CalmErase
<1>18. CASE Serve
  <2>1. UNCHANGED <<pc, outcome, code>> /\ toChip # <<>>
    BY <1>18 DEF Serve, ChipOnly, hostVars, xferVars
  <2>2. ~(pc = "xfer" /\ outcome = "delivered")
    BY <2>1 DEF Place
  <2>3. pc = "erase_frame" => Erased'
    BY <1>2, <1>18, EraseAllErases DEF CalmErase
  <2>4. QED
    BY <1>2, <1>5, <2>1, <2>2, <2>3 DEF CalmErase
<1>19. CASE UNCHANGED vars
  BY <1>2, <1>5, <1>19 DEF CalmErase, vars, hostVars, xferVars, chipVars, InTune
<1>20. QED
  BY <1>2, <1>3, <1>7, <1>8, <1>9, <1>10, <1>11, <1>12, <1>13, <1>14, <1>15, <1>16,
     <1>17, <1>18, <1>19 DEF Next, HostStep, ChipStep, XferStops

(***************************************************************************)
(* Exit status 0 of --erase means that the flash is erased when the chip   *)
(* answers in time and nothing is lost: for every flash, timeout and pair  *)
(* of speeds.                                                              *)
(***************************************************************************)
THEOREM CalmEraseErases == Spec => []ErasedWhenCalm
<1>1. Init => Place /\ Speed /\ CalmErase
  <2>1. Init => CalmErase
    BY DEF Init, CalmErase, Quiet, AllTold, Late
  <2>2. QED
    BY <2>1, InitPlace, InitSpeed
<1>2. Place /\ Speed /\ CalmErase /\ [Next]_vars => Place' /\ Speed' /\ CalmErase'
  BY PlaceStays, SpeedStays, CalmStays
<1>3. CalmErase => ErasedWhenCalm
  BY DEF CalmErase, ErasedWhenCalm, ErasedOnSuccess, Erased
<1>4. QED
  BY <1>1, <1>2, <1>3, PTL DEF Spec
====
