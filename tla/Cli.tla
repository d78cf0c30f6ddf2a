-------------------------------- MODULE Cli --------------------------------
(***************************************************************************)
(* The command line (source/cli): Uart edits a line in _rx_buffer, echoing *)
(* through a ring of TX_BUFFER_SIZE characters that output() fills and     *)
(* send() empties, and Interpreter splits the line and runs a command of   *)
(* the user.  Text is a sequence of characters, here letters, spaces and   *)
(* the fixed pieces the code prints.                                       *)
(*                                                                         *)
(* output() is called by one thread at a time, so it finds the ring empty. *)
(* What the user's command does is left out.                               *)
(***************************************************************************)
EXTENDS Integers, SequencesExt, FiniteSetsExt

CONSTANTS
    Letters,
    CommandSets,    \* what set_user_commands() may be called with
    UserTexts,      \* what other code prints through vccli_output()
    RxBufferSize, TxBufferSize, MaxLineLength, MaxArgs

Space == " "

ASSUME CliAssumption ==
    /\ Space \notin Letters
    /\ RxBufferSize \in 1 .. 255    \* 128
    /\ TxBufferSize \in 3 .. 2 ^ 15 /\ MaxLineLength \in 2 .. 2 ^ 15
    /\ MaxArgs \in Nat \ {0}
    /\ UserTexts \subseteq Seq(Letters \cup {Space})

VARIABLES
    rx,         \* the first _rx_length characters of _rx_buffer
    txHead,
    commands,   \* the names of the user's commands
    printed,    \* what the last step sent to putchar()
    ran         \* the command it ran, with its arguments, or <<>>

cliVars == <<rx, txHead, commands, printed, ran>>

-----------------------------------------------------------------------------
(* Output.                                                                 *)

Newline == <<"CR", "LF">>
Prompt  == <<">", Space>>
Rubout  == <<"BS", Space, "BS">>

AtMost(n, s) == SubSeq(s, 1, Min({n, Len(s)}))

(* The cells s occupies in the ring, as send() visits them: up to the end  *)
(* of the array, then from its beginning.  cell[j] is the character of s   *)
(* that output() has put in cell j.                                        *)
Chunks(head, s) ==
    LET cell  == [j \in 0 .. TxBufferSize - 1 |-> ((j - head) % TxBufferSize) + 1]
        first == Min({Len(s), TxBufferSize - head})
    IN  [i \in 1 .. Len(s) |-> s[cell[IF i <= first THEN head + i - 1 ELSE i - 1 - first]]]

Output(tx, s) ==
    LET in == AtMost(TxBufferSize, s)
    IN  [head |-> (tx.head + Len(in)) % TxBufferSize, sent |-> tx.sent \o Chunks(tx.head, in)]

(* vsnprintf() into MAX_LINE_LENGTH characters, the last of which is NUL.  *)
Format(s) == AtMost(MaxLineLength - 1, s)

(* A step prints pieces, one output() each. *)
Outputs(head, pieces) ==
    LET tx[i \in 0 .. Len(pieces)] ==
            IF i = 0 THEN [head |-> head, sent |-> <<>>] ELSE Output(tx[i - 1], pieces[i])
    IN  tx[Len(pieces)]

Prints(pieces) ==
    /\ printed' = Outputs(txHead, pieces).sent
    /\ txHead' = Outputs(txHead, pieces).head

(* thread_cli_uart_handler() prints the first prompt. *)
Started == Output([head |-> 0, sent |-> <<>>], Prompt)

CliInit ==
    /\ rx = <<>> /\ commands = {} /\ ran = <<>>
    /\ txHead = Started.head /\ printed = Started.sent

-----------------------------------------------------------------------------
(* process_line() of buf, whose length it is told is n.                    *)

Stripped(buf) == LET k == Max({i \in 0 .. Len(buf) : \A j \in 1 .. i : buf[j] = Space})
                 IN  SubSeq(buf, k + 1, Len(buf))

(* What strcmp() and a handler see of buf from i on, spaces replaced by    *)
(* NUL up to n.                                                            *)
StringAt(buf, n, i) ==
    LET end == Min({j \in i .. n : buf[j] = Space} \cup {Len(buf) + 1})
    IN  SubSeq(buf, i, end - 1)

(* argv after i characters: where the arguments begin. *)
Begun(buf, n) ==
    LET argv[i \in 0 .. n] ==
            IF i < 2 THEN <<>>
            ELSE IF buf[i - 1] = Space THEN Append(argv[i - 1], i)
            ELSE argv[i - 1]
    IN  argv

(* Fault: one argument more than there are cells. *)
TooManyArgsLate(buf, n) == n > 1 /\ Len(Begun(buf, n)[n - 1]) > MaxArgs

(* The line is given up when there are characters left after the last      *)
(* argument that fits has begun.                                           *)
TooManyArgs(buf, n) == n > 1 /\ Len(Begun(buf, n)[n - 1]) >= MaxArgs

ArgV(buf, n) ==
    LET begun == Begun(buf, n)[n]
    IN  [k \in DOMAIN begun |-> StringAt(buf, n, begun[k])]

UnknownCommand(cmd) == Format(<<"Unknown command: ">> \o cmd \o Newline)
Done                == Format(<<"Done">> \o Newline)

ProcessLine(buf, n) ==
    LET cmd == StringAt(buf, n, 1)
    IN  IF TooManyArgs(buf, n) \/ commands = {}
        THEN ran' = <<>> /\ Prints(<<Newline, Prompt>>)
        ELSE IF cmd \in commands
        THEN ran' = <<cmd>> \o ArgV(buf, n) /\ Prints(<<Newline, Done, Prompt>>)
        ELSE ran' = <<>> /\ Prints(<<Newline, UnknownCommand(cmd), Prompt>>)

-----------------------------------------------------------------------------
(* receive_task() of one character.                                        *)

EnterNothing ==
    /\ rx = <<>>
    /\ ran' = <<>>
    /\ Prints(<<Newline, Prompt>>)
    /\ UNCHANGED <<rx, commands>>

(* The NUL after RX_BUFFER_SIZE characters is written past the buffer, to  *)
(* the low byte of _rx_length; the compiler may or may not read it again   *)
(* before process_line().  If it does, spaces in front make the length     *)
(* wrap: such a line is left out.                                          *)
ToldLengths == IF Len(rx) = RxBufferSize THEN {0, Len(rx)} ELSE {Len(rx)}

Enter ==
    /\ rx # <<>>
    /\ Len(rx) = RxBufferSize => rx[1] # Space
    /\ \E n \in ToldLengths : ProcessLine(Stripped(rx), n - (Len(rx) - Len(Stripped(rx))))
    /\ rx' = <<>>
    /\ UNCHANGED commands

Erase ==
    /\ ran' = <<>>
    /\ IF rx = <<>> THEN rx' = rx /\ Prints(<<>>) ELSE rx' = Front(rx) /\ Prints(<<Rubout>>)
    /\ UNCHANGED commands

Type(c) ==
    /\ ran' = <<>>
    /\ IF Len(rx) < RxBufferSize THEN rx' = Append(rx, c) /\ Prints(<< <<c>> >>)
                                 ELSE rx' = rx /\ Prints(<<>>)
    /\ UNCHANGED commands

VccliOutput(s) ==
    /\ ran' = <<>>
    /\ Prints(<<s>>)
    /\ UNCHANGED <<rx, commands>>

SetUserCommands(names) ==
    /\ commands' = names
    /\ ran' = <<>> /\ printed' = <<>>
    /\ UNCHANGED <<rx, txHead>>

CliNext ==
    \/ EnterNothing \/ Enter \/ Erase
    \/ \E c \in Letters \cup {Space} : Type(c)
    \/ \E s \in UserTexts : VccliOutput(s)
    \/ \E names \in CommandSets : SetUserCommands(names)

CliSpec == CliInit /\ [][CliNext]_cliVars

-----------------------------------------------------------------------------
(* Properties.                                                             *)

C == INSTANCE Console WITH line <- rx, screen <- printed

(* Buffers, indices and lengths make a console: it edits a line, prints    *)
(* every piece in order and once however the ring stands, and runs the     *)
(* command and the arguments that the spaces of the line separate.         *)
ImplementsConsole == C!Spec
=============================================================================
