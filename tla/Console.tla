------------------------------ MODULE Console ------------------------------
(***************************************************************************)
(* What a command line promises: it edits a line of limited length, splits *)
(* it at single spaces, and runs the command its first word names.  A line *)
(* is ignored when MaxArgs arguments have begun before its last character. *)
(* One that fills the buffer may be split or be taken as one word: what    *)
(* the length is then is not defined.                                      *)
(***************************************************************************)
EXTENDS Integers, SequencesExt, FiniteSetsExt

CONSTANTS Letters, CommandSets, UserTexts, RxBufferSize, TxBufferSize, MaxLineLength, MaxArgs

VARIABLES line, commands, screen, ran

Newline == <<"CR", "LF">>
Prompt  == <<">", " ">>

Init == line = <<>> /\ commands = {} /\ screen = Prompt /\ ran = <<>>

Cut(n, s) == IF Len(s) <= n THEN s ELSE SubSeq(s, 1, n)

(* Read s letter by letter; a space ends a word and begins the next. *)
Words(s) ==
    LET read[i \in 0 .. Len(s)] ==
            IF i = 0 THEN << <<>> >>
            ELSE LET ws == read[i - 1]
                 IN  IF s[i] = " " THEN Append(ws, <<>>)
                     ELSE [ws EXCEPT ![Len(ws)] = Append(@, s[i])]
        all == read[Len(s)]
    IN  IF Len(all) > 1 /\ Last(all) = <<>> THEN Front(all) ELSE all

(* s without the spaces in front. *)
Trim(s) == SubSeq(s, Min({i \in 1 .. Len(s) : s[i] # " "} \cup {Len(s) + 1}), Len(s))

(* The arguments that fit have begun, and there is more of s. *)
Full(s) == Len(Words(Front(s))) - 1 >= MaxArgs

(* A message is cut to a line, and that to what can be sent at once. *)
Says(message) ==
    screen' = Newline \o Cut(TxBufferSize, Cut(MaxLineLength - 1, message)) \o Prompt

Ignore == ran' = <<>> /\ Says(<<>>)

Run(words) ==
    IF Head(words) \in commands THEN ran' = words /\ Says(<<"Done">> \o Newline)
    ELSE ran' = <<>> /\ Says(<<"Unknown command: ">> \o Head(words) \o Newline)

Enter ==
    /\ line' = <<>> /\ UNCHANGED commands
    /\ LET ignored == line = <<>> \/ commands = {} \/ Full(Trim(line))
       IN  \/ ignored /\ Ignore
           \/ ~ignored /\ Run(Words(Trim(line)))
           \/ Len(line) = RxBufferSize /\ commands # {} /\ Run(<<line>>)

Type(c) ==
    /\ line' = Cut(RxBufferSize, Append(line, c))
    /\ screen' = IF line' = line THEN <<>> ELSE <<c>>
    /\ ran' = <<>> /\ UNCHANGED commands

Erase ==
    /\ line' = IF line = <<>> THEN line ELSE Front(line)
    /\ screen' = IF line' = line THEN <<>> ELSE <<"BS", " ", "BS">>
    /\ ran' = <<>> /\ UNCHANGED commands

Write(s) ==
    /\ screen' = Cut(TxBufferSize, s)
    /\ ran' = <<>> /\ UNCHANGED <<line, commands>>

SetUserCommands(names) ==
    /\ commands' = names
    /\ screen' = <<>> /\ ran' = <<>> /\ UNCHANGED line

Next ==
    \/ Enter \/ Erase
    \/ \E c \in Letters \cup {" "} : Type(c)
    \/ \E s \in UserTexts : Write(s)
    \/ \E names \in CommandSets : SetUserCommands(names)

Spec == Init /\ [][Next]_<<line, commands, screen, ran>>
=============================================================================
