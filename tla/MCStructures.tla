--------------------------- MODULE MCStructures ---------------------------
(* Data structures, and the command line.  The list has four nodes: a list *)
(* of one, its ends, and an inside of two.  The index buffer has counters  *)
(* of three bits, so that they wrap after eight items.  The ring buffer    *)
(* has three bytes: not a power of two, and head and tail can each wrap    *)
(* with none, one or two bytes inside.  A line has six characters, enough  *)
(* for more arguments than two, empty ones among them; the output ring has *)
(* five, so that it wraps within every piece and cuts one.                 *)
EXTENDS Clist, Cib, RingBuffer, Cli

CONSTANTS x, y

MCCommandSets == {{<<x>>, <<x, y>>}}
MCUserTexts   == {<<x, y, x, y, x, y>>}

(* Bound: they share no state, so a behaviour uses one of them. *)
VARIABLE inUse

MCInit ==
    /\ inUse \in {"Clist", "Cib", "RingBuffer", "Cli"}
    /\ ClistInit /\ CibInit /\ RingInit /\ CliInit

MCNext ==
    \/ inUse = "Clist" /\ ClistNext /\ UNCHANGED <<inUse, cibVars, ringVars, cliVars>>
    \/ inUse = "Cib" /\ CibNext /\ UNCHANGED <<inUse, clistVars, ringVars, cliVars>>
    \/ inUse = "RingBuffer" /\ RingNext /\ UNCHANGED <<inUse, clistVars, cibVars, cliVars>>
    \/ inUse = "Cli" /\ CliNext /\ UNCHANGED <<inUse, clistVars, cibVars, ringVars>>

MCSpec == MCInit /\ [][MCNext]_<<inUse, clistVars, cibVars, ringVars, cliVars>>
=============================================================================
