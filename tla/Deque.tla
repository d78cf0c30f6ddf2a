------------------------------- MODULE Deque -------------------------------
(***************************************************************************)
(* What a Clist promises: a sequence of distinct nodes, pushed and popped  *)
(* at either end, rotated, and shortened by removing any of its nodes.     *)
(***************************************************************************)
EXTENDS SequencesExt

CONSTANTS Nodes, Null

VARIABLES
    content,    \* the nodes, from the left to the right
    result      \* what the last call returned

Init == content = <<>> /\ result = Null

RightPush(n) ==
    /\ n \notin ToSet(content)
    /\ content' = Append(content, n)
    /\ result' = Null

LeftPush(n) ==
    /\ n \notin ToSet(content)
    /\ content' = <<n>> \o content
    /\ result' = Null

LeftPop ==
    /\ content' = IF content = <<>> THEN content ELSE Tail(content)
    /\ result' = IF content = <<>> THEN Null ELSE Head(content)

RightPop ==
    /\ content' = IF content = <<>> THEN content ELSE Front(content)
    /\ result' = IF content = <<>> THEN Null ELSE Last(content)

LeftPopRightPush ==
    /\ content' = IF content = <<>> THEN content
                  ELSE Append(Tail(content), Head(content))
    /\ result' = Null

RemoveNode(n) ==
    \/ /\ \E i \in DOMAIN content : content[i] = n /\ content' = RemoveAt(content, i)
       /\ result' = n
    \/ /\ n \notin ToSet(content)
       /\ UNCHANGED content
       /\ result' = Null

(* Look at the ends, the length and what is in. *)
Query ==
    /\ result' = [left  |-> IF content = <<>> THEN Null ELSE Head(content),
                  right |-> IF content = <<>> THEN Null ELSE Last(content),
                  count |-> Len(content),
                  found |-> [n \in Nodes |-> IF n \in ToSet(content) THEN n ELSE Null]]
    /\ UNCHANGED content

Next ==
    \/ LeftPop \/ RightPop \/ LeftPopRightPush \/ Query
    \/ \E n \in Nodes : RightPush(n) \/ LeftPush(n) \/ RemoveNode(n)

Spec == Init /\ [][Next]_<<content, result>>
=============================================================================
