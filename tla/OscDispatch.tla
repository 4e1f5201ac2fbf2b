---------------------------- MODULE OscDispatch ----------------------------
(***************************************************************************)
(* Which nodes a message executes: OscContainer and OscNode.  An address   *)
(* is cut at its slashes; "*" is any child and "**" any number of levels.  *)
(* The calls of execute() are steps here, depth first as in the code, the  *)
(* children of a container in the order of their names.                    *)
(*                                                                         *)
(* An address is a sequence of names, and whether it ends with a slash.    *)
(* Empty names (two slashes in a row) are left out.                        *)
(***************************************************************************)
EXTENDS Integers, SequencesExt

CONSTANTS
    Name,      \* the names of nodes, numbered in their order
    Leaf,      \* the nodes without children, as sequences of names
    MaxLength  \* bound: names in an address

VARIABLES address, slash, todo, executed
vars == <<address, slash, todo, executed>>

ANY == 0        \* "*"
ANY_LEVELS == -1 \* "**"

Node == UNION {{SubSeq(l, 1, k) : k \in 0..Len(l)} : l \in Leaf}
IsContainer(node) == node \notin Leaf
Child(node) == {n \in Name : Append(node, n) \in Node}

Call(node, rest) == [node |-> node, rest |-> rest]

Init ==
    /\ address \in UNION {[1..k -> Name \cup {ANY, ANY_LEVELS}] : k \in 1..MaxLength}
    /\ slash \in BOOLEAN
    /\ todo = <<Call(<<>>, address)>>
    /\ executed = <<>>

\* The calls for the children, in the order of their names.
ForChildren(node, rest) ==
    LET names == SetToSortSeq(Child(node), <)
    IN  [k \in DOMAIN names |-> Call(Append(node, names[k]), rest)]

\* "Skip duplicate **": each "**" with something after it.
SkipDuplicate(rest) ==
    LET others == {i \in DOMAIN rest : rest[i] # ANY_LEVELS} \cup {Len(rest)}
    IN  IF rest = <<>> THEN <<>> ELSE SubSeq(rest, Min(others), Len(rest))

\* The loop over duplicates leaves a last "**/" as it is, and does not end.
LoopsForever(rest) == slash /\ Len(rest) >= 2 /\ \A i \in DOMAIN rest : rest[i] = ANY_LEVELS

\* Mutant: "**" is one level at least.
ExecuteContainerBelow(node, rest) ==
    CASE rest = <<>> -> <<>>
      [] rest # <<>> /\ Head(rest) = ANY -> ForChildren(node, Tail(rest))
      [] rest # <<>> /\ Head(rest) = ANY_LEVELS ->
            ForChildren(node, SkipDuplicate(Tail(rest))) \o ForChildren(node, rest)
      [] OTHER ->
            IF Head(rest) \in Child(node) THEN <<Call(Append(node, Head(rest)), Tail(rest))>> ELSE <<>>

\* Mutant: "**" is kept for the node itself.
ExecuteContainerAgain(node, rest) ==
    CASE rest = <<>> -> <<>>
      [] rest # <<>> /\ Head(rest) = ANY -> ForChildren(node, Tail(rest))
      [] rest # <<>> /\ Head(rest) = ANY_LEVELS -> ForChildren(node, Tail(rest)) \o <<Call(node, rest)>>
      [] OTHER ->
            IF Head(rest) \in Child(node) THEN <<Call(Append(node, Head(rest)), Tail(rest))>> ELSE <<>>

\* OscContainer::execute(): itself, or its children, for the rest of the address.
ExecuteContainer(node, rest) ==
    CASE rest = <<>> -> <<>>
      [] rest # <<>> /\ Head(rest) = ANY -> ForChildren(node, Tail(rest))
      [] rest # <<>> /\ Head(rest) = ANY_LEVELS ->
            <<Call(node, SkipDuplicate(Tail(rest)))>> \o ForChildren(node, rest)
      [] OTHER ->
            IF Head(rest) \in Child(node) THEN <<Call(Append(node, Head(rest)), Tail(rest))>> ELSE <<>>

\* One call; a leaf is executed by the empty address only.
Execute ==
    /\ todo # <<>>
    /\ LET call == Head(todo)
       IN  /\ IsContainer(call.node) => ~LoopsForever(call.rest)
           /\ todo' = (IF IsContainer(call.node) THEN ExecuteContainer(call.node, call.rest) ELSE <<>>)
                        \o Tail(todo)
           /\ executed' = IF call.rest = <<>> THEN Append(executed, call.node) ELSE executed
    /\ UNCHANGED <<address, slash>>

Next == Execute
Spec == Init /\ [][Next]_vars /\ WF_vars(Next)

TypeOK ==
    /\ address \in Seq(Name \cup {ANY, ANY_LEVELS}) /\ slash \in BOOLEAN
    /\ \A i \in DOMAIN todo : todo[i].node \in Node /\ Len(todo[i].rest) <= MaxLength
    /\ executed \in Seq(Node)

-----------------------------------------------------------------------------
\* The levels at which each name of the address stands, for a node: levels[i] is where
\* the part before the i-th name ends.
Matches(pattern, node) ==
    \E levels \in [1..(Len(pattern) + 1) -> 0..Len(node)] :
        /\ levels[1] = 0 /\ levels[Len(pattern) + 1] = Len(node)
        /\ \A i \in DOMAIN pattern :
               IF pattern[i] = ANY_LEVELS
               THEN levels[i] <= levels[i + 1] /\ IsContainer(SubSeq(node, 1, levels[i + 1]))
               ELSE /\ levels[i + 1] = levels[i] + 1
                    /\ pattern[i] \in {ANY, node[levels[i + 1]]}

LevelsCount == Len(SelectSeq(address, LAMBDA n : n = ANY_LEVELS))

\* The end of the address is "**/**/".
EndsLoops == \E k \in 2..Len(address) : LoopsForever(SubSeq(address, Len(address) - k + 1, Len(address)))

\* Every message executes in the end exactly the nodes that its address matches, and
\* each once if "**" stands in it at most once: "/**/dump" dumps every value, and no
\* value twice.  With several "**" a node may be executed once per way to match it,
\* and for an address that ends with "**/**/" the code loops for ever.
DispatchExact ==
    ~EndsLoops =>
        <>(/\ todo = <<>>
           /\ ToSet(executed) = {node \in Node : Matches(address, node)}
           /\ LevelsCount <= 1 => IsInjective(executed))
=============================================================================
