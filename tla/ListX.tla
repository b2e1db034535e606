-------------------------------- MODULE ListX --------------------------------
(***************************************************************************)
(* The circular lists of header/listx.h. Links are a record of two         *)
(* functions, next and prev, from the nodes to the nodes; a node is a list *)
(* head or the list_head member of a TCB or of a message, which stands for *)
(* the structure it is in (container_of). Each operation returns the links *)
(* it leaves; a node taken out of a list keeps its own links.              *)
(***************************************************************************)
EXTENDS Integers, FiniteSets, FiniteSetsExt, SequencesExt

CONSTANTS
    Node,    \* the list heads and the elements
    NIL      \* the null pointer

ASSUME NodeAssumption == IsFiniteSet(Node) /\ NIL \notin Node

Links == [next : [Node -> Node], prev : [Node -> Node]]

INIT_LIST_HEAD(l, list) == [l EXCEPT !.next[list] = list, !.prev[list] = list]

\* Memory after every node was initialised.
Initialised == [next |-> [n \in Node |-> n], prev |-> [n \in Node |-> n]]

\* __list_add: the order of the four stores is that of the code.
ListAddBetween(l, new, prev, next) ==
    [l EXCEPT !.prev[next] = new, !.next[new] = next,
              !.prev[new] = prev, !.next[prev] = new]

list_add(l, new, head) == ListAddBetween(l, new, head, l.next[head])

list_add_tail(l, new, head) == ListAddBetween(l, new, l.prev[head], head)

\* Mutant: the list is only unlinked in the forward direction.
ListDelForward(l, prev, next) == [l EXCEPT !.next[prev] = next]

\* __list_del
ListDelBetween(l, prev, next) == [l EXCEPT !.prev[next] = prev, !.next[prev] = next]

list_del(l, entry) == ListDelBetween(l, l.prev[entry], l.next[entry])

list_empty(l, head) == l.next[head] = head

list_next(l, current) == IF list_empty(l, current) THEN NIL ELSE l.next[current]

-----------------------------------------------------------------------------
(* list_for_each: what a walk along next from a head meets.                *)

\* The nodes a walk from head visits, until it is back at the head or has gone
\* round some other circle.
Trail(l, head) ==
    LET trail[s \in Seq(Node) \ {<<>>}] ==
            IF Last(s) = head \/ Len(s) = Cardinality(Node) THEN s
            ELSE trail[Append(s, l.next[Last(s)])]
    IN trail[<<l.next[head]>>]

\* Does the loop over the list end without being left?
Returns(l, head) == Last(Trail(l, head)) = head

\* The elements the loop visits, when it ends.
Walk(l, head) == Front(Trail(l, head))

\* Does a search for x in the list go round for ever?
Loops(l, head, x) == ~Returns(l, head) /\ ~Contains(Trail(l, head), x)

\* l links the elements of the sequence s, and no other, at head.
Position(head, s, i) == IF i \in 1 .. Len(s) THEN s[i] ELSE head
Represents(l, head, s) ==
    /\ IsInjective(s) /\ head \notin ToSet(s)
    /\ \A i \in 0 .. Len(s) :
          /\ l.next[Position(head, s, i)] = Position(head, s, i + 1)
          /\ l.prev[Position(head, s, i + 1)] = Position(head, s, i)

=============================================================================
