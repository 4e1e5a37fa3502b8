---------------------------- MODULE SequenceList ----------------------------
(***************************************************************************)
(* What doublelist.c and doublelistcomp.c promise their callers: a list is *)
(* a sequence, and each function is one operation on it.  The promises are *)
(* the code's own, and some are not those of a textbook: an index at or    *)
(* past the last element appends, and removing a value takes the first     *)
(* element that is not greater; when there is none, a list with a          *)
(* comparator stays and one without loses its last element.  DoubleList    *)
(* implements this with nodes and pointers.                                *)
(***************************************************************************)
EXTENDS ListOps

CONSTANTS
  Elems,     \* the values stored, in the order memcmp gives them
  Key,       \* what a comparator compares them by
  MaxIndex   \* bound: the largest index a caller passes

VARIABLES
  contents,  \* the list, from head to trail
  comp,      \* it is a list with a comparator
  exists,    \* there is a list, between its creation and its destruction
  fragile,   \* it was made from a one-element array and never empty since
  call,      \* the last call: its function and arguments
  ret,       \* what that call returned, Nothing for NULL or void
  broken     \* a call has had undefined behaviour

vars == <<contents, comp, exists, fragile, call, ret, broken>>

Nothing == -1
Indices == 0..MaxIndex
Calls   == [op : {"none", "init", "make", "destroy", "add", "addComp", "rem",
                  "remComp", "get", "find", "pop"},
            data : Elems \cup {Nothing}, index : Indices \cup {Nothing}]

Call(o, d, i) == call' = [op |-> o, data |-> d, index |-> i]

\* The position, from 1, at which an element added at index i ends up.
InsertPos(s, i) == IF i = 0 THEN 1 ELSE IF i >= Len(s) - 1 THEN Len(s) + 1 ELSE i + 1

Order == IF comp THEN Key ELSE [e \in Elems |-> e]

\* What is left of s when d is removed by value.
Without(s, d) == IF ~comp /\ AtMost(Order, s, d) = {} /\ Len(s) > 1
                 THEN Front(s) ELSE RemoveFound(Order, s, d)

Init ==
  /\ contents = <<>> /\ comp = FALSE /\ exists = FALSE /\ fragile = FALSE /\ broken = FALSE
  /\ call = [op |-> "none", data |-> Nothing, index |-> Nothing] /\ ret = Nothing

-----------------------------------------------------------------------------

Create == /\ ~exists /\ exists' = TRUE /\ comp' \in BOOLEAN
          /\ \/ Call("init", Nothing, Nothing) /\ contents' = <<>> /\ fragile' = FALSE
             \/ /\ Call("make", Nothing, Nothing)
                /\ contents' \in Seq(Elems) /\ contents' # <<>>
                /\ fragile' = (Len(contents') = 1)
          /\ ret' = Nothing /\ UNCHANGED broken

Change(s) == /\ exists /\ contents' = s /\ fragile' = (fragile /\ s # <<>>)
             /\ ret' = Nothing /\ UNCHANGED <<comp, exists, broken>>

Add(d, i)  == Call("add", d, i) /\ Change(InsertAt(contents, InsertPos(contents, i), d))
AddComp(d) == /\ Call("addComp", d, Nothing)
              /\ Change(InsertSorted(Order, contents, d))

Rem(i) == /\ Call("rem", Nothing, i)
          /\ Change(IF contents = <<>> THEN contents
                    ELSE RemoveAt(contents, IF i < Len(contents) THEN i + 1 ELSE Len(contents)))
RemComp(d) == Call("remComp", d, Nothing) /\ Change(Without(contents, d))

\* popDLStack and dequeueDLQueue.
Pop == /\ ~comp /\ ~fragile /\ exists /\ Call("pop", Nothing, Nothing)
       /\ \/ contents = <<>> /\ ret' = Nothing /\ UNCHANGED contents
          \/ contents # <<>> /\ ret' = Head(contents) /\ contents' = Tail(contents)
       /\ UNCHANGED <<comp, exists, fragile, broken>>

Look(r) == exists /\ ret' = r /\ UNCHANGED <<contents, comp, exists, fragile, broken>>

Get(i)  == /\ Call("get", Nothing, i)
           /\ Look(IF contents = <<>> THEN Nothing
                   ELSE contents[IF i < Len(contents) THEN i + 1 ELSE Len(contents)])
Find(d) == /\ Call("find", d, Nothing)
           /\ Look(IF AtMost(Order, contents, d) = {} THEN Nothing
                   ELSE contents[FoundPos(Order, contents, d)])

Destroy == /\ exists /\ exists' = FALSE /\ contents' = <<>> /\ fragile' = FALSE
           /\ Call("destroy", Nothing, Nothing) /\ ret' = Nothing
           /\ comp' = FALSE /\ UNCHANGED broken

\* Any call on a fragile list may have undefined behaviour, and on no other.
Break == /\ exists /\ fragile /\ broken' = TRUE /\ call' \in Calls
         /\ ret' = Nothing /\ UNCHANGED <<contents, comp, exists, fragile>>

Next == ~broken /\ \/ Create \/ Destroy \/ Break \/ Pop
                   \/ \E d \in Elems : AddComp(d) \/ RemComp(d) \/ Find(d)
                   \/ \E i \in Indices : Rem(i) \/ Get(i)
                   \/ \E d \in Elems, i \in Indices : Add(d, i)

Spec == Init /\ [][Next]_vars

=============================================================================
