------------------------------- MODULE ItemStore -------------------------------
(***************************************************************************)
(* What the store promises: every put and every delete takes effect at one *)
(* moment between its call and its answer, at most once, or not at all     *)
(* when it fails.                                                          *)
(***************************************************************************)
CONSTANTS Clients, Times, ContentKeys, Nothing

VARIABLES
  present,   \* the ids in the store
  call       \* the call each client waits for, and its answer once it has one

Ids == Times \X ContentKeys
None == [op |-> "none", about |-> Nothing, answer |-> Nothing]
Call(kind, about) == [op |-> kind, about |-> about, answer |-> Nothing]

ItemInit == present = {} /\ call = [c \in Clients |-> None]

Waits(c, kind) == call[c].op = kind /\ call[c].answer = Nothing
Answered(c, what) == call' = [call EXCEPT ![c].answer = what]

AskPut(c, k) ==
  /\ call[c] = None
  /\ call' = [call EXCEPT ![c] = Call("put", k)]
  /\ UNCHANGED present

AskDelete(c, i) ==
  /\ call[c] = None
  /\ call' = [call EXCEPT ![c] = Call("delete", i)]
  /\ UNCHANGED present

\* The content becomes a new item.
Create(c) ==
  /\ Waits(c, "put")
  /\ \E i \in Ids \ present : i[2] = call[c].about /\ present' = present \cup {i}
  /\ Answered(c, "created")

\* There is an item with this content.
Find(c) ==
  /\ Waits(c, "put")
  /\ \E i \in present : i[2] = call[c].about
  /\ Answered(c, "existing")
  /\ UNCHANGED present

Remove(c) ==
  /\ Waits(c, "delete")
  /\ call[c].about \in present
  /\ present' = present \ {call[c].about}
  /\ Answered(c, "removed")

Fail(c) ==
  /\ call[c].op # "none" /\ call[c].answer = Nothing
  /\ Answered(c, "failed")
  /\ UNCHANGED present

\* The answer reaches the caller, or the caller gave up.
Done(c) ==
  /\ call[c] # None
  /\ call' = [call EXCEPT ![c] = None]
  /\ UNCHANGED present

ItemNext == \E c \in Clients :
  \/ \E k \in ContentKeys : AskPut(c, k)
  \/ \E i \in Ids : AskDelete(c, i)
  \/ Create(c) \/ Find(c) \/ Remove(c) \/ Fail(c) \/ Done(c)

ItemSpec == ItemInit /\ [][ItemNext]_<<present, call>>
=============================================================================
