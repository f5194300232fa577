---------------------------- MODULE SerialExecutor ----------------------------
(***************************************************************************)
(* What one strand implementation promises (boost/asio/strand.hpp): the    *)
(* handlers given to it are called one at a time, in the order they were   *)
(* given, each by the thread that owns the strand at that moment.          *)
(***************************************************************************)
EXTENDS Sequences

CONSTANTS Threads, Lanes, Handlers, NoThread

VARIABLES
    waiting,    \* per lane, the handlers given and not begun, oldest first
    owner       \* per lane, the thread calling a handler, or NoThread

svars == <<waiting, owner>>

Init == /\ waiting = [l \in Lanes |-> <<>>]
        /\ owner = [l \in Lanes |-> NoThread]

\* A handler is given to lane l.
Give(l, h) == /\ waiting' = [waiting EXCEPT ![l] = Append(@, h)]
              /\ UNCHANGED owner

\* A thread becomes the owner of an idle lane and calls its oldest handler.
Begin(l, t) == /\ owner[l] = NoThread
               /\ waiting[l] # <<>>
               /\ waiting' = [waiting EXCEPT ![l] = Tail(@)]
               /\ owner' = [owner EXCEPT ![l] = t]

\* A handler given to an idle, empty lane may be called at once.
GiveAndBegin(l, t) == /\ owner[l] = NoThread
                      /\ waiting[l] = <<>>
                      /\ owner' = [owner EXCEPT ![l] = t]
                      /\ UNCHANGED waiting

\* The owner's handler returns.
End(l) == /\ owner[l] # NoThread
          /\ owner' = [owner EXCEPT ![l] = NoThread]
          /\ UNCHANGED waiting

\* The service goes: what waits is destroyed, and nobody is calling anything.
Drop == /\ \A l \in Lanes : owner[l] = NoThread
        /\ waiting' = [l \in Lanes |-> <<>>]
        /\ UNCHANGED owner

Next == \/ \E l \in Lanes, h \in Handlers : Give(l, h)
        \/ \E l \in Lanes, t \in Threads : Begin(l, t) \/ GiveAndBegin(l, t)
        \/ \E l \in Lanes : End(l)
        \/ Drop

Spec == Init /\ [][Next]_svars
=============================================================================
