--------------------------- MODULE ServiceDirectory ---------------------------
(***************************************************************************)
(* What the service registry of an io_service promises (io_service.hpp):   *)
(* at most one object per service, made when first needed and after the    *)
(* services it uses; every reference is to that object; no object goes     *)
(* while the io_service is in use, nor before the ones that use it.        *)
(***************************************************************************)
CONSTANTS
    Services,
    Uses,       \* per service, the services its constructor obtains
    Makers,     \* an object is told apart by who made it
    NoMaker     \* the service has no object

VARIABLES
    maker,      \* per service, the maker of its object
    given,      \* the references obtained: <<service, maker>>
    closing     \* the io_service is being destroyed

dvars == <<maker, given, closing>>

Init == /\ maker = [s \in Services |-> NoMaker]
        /\ given = {}
        /\ closing = FALSE

Present(s) == maker[s] # NoMaker

\* A service gets its object.
Register(s, m) ==
    /\ ~Present(s) /\ ~closing
    /\ \A d \in Uses[s] : Present(d)
    /\ maker' = [maker EXCEPT ![s] = m]
    /\ UNCHANGED closing

\* Somebody obtains a reference, to an old object or to a new one.
Obtain(s) == given' = given \cup {<<s, maker'[s]>>}

Lookup(s) == /\ Present(s) /\ ~closing
             /\ Obtain(s)
             /\ UNCHANGED <<maker, closing>>

\* An object goes when no object that uses it is left.
Destroy(s) == /\ Present(s)
              /\ \A r \in Services : Present(r) => s \notin Uses[r]
              /\ maker' = [maker EXCEPT ![s] = NoMaker]
              /\ closing' = TRUE
              /\ UNCHANGED given

Next == \E s \in Services :
            \/ \E m \in Makers : Register(s, m) /\ (Obtain(s) \/ UNCHANGED given)
            \/ Lookup(s)
            \/ Destroy(s)

Spec == Init /\ [][Next]_dvars
=============================================================================
