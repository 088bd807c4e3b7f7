------------------------------ MODULE EventFeed ------------------------------
(***************************************************************************)
(* What LMDB2GraphQL promises a client that pages through the events of a  *)
(* filter, newest first, while strfry stores and deletes events: a page    *)
(* carries on strictly below the cursor, holds every wanted event between  *)
(* the old cursor and the new one that was stored all the while, and the   *)
(* last page reaches the end.  Nothing is said of an event that is stored  *)
(* or deleted during the walk, except that it is given at most once.       *)
(* Where the keys of the index do not tell the filter's values apart, only *)
(* a part of this is kept: no wanted event that stays is passed by.        *)
(***************************************************************************)
EXTENDS Integers

CONSTANTS
    Created,   \* created_at of every event
    Top, End   \* the cursors of a walk that has not begun and of one at its end

VARIABLES
    wanted,    \* the events that match the client's filter
    apart,     \* the keys of no other value look like those of the filter's
    lev,       \* levId of every event, 0 for one that was never stored
    stable,    \* stored when the walk began and not deleted since
    cursor,    \* the last position the client has been given
    page,      \* the events of the last page
    delivered  \* the events it has been given

vars == <<wanted, apart, lev, stable, cursor, page, delivered>>

\* Event e comes after position p in the order (created_at, levId) DESC.
Below(e, p) ==
    \/ p = Top
    \/ /\ p # End
       /\ \/ Created[e] < p.ts
          \/ Created[e] = p.ts /\ lev[e] < p.lev

Init ==
    /\ cursor = Top
    /\ page = {} /\ delivered = {}
    /\ stable \subseteq {e \in DOMAIN lev : lev[e] # 0}

\* strfry numbers a new event; the numbers of the others stay.
Write ==
    /\ DOMAIN lev' = DOMAIN lev
    /\ \A e \in DOMAIN lev : lev[e] # 0 => lev'[e] = lev[e]
    /\ stable' \subseteq stable
    /\ UNCHANGED <<wanted, apart, cursor, page, delivered>>

\* One page: of the wanted events between the two cursors that are still stored
\* none is left out; and the events of the page lie between the two.
Page ==
    /\ cursor # End
    /\ delivered' = delivered \cup page'
    /\ \A e \in stable \cap wanted :
          Below(e, cursor) /\ ~Below(e, cursor') => e \in delivered'
    /\ apart =>
          /\ \A e \in page' :
                e \in wanted /\ lev[e] # 0 /\ Below(e, cursor) /\ ~Below(e, cursor')
          /\ \A e \in DOMAIN lev : Below(e, cursor') => Below(e, cursor)
    /\ UNCHANGED <<wanted, apart, lev, stable>>

Next == Write \/ Page

Spec == Init /\ [][Next]_vars

-----------------------------------------------------------------------------
\* A client that has reached the end holds every wanted event that was stored
\* all the while: none is stranded behind a cursor (engine.rs, next_cursor).
NoneStranded == cursor = End => stable \cap wanted \subseteq delivered
=============================================================================
