----------------------------- MODULE ListWatch -----------------------------
(***************************************************************************)
(* A controller's cache over the API server: LIST pages and WATCH replays  *)
(* of the registry, fed to the DeltaFifo and applied to the Store.         *)
(*                                                                         *)
(* informer.rs leaves the reflector to the caller.  The one here does what *)
(* the two interfaces ask for: it follows the continue tokens to the last  *)
(* page, replaces, and from then on watches, each time from the version of *)
(* the last object it received, the only version a watch frame shows.      *)
(***************************************************************************)
EXTENDS ApiRegistry, Informer, Sequences

CONSTANTS
    Limits  \* page sizes, 0: no paging

VARIABLES
    limit,      \* ListOptions.limit
    selective,  \* whether a label selector is given
    page,       \* the continue token, NoPage outside of a list
    listed,     \* the items of the pages so far, in their order
    cursor,     \* the version the next watch starts after
    frames,     \* watch frames received and not yet fed to the FIFO
    covered,    \* history variable: all events up to here were received
    clean       \* history variable: no match went away between two pages

reflector_vars == <<limit, selective, page, listed, cursor, frames, covered, clean>>
vars == <<api_vars, informer_vars, reflector_vars>>

NoPage == -1

Matches(o) == selective => o.label

-----------------------------------------------------------------------------
(* LIST.                                                                   *)

Matched == {o \in objs : Matches(o)}

\* The index of o in the list: by name, by key among equal names.
Position(o) ==
    Cardinality({p \in Matched : p.name < o.name \/ (p.name = o.name /\ p.key < o.key)})

\* Mutant of PageEnd: the next page starts one too far.
PageEndSkip(start) ==
    IF limit > 0 /\ Cardinality(Matched) - start > limit THEN start + limit + 1 ELSE NoPage

\* The continue token of a page: the index the next one starts at, if any.
PageEnd(start) ==
    IF limit > 0 /\ Cardinality(Matched) - start > limit THEN start + limit ELSE NoPage

PageItems(start) ==
    LET n == Cardinality(Matched) - start
    IN  [i \in 1 .. (IF limit > 0 /\ n > limit THEN limit ELSE n) |->
            CHOOSE o \in Matched : Position(o) = start + i - 1]

\* The listing the items s of all pages amount to: an object that moved down
\* across a page is in s twice, and replace lets the later one win.
LastListed(s) ==
    [k \in Keys |->
        LET I == {i \in 1 .. Len(s) : s[i].name = k}
        IN  IF I = {} THEN NoObject ELSE s[CHOOSE i \in I : \A j \in I : j <= i]]

\* One page; the version of the list is that of its first page.
ListPage ==
    /\ page # NoPage
    /\ page <= Cardinality(Matched)
    /\ page' = PageEnd(page)
    /\ cursor' = IF page = 0 THEN rv ELSE cursor
    /\ IF PageEnd(page) # NoPage
       THEN /\ listed' = listed \o PageItems(page)
            /\ UNCHANGED informer_vars
       ELSE /\ listed' = <<>>
            /\ replace(LastListed(listed \o PageItems(page)))
    /\ covered' = cursor'
    /\ UNCHANGED <<api_vars, limit, selective, frames, clean>>

-----------------------------------------------------------------------------
(* WATCH.                                                                  *)

Selected(E) == {e \in E : Matches(e.object)}

\* One WATCH request: the events after the cursor that match, as frames.
Watch ==
    /\ page = NoPage
    /\ frames = {}
    /\ covered < rv
    /\ frames' = Selected(watch_since(cursor))
    /\ covered' = rv
    /\ UNCHANGED <<api_vars, informer_vars, limit, selective, page, listed, cursor, clean>>

\* The reflector takes the next frame.
Receive ==
    \E e \in frames :
        /\ \A f \in frames : e.resource_version <= f.resource_version
        /\ frames' = frames \ {e}
        /\ cursor' = e.object.resource_version
        /\ CASE e.kind = "Added" -> Observe("Added", e.object)
             [] e.kind = "Modified" -> Observe("Updated", e.object)
             [] e.kind = "Deleted" -> ObserveDelete(e.object)
        /\ UNCHANGED <<api_vars, limit, selective, page, listed, covered, clean>>

\* The reflector starts over with a list: after a connection error while it
\* has frames to take, or on "continue token out of range".
Restart ==
    /\ IF page = NoPage THEN frames # {} ELSE page > Cardinality(Matched)
    /\ page' = 0
    /\ listed' = <<>>
    /\ frames' = {}
    /\ clean' = TRUE
    /\ UNCHANGED <<api_vars, informer_vars, limit, selective, cursor, covered>>

-----------------------------------------------------------------------------
Requests ==
    /\ ApiNext
    /\ clean' = (clean /\ (page > 0 => \A o \in Matched :
                                \E p \in objs' : p.key = o.key /\ Matches(p)))
    /\ UNCHANGED <<informer_vars, limit, selective, page, listed, cursor, frames, covered>>

Init ==
    /\ ApiInit
    /\ InformerInit
    /\ limit \in Limits
    /\ selective \in BOOLEAN
    /\ page = 0
    /\ listed = <<>>
    /\ cursor = 0
    /\ frames = {}
    /\ covered = 0
    /\ clean = TRUE

Next ==
    \/ Requests
    \/ ListPage
    \/ Watch
    \/ Receive
    \/ Restart
    \/ pop /\ UNCHANGED <<api_vars, reflector_vars>>
    \/ apply_delta /\ UNCHANGED <<api_vars, reflector_vars>>

Spec == Init /\ [][Next]_vars

-----------------------------------------------------------------------------
(* Properties.                                                             *)

CaughtUp == page = NoPage /\ frames = {} /\ covered = rv /\ popped = <<>> /\ order = <<>>

\* The cache converges: with all frames received and all deltas applied, a
\* reflector without selector holds exactly the registry's objects, although
\* Deleted frames carry an old version and move its cursor back.  With a
\* selector it holds every matching object at its last version; one that
\* stopped matching stays, since its last frames are filtered out.  Both need
\* that no match disappeared between two pages: the continue token is an
\* index, and the object that moves up across it is in neither page; and that no
\* patch renamed an object, whose old name the cache keeps.
CacheConverges ==
    CaughtUp /\ clean /\ (\A e \in history : e.object.name = e.object.key) =>
        /\ \A o \in Matched : items[o.name] = o
        /\ ~selective => \A k \in Keys : items[k] # NoObject => items[k] \in objs

=============================================================================
