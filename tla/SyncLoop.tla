------------------------------- MODULE SyncLoop -------------------------------
(****************************************************************************)
(* The goroutine syncLoop of internal/certmanager/agent.go, which posts the *)
(* maps of the two reconcilers of cw-agent-certmanager every sync interval, *)
(* for one of the two maps; and what the API holds of it.  While the other  *)
(* map is posted syncLoop is idle here: that takes time and nothing else.   *)
(*                                                                          *)
(* A request the client has given up on (a timeout, the end of the process) *)
(* may still be on its way, and be handled after later ones.                *)
(****************************************************************************)
EXTENDS Reconciler

CONSTANT Crashes    \* bound: tokens, one used up by each end of the process

VARIABLES
    loop,           \* where syncLoop is
    batch,          \* the map that is being posted
    abandoned,      \* a request that was given up and is still on its way
    view,           \* the objects as the API holds them
    crashes         \* tokens left

syncVars == <<loop, batch, abandoned, view, crashes>>

Places == {"delay",     \* the first ten seconds
           "sync",      \* doSync or doRequestSync is next
           "posting",   \* its request is under way
           "idle"}      \* in the select

Maps == [Keys -> States]

SyncTypeOK ==
    /\ loop \in Places
    /\ batch \in Maps /\ (batch # Empty <=> loop = "posting")
    /\ abandoned \subseteq Maps \ {Empty}
    /\ view \in Maps
    /\ crashes \subseteq Crashes

SyncInit ==
    /\ loop = "delay" /\ batch = Empty
    /\ abandoned = {} /\ view = Empty
    /\ crashes = Crashes

------------------------------------------------------------------------------

GoTo(from, to) ==
    /\ loop = from /\ loop' = to
    /\ UNCHANGED <<batch, abandoned, view, crashes>>

\* The first sync does not wait for the reconcilers
DelayOver == GoTo("delay", "sync")

SyncTick == GoTo("idle", "sync")

Post ==
    /\ loop = "sync" /\ loop' = "posting"
    /\ batch' = cache
    /\ UNCHANGED <<abandoned, view, crashes>>

\* Fault: the map is posted whatever it holds
DoSyncFault == Post

\* doSync, doRequestSync: nothing is posted of an empty map
DoSync ==
    \/ cache = Empty /\ GoTo("sync", "idle")
    \/ cache # Empty /\ Post

\* Both return after a request, answered or not, and post again with the next
\* tick only
Return == loop = "posting" /\ loop' = "idle" /\ batch' = Empty

\* Bound: one request that was given up at a time
GiveUp == abandoned' \in {abandoned, {batch}} /\ UNCHANGED view

PostFails == Return /\ GiveUp /\ UNCHANGED crashes

\* The API has handled the request, whether or not its answer gets through, and
\* now holds `after`
PostHandled(after) ==
    /\ Return
    /\ view' = after
    /\ UNCHANGED <<abandoned, crashes>>

\* A request that was given up is handled after all
HandleLate(after) ==
    /\ abandoned' = {}
    /\ view' = after
    /\ UNCHANGED <<loop, batch, crashes>>

LoopRestart ==
    /\ \E c \in crashes : crashes' = crashes \ {c}
    /\ loop' = "delay" /\ batch' = Empty
    /\ IF loop = "posting" THEN GiveUp ELSE UNCHANGED <<abandoned, view>>

==============================================================================
