---------------------------- MODULE EventDelivery ----------------------------
(****************************************************************************)
(* What the event path of cw-agent-certmanager promises for each cert-      *)
(* manager Event, whatever goroutines carry it out: a failure event that is *)
(* accepted further from the end of its 5 minutes than the debounce takes   *)
(* is put into a request to the API, unless the process ends first.  Of any *)
(* other event nothing is promised: it may ride along, or never be sent (a  *)
(* failure event accepted at an age of 4:59 is too old once the debounce is *)
(* over).  One request may carry many events; a request may fail, and is    *)
(* then not repeated.                                                       *)
(****************************************************************************)
CONSTANTS Events, Failures

VARIABLE standing

Standings == {"unseen",     \* not accepted by the running process
              "waiting",    \* promised a request and in none yet
              "idle",       \* accepted without that promise and in none yet
              "tried",      \* put into a request
              "sent"}       \* put into a request that succeeded

Init == standing = [e \in Events |-> "unseen"]

Move(S, from, to) ==
    /\ S # {} /\ \A e \in S : standing[e] \in from
    /\ standing' = [e \in Events |-> IF e \in S THEN to ELSE standing[e]]

Accept(e) == \/ e \in Failures /\ Move({e}, {"unseen"}, "waiting")
             \/ Move({e}, {"unseen"}, "idle")

Try(S) == Move(S, {"waiting", "idle"}, "tried")

Succeed(S) == Move(S, {"tried"}, "sent")

\* A restarted process lists the events again, and some are never sent twice
Restart ==
    standing' = [e \in Events |-> IF standing[e] = "sent" THEN "sent" ELSE "unseen"]

Next == \/ \E e \in Events : Accept(e)
        \/ \E S \in SUBSET Events : Try(S) \/ Succeed(S)
        \/ Restart

\* The request that carries a promised event e
TryOne(e) == standing[e] = "waiting" /\ \E S \in SUBSET Events : e \in S /\ Try(S)

\* The steps alone: from "waiting" only a request or the end of the process leads away
Safety == Init /\ [][Next]_standing

Spec == Safety /\ \A e \in Failures : WF_standing(TryOne(e))

==============================================================================
