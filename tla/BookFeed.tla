-------------------------------- MODULE BookFeed --------------------------------
(***************************************************************************)
(* What the SubscribeBook service promises, with no strand, no futures and *)
(* no exchanges: consolidated books are published one after the other, and *)
(* a subscriber is shown some of them, each in the form Render gives it,   *)
(* never an older one after a newer one, never the same one twice, and     *)
(* never one older than the book of the moment when it subscribed: who     *)
(* subscribes again is not taken back.                                     *)
(***************************************************************************)
EXTENDS Naturals, Sequences

CONSTANTS
    Subscribers,    \* the callers of SubscribeBook
    Render(_),      \* the message that stands for a published book
    Nothing         \* what a subscriber shows that was sent no message

VARIABLES
    published,      \* the books published so far, in order
    seen,           \* seen[s]: index of the book last shown to s, 0 if none
    shown,          \* shown[s]: the message s received last
    joined          \* joined[s]: the last book when s subscribed, until shown one

vars == <<published, seen, shown, joined>>

Init ==
    /\ published = << >>
    /\ seen = [s \in Subscribers |-> 0]
    /\ shown = [s \in Subscribers |-> Nothing]
    /\ joined = [s \in Subscribers |-> 0]

\* One more book; the earlier ones stay as they are.
Publish ==
    /\ Len(published') = Len(published) + 1
    /\ \A v \in 1 .. Len(published) : published'[v] = published[v]
    /\ UNCHANGED <<seen, shown, joined>>

\* s subscribes.
Join(s) ==
    /\ joined' = [joined EXCEPT ![s] = Len(published)]
    /\ UNCHANGED <<published, seen, shown>>

\* s receives a book newer than any it has received, and none from before it
\* subscribed; it may skip some.
Deliver(s) ==
    \E v \in seen[s] + 1 .. Len(published) :
        /\ v >= joined[s]
        /\ seen' = [seen EXCEPT ![s] = v]
        /\ shown' = [shown EXCEPT ![s] = Render(published[v])]
        /\ joined' = [joined EXCEPT ![s] = 0]
        /\ UNCHANGED published

\* The call of s ends; its next one starts from nothing.
Leave(s) ==
    /\ seen' = [seen EXCEPT ![s] = 0]
    /\ shown' = [shown EXCEPT ![s] = Nothing]
    /\ joined' = [joined EXCEPT ![s] = 0]
    /\ UNCHANGED published

Next == Publish \/ \E s \in Subscribers : Join(s) \/ Deliver(s) \/ Leave(s)

Spec == Init /\ [][Next]_vars

=============================================================================
