------------------------------ MODULE Ensemble ------------------------------
(***************************************************************************)
(* What two connected pianos promise their players: every piano renders a  *)
(* key stroke at most once, and only strokes that were made.  It says      *)
(* nothing of threads, locks, datagrams or clocks; PianoConnect implements *)
(* it.                                                                     *)
(***************************************************************************)
EXTENDS Sequences, Naturals

CONSTANTS
    Peer,      \* the pianos
    Message    \* the key strokes that can be made

VARIABLES
    struck,    \* the strokes made so far
    heard      \* what each piano has rendered, in order

vars == <<struck, heard>>

Init ==
    /\ struck = {}
    /\ heard = [p \in Peer |-> <<>>]

Strike(m) ==
    /\ m \notin struck
    /\ struck' = struck \cup {m}
    /\ UNCHANGED heard

Hear(p, m) ==
    /\ m \in struck
    /\ \A j \in DOMAIN heard[p] : heard[p][j] # m
    /\ heard' = [heard EXCEPT ![p] = Append(@, m)]
    /\ UNCHANGED struck

Next ==
    \/ \E m \in Message : Strike(m)
    \/ \E p \in Peer, m \in Message : Hear(p, m)

Spec == Init /\ [][Next]_vars
=============================================================================
