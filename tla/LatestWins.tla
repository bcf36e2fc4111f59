------------------------------ MODULE LatestWins ------------------------------
(* What the player promises about a request to play: the outputs may fall      *)
(* silent at any time, but what begins to sound is the thing asked for last,   *)
(* on one output, and whatever sounded before it has stopped.                  *)

CONSTANTS Thing,    \* what can be asked for
          Output,   \* where it can sound
          Nothing   \* no request stands; not a Thing

VARIABLES wanted,    \* the last request, or Nothing
          sounding   \* the pairs <<output, thing>> that are heard

vars == <<wanted, sounding>>

Init == /\ wanted \in Thing \cup {Nothing}
        /\ sounding = {}

\* A new request, or the end of one, never starts a sound by itself.
Ask == /\ wanted' \in Thing \cup {Nothing}
       /\ sounding' \subseteq sounding

Start == /\ wanted # Nothing
         /\ \E o \in Output : sounding' = {<<o, wanted>>}
         /\ UNCHANGED wanted

Fade == /\ sounding' \subseteq sounding
        /\ UNCHANGED wanted

Next == Ask \/ Start \/ Fade

Spec == Init /\ [][Next]_vars
=============================================================================
