---------------------------- MODULE AtomicStore -----------------------------
(***************************************************************************)
(* What the durable control plane promises its clients.  A mutation        *)
(* becomes durable as a whole, before it can be read and before it is      *)
(* acknowledged.  A crash keeps what is durable, and a mutation that was   *)
(* in flight is kept whole or not at all.  The promise is suspended while  *)
(* the store is damaged, and a repair makes it hold again for what is      *)
(* served then.                                                            *)
(*                                                                         *)
(* A record is represented by the number of the mutation that wrote it.    *)
(***************************************************************************)
EXTENDS Integers

CONSTANT Key

VARIABLES
  stored,   \* Key -> what a restart would serve
  view,     \* Key -> what is served, while the store is up
  up,       \* the store serves
  damaged   \* the promise is suspended

vars == <<stored, view, up, damaged>>

Nothing == [k \in Key |-> 0]

Init == stored = Nothing /\ view = Nothing /\ up = FALSE /\ damaged = FALSE

\* A newer mutation has written a set of records of s, all of them or none.
OneMutation(s, t) ==
  \E D \in SUBSET Key :
    /\ \A k \in Key \ D : t[k] = s[k]
    /\ \A k \in D : t[k] > s[k] /\ \A j \in D : t[j] = t[k]

Commit == /\ up /\ view = stored
          /\ OneMutation(stored, stored')
          /\ UNCHANGED <<view, up>>

Publish == up /\ view' = stored /\ UNCHANGED <<stored, up>>

Crash == /\ up /\ up' = FALSE /\ view' = Nothing
         /\ stored' = stored \/ (view = stored /\ OneMutation(stored, stored'))

Restart == ~up /\ up' = TRUE /\ view' = stored /\ UNCHANGED stored

\* While the store is damaged anything goes; the repair serves exactly what is durable.
Unpromised == damaged' \/ (up' => view' = stored')

Next == \/ ~damaged /\ ~damaged' /\ (Commit \/ Publish \/ Crash \/ Restart)
        \/ (damaged \/ damaged') /\ Unpromised

Spec == Init /\ [][Next]_vars
=============================================================================
