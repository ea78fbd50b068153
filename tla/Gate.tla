-------------------------------- MODULE Gate --------------------------------
(***************************************************************************)
(* What an access point owes whoever owns it: a lock opens only for a card *)
(* that was put to the reader on its own side and may open it, and one     *)
(* showing of a card opens the lock once at most.  A showing may come to   *)
(* nothing: the turnstile is busy, the card is misread, a frame is lost.   *)
(* It may also be taken for that of a card that may open: what the point   *)
(* gets from the reader is not protected against a frame that is missing.  *)
(***************************************************************************)
EXTENDS Naturals

CONSTANTS
  Directions, Cards,
  MayOpen,     (* the cards that may open a lock                           *)
  Alone        (* sides whose lock hears nobody else                       *)

VARIABLES
  readings,    (* how many cards were put to the readers                   *)
  under_way,   (* [Directions -> [Cards -> Nat]]: showings that have neither
                  opened the lock nor come to nothing                      *)
  mixed,       (* sides where a showing was taken for another's            *)
  lock         (* [Directions -> {"open", "closed"}]                       *)

vars == <<readings, under_way, mixed, lock>>

Show(d, c) ==
  /\ readings' = readings + 1
  /\ under_way' = [under_way EXCEPT ![d][c] = @ + 1]
  /\ UNCHANGED <<mixed, lock>>

Lapse(d, c) ==
  /\ under_way[d][c] > 0
  /\ under_way' = [under_way EXCEPT ![d][c] = @ - 1]
  /\ UNCHANGED <<readings, mixed, lock>>

Mistake(d, c) ==
  /\ under_way[d][c] > 0
  /\ mixed' = mixed \cup {d}
  /\ UNCHANGED <<readings, under_way, lock>>

Open(d, c) ==
  /\ under_way[d][c] > 0
  /\ c \in MayOpen \/ d \in mixed
  /\ under_way' = [under_way EXCEPT ![d][c] = @ - 1]
  /\ lock' = [lock EXCEPT ![d] = "open"]
  /\ UNCHANGED <<readings, mixed>>

Close(d) ==
  /\ lock' = [lock EXCEPT ![d] = "closed"]
  /\ UNCHANGED <<readings, under_way, mixed>>

Stray(d) ==
  /\ d \notin Alone
  /\ lock' = [lock EXCEPT ![d] = "open"]
  /\ UNCHANGED <<readings, under_way, mixed>>

Init ==
  /\ readings = 0
  /\ under_way = [d \in Directions |-> [c \in Cards |-> 0]]
  /\ mixed = {}
  /\ lock = [d \in Directions |-> "closed"]

Next ==
  \E d \in Directions :
    \/ \E c \in Cards : Show(d, c) \/ Lapse(d, c) \/ Mistake(d, c) \/ Open(d, c)
    \/ Close(d) \/ Stray(d)

Spec == Init /\ [][Next]_vars

=============================================================================
