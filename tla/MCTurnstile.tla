------------------------------ MODULE MCTurnstile ------------------------------
(* Turnstile with a card that may open it and one no script is about, in   *)
(* words of two bits.  The visitor's second word is the stranger's card,   *)
(* and the visitor's first followed by the stranger's card is the          *)
(* visitor's code.  The scripts also know codes of cards that nobody has   *)
(* here, but that words of these two make: 10 is the stranger's twice, 37  *)
(* the visitor's without its end, and then the visitor's.  The lock out of *)
(* another controller packs as this one's does (223 or 4 and 123 or 4 are  *)
(* 15 in four bits).                                                       *)
EXTENDS Turnstile

CONSTANTS in, out, visitor, stranger

MCWordsOf == [c \in Cards |-> IF c = visitor THEN <<1, 2>> ELSE <<2>>]
MCRights == [code \in {9, 10, 37} |-> CASE code = 9 -> "open_lim_time"
                                        [] code = 10 -> "close"
                                        [] code = 37 -> "open"]
MCLockOf == [d \in Directions |-> IF d = in THEN 2 ELSE 4]
MCOtherLocks == {<<123, 4>>, <<323, 2>>}
=============================================================================
