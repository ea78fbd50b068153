------------------------------ MODULE MCCanNet ------------------------------
(***************************************************************************)
(* Instances of CanNet for TLC: the messages of this node and the frames   *)
(* its peers may put on the bus.                                           *)
(***************************************************************************)
EXTENDS CanNet

Info(id, frames, valid) == [hwa |-> 1, id |-> id, frames |-> frames, valid |-> valid]
Frame(id, num, lfb, src) == [hwa |-> 1, id |-> id, num |-> num, lfb |-> lfb, src |-> src]

(* Three messages on one atom, and one that is too long on another.        *)
SendMsgs == {"two", "one", "more", "long"}
SendMsg == [two  |-> Info("a", 2, TRUE), one |-> Info("a", 1, TRUE),
            more |-> Info("a", 1, TRUE), long |-> Info("c", 3, TRUE)]

(* Two messages on one atom, and a heartbeat.                              *)
DuplexMsgs == {"two", "one", "beat"}
DuplexMsg == [two  |-> Info("a", 2, TRUE), one |-> Info("a", 1, TRUE),
              beat |-> Info("hb", 1, TRUE)]

(* Two messages on one atom, one of them too long.                         *)
StuckMsgs == {"long", "one"}
StuckMsg == [long |-> Info("a", 3, TRUE), one |-> Info("a", 1, TRUE)]

(* Two one-frame messages on one atom.                                     *)
PairMsgs == {"one", "more"}
PairMsg == [one |-> Info("a", 1, TRUE), more |-> Info("a", 1, TRUE)]

(* A peer that sends on the id this node sends on.                         *)
OverlapFrames == {Frame("a", 0, TRUE, "x")}

(* A peer that gives up a message after its first frame and sends another. *)
RestartFrames == {Frame("b", 0, FALSE, "x"), Frame("b", 0, TRUE, "y")}

(* A peer that answers on ids this node does not send on.                  *)
MCPeerFrames ==
  {Frame("b", 0, FALSE, "x"), Frame("b", 1, TRUE, "x"), Frame("zero", 0, TRUE, "y")}
=============================================================================
