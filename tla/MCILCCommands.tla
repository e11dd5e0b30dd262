--------------------------- MODULE MCILCCommands ---------------------------
(* Small instances of ILCCommands for TLC.                                  *)
EXTENDS ILCCommands

CONSTANTS one, two, all

MCCommands ==
    { [address |-> one, func |-> "CHANGE_MODE"],
      [address |-> two, func |-> "RESET_SERVER"],
      [address |-> all, func |-> "FREEZE"] }
MCAddresses == {one, two, all}
MCBroadcast == {all}
MCFunctions == {"RESET_SERVER", "CHANGE_MODE", "FREEZE"}
MCActions == {"RESET_SERVER", "CHANGE_MODE"}
MCErrorActions == {"CHANGE_MODE"}
=============================================================================
