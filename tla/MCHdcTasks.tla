----------------------------- MODULE MCHdcTasks -----------------------------
(* Instance of HdcTasks for TLC: all commands, and what may fail of each.   *)
EXTENDS HdcTasks

MCKinds == {"forward", "file", "dir", "install", "sideload", "uninstall", "shell",
            "execute", "oneshot", "bugreport"}
MCFaults == (MCKinds \X {"args", "open"})
            \cup ({"file"} \X {"read", "write", "newer"})
            \cup ({"install", "uninstall", "execute", "bugreport"} \X {"fork"})
            \cup {<<"shell", "pty">>, <<"shell", "write">>}
=============================================================================
