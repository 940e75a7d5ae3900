---------------------------- MODULE PluginDevice -----------------------------
(***************************************************************************)
(* The device of the plug-in (ImageWithKinectPlugIn.mm), from opening to   *)
(* closing: execute on the main thread of Quartz Composer, which opens it, *)
(* sends commands and joins its thread; freenect_threadfunc, which closes  *)
(* it; and the two libraries below.  A device of libfreenect belongs to    *)
(* the context of its plug-in; that of fakenect, which plays a recording,  *)
(* is one number, and its state is shared by all plug-ins.                 *)
(***************************************************************************)
EXTENDS Integers

CONSTANT Plugins             (* numbers other than 0                         *)

VARIABLES
  main, who, arg,            (* what the main thread is in, of which         *)
                             (* plug-in, with which device                   *)
  started,                   (* between startExecution and stopExecution     *)
  useFakenect, dev, die,     (* members of each plug-in: dev is "0", "fake"  *)
                             (* or "real"                                    *)
  open,                      (* the real device is, in the list of its       *)
                             (* context                                      *)
  thread,                    (* where each freenect thread is                *)
  user_ptr, rgb_buffer,      (* of fakenect: plug-ins, the latter whose      *)
  rgb_running,               (* buffer it is                                 *)
  cur_rgb,                   (* of the thread in fakenect_process_events     *)
  quit,                      (* plug-ins whose thread left its loop without  *)
                             (* being told to                                *)
  shared                     (* two of them played at the same time          *)

caller == <<main, who, arg>>
plugin == <<started, useFakenect, dev, die>>
fakenect == <<user_ptr, rgb_buffer, rgb_running, cur_rgb>>
vars == <<caller, plugin, open, thread, fakenect, quit, shared>>

Init ==
  /\ main = "idle" /\ who = 0 /\ arg = "0"
  /\ started = [p \in Plugins |-> FALSE] /\ useFakenect = [p \in Plugins |-> FALSE]
  /\ dev = [p \in Plugins |-> "0"] /\ die = [p \in Plugins |-> FALSE]
  /\ open = [p \in Plugins |-> FALSE] /\ thread = [p \in Plugins |-> "none"]
  /\ user_ptr = 0 /\ rgb_buffer = 0 /\ rgb_running = FALSE
  /\ cur_rgb = [p \in Plugins |-> 0]
  /\ quit = {} /\ shared = FALSE

Runs(p) == thread[p] \notin {"none", "exited"}
-----------------------------------------------------------------------------
(* startExecution allocates the buffers and makes the contexts.            *)
StartExecution(p) ==
  /\ main = "idle" /\ ~started[p]
  /\ started' = [started EXCEPT ![p] = TRUE] /\ die' = [die EXCEPT ![p] = FALSE]
  /\ UNCHANGED <<caller, useFakenect, dev, open, thread, fakenect, quit, shared>>

(* execute tests _f_dev, and reads it again to set the tilt or the LED.    *)
Command(p) ==
  /\ main = "idle" /\ started[p] /\ dev[p] # "0"
  /\ main' = "command" /\ who' = p
  /\ UNCHANGED <<arg, plugin, open, thread, fakenect, quit, shared>>

Control ==
  /\ main = "command" /\ main' = "control" /\ arg' = dev[who]
  /\ UNCHANGED <<who, plugin, open, thread, fakenect, quit, shared>>

Controlled ==
  /\ main = "control" /\ main' = "idle" /\ arg' = "0"
  /\ UNCHANGED <<who, plugin, open, thread, fakenect, quit, shared>>

(* execute, when an input for the device has changed: it ends the thread.  *)
Change(p) ==
  /\ main = "idle" /\ started[p] /\ who' = p
  /\ \/ thread[p] = "none" /\ main' = "choose" /\ UNCHANGED die
     \/ thread[p] # "none" /\ main' = "join" /\ die' = [die EXCEPT ![p] = TRUE]
  /\ UNCHANGED <<arg, started, useFakenect, dev, open, thread, fakenect, quit, shared>>

Join ==
  /\ main = "join" /\ thread[who] = "exited" /\ main' = "choose"
  /\ thread' = [thread EXCEPT ![who] = "none"] /\ quit' = quit \ {who}
  /\ UNCHANGED <<who, arg, plugin, open, fakenect, shared>>

(* A path that does not exist changes nothing.                             *)
Choose(input) ==
  /\ main = "choose" /\ main' = "open"
  /\ useFakenect' = [useFakenect EXCEPT ![who] = IF input = "missing" THEN @ ELSE input = "fakenect"]
  /\ UNCHANGED <<who, arg, started, dev, die, open, thread, fakenect, quit, shared>>

OpenFails ==
  /\ main = "open" /\ ~useFakenect[who] /\ main' = "idle"
  /\ \E none \in BOOLEAN : dev' = IF none THEN dev ELSE [dev EXCEPT ![who] = "0"]
  /\ UNCHANGED <<who, arg, started, useFakenect, die, open, thread, fakenect, quit, shared>>

(* fakenect_open_device, fakenect_set_user                                 *)
Opened ==
  /\ main = "open" /\ main' = "create" /\ die' = [die EXCEPT ![who] = FALSE]
  /\ IF useFakenect[who]
     THEN /\ dev' = [dev EXCEPT ![who] = "fake"] /\ user_ptr' = who
          /\ UNCHANGED open
     ELSE /\ dev' = [dev EXCEPT ![who] = "real"] /\ open' = [open EXCEPT ![who] = TRUE]
          /\ UNCHANGED user_ptr
  /\ shared' = (shared \/ \E p \in Plugins \ {who} : useFakenect[who] /\ dev[p] = "fake" /\ Runs(p))
  /\ UNCHANGED <<who, arg, started, useFakenect, thread, rgb_buffer, rgb_running, cur_rgb, quit>>

Create ==
  /\ main = "create" /\ main' = "idle" /\ thread' = [thread EXCEPT ![who] = "begin"]
  /\ UNCHANGED <<who, arg, plugin, open, fakenect, quit, shared>>

CreateFails ==
  /\ main = "create" /\ main' = "idle"
  /\ open' = [open EXCEPT ![who] = FALSE] /\ dev' = [dev EXCEPT ![who] = "0"]
  /\ UNCHANGED <<who, arg, started, useFakenect, die, thread, fakenect, quit, shared>>

(* stopExecution joins a thread also when there is none; then it returns   *)
(* at once.  freenect_shutdown closes what is open.                        *)
StopExecution(p) ==
  /\ main = "idle" /\ started[p] /\ main' = "stop" /\ who' = p
  /\ die' = [die EXCEPT ![p] = TRUE]
  /\ UNCHANGED <<arg, started, useFakenect, dev, open, thread, fakenect, quit, shared>>

Shutdown ==
  /\ main = "stop" /\ thread[who] \in {"none", "exited"} /\ main' = "free"
  /\ thread' = [thread EXCEPT ![who] = "none"] /\ quit' = quit \ {who}
  /\ open' = [open EXCEPT ![who] = FALSE]
  /\ UNCHANGED <<who, arg, plugin, fakenect, shared>>

Free ==
  /\ main = "free" /\ main' = "idle" /\ started' = [started EXCEPT ![who] = FALSE]
  /\ UNCHANGED <<who, arg, useFakenect, dev, die, open, thread, fakenect, quit, shared>>
-----------------------------------------------------------------------------
(* freenect_threadfunc                                                     *)
Goto(p, where) == thread' = [thread EXCEPT ![p] = where]
Fake(p) == dev[p] = "fake"

SetUp(p) ==
  /\ thread[p] = "begin" /\ Goto(p, "start")
  /\ rgb_buffer' = (IF Fake(p) THEN p ELSE rgb_buffer)
  /\ UNCHANGED <<caller, plugin, open, user_ptr, rgb_running, cur_rgb, quit, shared>>

StartVideo(p) ==
  /\ thread[p] = "start" /\ Goto(p, "loop")
  /\ rgb_running' = (rgb_running \/ Fake(p))
  /\ UNCHANGED <<caller, plugin, open, user_ptr, rgb_buffer, cur_rgb, quit, shared>>

(* fakenect_process_events, with a video frame of the recording            *)
Events(p) ==
  /\ thread[p] = "loop" /\ ~die[p] /\ Fake(p) /\ rgb_running
  /\ Goto(p, "copy") /\ cur_rgb' = [cur_rgb EXCEPT ![p] = rgb_buffer]
  /\ UNCHANGED <<caller, plugin, open, user_ptr, rgb_buffer, rgb_running, quit, shared>>

(* rgb_cb of the plug-in that is the user sets its next buffer.            *)
Callback(p) ==
  /\ thread[p] = "copy" /\ Goto(p, "loop")
  /\ rgb_buffer' = (IF die[user_ptr] THEN rgb_buffer ELSE user_ptr)
  /\ cur_rgb' = [cur_rgb EXCEPT ![p] = 0]
  /\ UNCHANGED <<caller, plugin, open, user_ptr, rgb_running, quit, shared>>

(* The plug-in is stopping, or an error has happened, or the recording has *)
(* come to an end.                                                         *)
LeaveLoop(p) ==
  /\ thread[p] = "loop" /\ Goto(p, "stop")
  /\ quit' = (IF die[p] THEN quit ELSE quit \cup {p})
  /\ UNCHANGED <<caller, plugin, open, fakenect, shared>>

StopVideo(p) ==
  /\ thread[p] = "stop" /\ Goto(p, "close")
  /\ rgb_running' = (rgb_running /\ ~Fake(p))
  /\ UNCHANGED <<caller, plugin, open, user_ptr, rgb_buffer, cur_rgb, quit, shared>>

Close(p) ==
  /\ thread[p] = "close" /\ Goto(p, "clear")
  /\ open' = [open EXCEPT ![p] = FALSE]
  /\ UNCHANGED <<caller, plugin, fakenect, quit, shared>>

Clear(p) ==
  /\ thread[p] = "clear" /\ Goto(p, "exited")
  /\ dev' = [dev EXCEPT ![p] = "0"]
  /\ UNCHANGED <<caller, started, useFakenect, die, open, fakenect, quit, shared>>

Next ==
  \/ \E p \in Plugins :
       \/ StartExecution(p) \/ Command(p) \/ Change(p) \/ StopExecution(p)
       \/ SetUp(p) \/ StartVideo(p) \/ Events(p) \/ Callback(p) \/ LeaveLoop(p) \/ StopVideo(p)
       \/ Close(p) \/ Clear(p)
  \/ Control \/ Controlled \/ Join \/ OpenFails \/ Opened \/ Create \/ CreateFails
  \/ Shutdown \/ Free
  \/ \E input \in {"fakenect", "libfreenect", "missing"} : Choose(input)
-----------------------------------------------------------------------------
TypeOK ==
  /\ main \in {"idle", "command", "control", "join", "choose", "open", "create", "stop", "free"}
  /\ arg \in {"0", "fake", "real"} /\ dev \in [Plugins -> {"0", "fake", "real"}]
  /\ thread \in [Plugins -> {"none", "begin", "start", "loop", "copy", "stop", "close", "clear", "exited"}]
  /\ open \in [Plugins -> BOOLEAN] /\ rgb_buffer \in Plugins \cup {0}

(* A device is used, by a command or by its thread, only while it is open, *)
(* unless the thread ends by itself; and it is closed when its plug-in has *)
(* no thread for it any more.                                              *)
UsedOpen ==
  /\ main = "control" => arg = "fake" \/ (arg = "real" /\ open[who]) \/ who \in quit
  /\ \A p \in Plugins :
       /\ thread[p] \in {"begin", "start", "loop", "copy", "stop", "close"} =>
            dev[p] # "0" /\ open[p] = (dev[p] = "real")
       /\ thread[p] \in {"none", "exited"} /\ ~(main = "create" /\ who = p) => ~open[p] /\ dev[p] = "0"

(* A recording is played into buffers that are there, for a plug-in that   *)
(* is there, as long as no two plug-ins play one.                          *)
PlaysForUser ==
  ~shared => \A p \in Plugins :
    thread[p] = "copy" => started[p] /\ user_ptr = p /\ cur_rgb[p] = p
=============================================================================
