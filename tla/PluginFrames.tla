---------------------------- MODULE PluginFrames ----------------------------
(***************************************************************************)
(* How frames travel from the freenect thread to the renderer of the       *)
(* plug-in, and how the plug-in stops: depth_cb, rgb_cb and                *)
(* freenect_threadfunc of ImageWithKinectPlugIn.mm, its execute, and       *)
(* stopExecution, and renderToBuffer of the two image providers.           *)
(*                                                                         *)
(* Video has three buffers, as in glview.c: back, filled by libfreenect;   *)
(* mid, the latest frame; front, being drawn.  Depth has mid and front,    *)
(* and its callback fills mid.  A callback works under the mutex of its    *)
(* channel.  renderToBuffer swaps front and mid if pthread_mutex_trylock   *)
(* returns nonzero, that is, if it did NOT get the mutex, and then unlocks *)
(* it; when it does get the mutex it keeps it.                             *)
(*                                                                         *)
(* Quartz Composer calls execute, renderToBuffer and stopExecution on one  *)
(* thread, "main".  libusb runs callbacks on the thread that handles       *)
(* events: the freenect thread, or main while it waits for the control     *)
(* transfer of an LED or tilt command.                                     *)
(***************************************************************************)
EXTENDS Integers, FiniteSets

CONSTANTS
  Commands,    (* execute may send LED and tilt commands                     *)
  MaxFrames    (* bound: frames that arrive, on both channels together       *)

ASSUME FramesAssumption ==
  Commands \in BOOLEAN /\ MaxFrames \in Nat

Channels == {"rgb", "depth"}
Threads == {"main", "freenect"}
RgbBufs == {"r1", "r2", "r3"}
Bufs == RgbBufs \cup {"d1", "d2"}

VARIABLES
  die, got, mutex, back, mid, front,   (* members of the plug-in             *)
  allocated,   (* the buffers are                                            *)
  main,        (* what the main thread is at                                 *)
  view, tmp,   (* the channel it renders, and the local of renderToBuffer    *)
  thread,      (* what the freenect thread is at, outside of callbacks       *)
  on,          (* the streams that deliver frames                            *)
  proc,        (* proc_buf of the video stream                               *)
  cb,          (* what the callback that runs is at, "none" if none does     *)
  by, src, rgb,   (* its thread, its channel, and its argument               *)
  content, sent,  (* number of the frame in each buffer; frames so far       *)
  overlap         (* whether renders may begin while a callback has the mutex*)

plugin == <<die, got, mutex, back, mid, front, allocated>>
renderer == <<main, view, tmp>>
callback == <<cb, by, src, rgb>>
frames == <<content, sent>>
state == <<plugin, renderer, thread, on, proc, callback, frames>>
vars == <<state, overlap>>

\* The buffers that startExecution allocates.
Allocated ==
  /\ back' = "r1" /\ mid' = [rgb |-> "r2", depth |-> "d1"]
  /\ front' = [rgb |-> "r3", depth |-> "d2"]
  /\ content' = [b \in Bufs |-> 0]
  /\ allocated' = TRUE

Init ==
  /\ die = FALSE /\ got = [c \in Channels |-> FALSE]
  /\ mutex = [c \in Channels |-> "free"]
  /\ back = "r1" /\ mid = [rgb |-> "r2", depth |-> "d1"]
  /\ front = [rgb |-> "r3", depth |-> "d2"] /\ allocated = TRUE
  /\ main = "idle" /\ view = "rgb" /\ tmp = "r1"
  /\ thread = "none" /\ on = {} /\ proc = "none"
  /\ cb = "none" /\ by = "freenect" /\ src = "rgb" /\ rgb = "r1"
  /\ content = [b \in Bufs |-> 0] /\ sent = 0
  /\ overlap \in BOOLEAN
-----------------------------------------------------------------------------
(* renderToBuffer.                                                         *)

Main(at) == main = at /\ ~(cb # "none" /\ by = "main")

Render(c) ==
  /\ Main("idle") /\ allocated
  /\ overlap \/ mutex[c] # "freenect"
  /\ view' = c

(* trylock succeeds and returns 0: no swap, and the mutex stays locked. *)
RenderLocked(c) ==
  /\ Render(c) /\ mutex[c] = "free"
  /\ mutex' = [mutex EXCEPT ![c] = "main"]
  /\ main' = "draw"
  /\ UNCHANGED <<die, got, back, mid, front, allocated, tmp, thread, on, proc, callback, frames>>

(* trylock fails, also when main itself holds the mutex since last time. *)
RenderBusy(c) ==
  /\ Render(c) /\ mutex[c] # "free"
  /\ main' = IF got[c] THEN "swap" ELSE "unlock"
  /\ UNCHANGED <<plugin, tmp, thread, on, proc, callback, frames>>

SwapFront ==
  /\ main = "swap"
  /\ tmp' = front[view]
  /\ front' = [front EXCEPT ![view] = mid[view]]
  /\ main' = "swapmid"
  /\ UNCHANGED <<die, got, mutex, back, mid, allocated, view, thread, on, proc, callback, frames>>

SwapMid_Forgotten ==
  /\ main = "swapmid"
  /\ main' = "clear"
  /\ UNCHANGED <<plugin, view, tmp, thread, on, proc, callback, frames>>
SwapMid ==
  /\ main = "swapmid"
  /\ mid' = [mid EXCEPT ![view] = tmp]
  /\ main' = "clear"
  /\ UNCHANGED <<die, got, mutex, back, front, allocated, view, tmp, thread, on, proc, callback, frames>>

ClearGot_Forgotten ==
  /\ main = "clear"
  /\ main' = "unlock"
  /\ UNCHANGED <<plugin, view, tmp, thread, on, proc, callback, frames>>
ClearGot ==
  /\ main = "clear"
  /\ got' = [got EXCEPT ![view] = FALSE]
  /\ main' = "unlock"
  /\ UNCHANGED <<die, mutex, back, mid, front, allocated, view, tmp, thread, on, proc, callback, frames>>

(* Unlocking another thread's mutex is undefined: it may be released or    *)
(* stay as it is.                                                          *)
RenderUnlock ==
  /\ main = "unlock"
  /\ \E o \in {"free"} \cup ({mutex[view]} \ {"main"}) :
       mutex' = [mutex EXCEPT ![view] = o]
  /\ main' = "draw"
  /\ UNCHANGED <<die, got, back, mid, front, allocated, view, tmp, thread, on, proc, callback, frames>>

(* The front buffer has been copied into Quartz Composer's. *)
Drawn ==
  /\ main = "draw"
  /\ main' = "idle"
  /\ UNCHANGED <<plugin, view, tmp, thread, on, proc, callback, frames>>
-----------------------------------------------------------------------------
(* execute and stopExecution.                                              *)

(* fakenect_set_led or fakenect_set_tilt_degs: main handles events until   *)
(* its control transfer is done.                                           *)
Command ==
  /\ Commands
  /\ Main("idle") /\ allocated /\ thread \in {"start", "loop", "stop"}
  /\ main' = "control"
  /\ UNCHANGED <<plugin, view, tmp, thread, on, proc, callback, frames>>

CommandDone ==
  /\ Main("control")
  /\ main' = "idle"
  /\ UNCHANGED <<plugin, view, tmp, thread, on, proc, callback, frames>>

(* The device inputs changed: end the thread, if there is one, and then    *)
(* open a device and start another.                                        *)
Reopen ==
  /\ Main("idle") /\ allocated
  /\ IF thread = "none" THEN main' = "open" /\ UNCHANGED die
                        ELSE main' = "rejoin" /\ die' = TRUE
  /\ UNCHANGED <<got, mutex, back, mid, front, allocated, view, tmp, thread, on, proc, callback, frames>>

Rejoined ==
  /\ main = "rejoin" /\ thread = "exited"
  /\ thread' = "none" /\ main' = "open"
  /\ UNCHANGED <<plugin, view, tmp, on, proc, callback, frames>>

(* No device, or it does not open: no thread. *)
OpenFails ==
  /\ main = "open"
  /\ main' = "idle"
  /\ UNCHANGED <<plugin, view, tmp, thread, on, proc, callback, frames>>

\* A new device has no user buffer: freenect_open_device zeroes it.
Opened ==
  /\ main = "open"
  /\ die' = FALSE /\ proc' = "none"
  /\ thread' = "start" /\ main' = "idle"
  /\ UNCHANGED <<got, mutex, back, mid, front, allocated, view, tmp, on, callback, frames>>

StopExecution ==
  /\ Main("idle") /\ allocated /\ thread # "none"
  /\ die' = TRUE /\ main' = "join"
  /\ UNCHANGED <<got, mutex, back, mid, front, allocated, view, tmp, thread, on, proc, callback, frames>>

Joined_WithoutWaiting ==
  /\ main = "join"
  /\ main' = "idle" /\ allocated' = FALSE
  /\ UNCHANGED <<die, got, mutex, back, mid, front, view, tmp, thread, on, proc, callback, frames>>
Joined ==
  /\ main = "join" /\ thread = "exited"
  /\ thread' = "none" /\ main' = "idle" /\ allocated' = FALSE
  /\ UNCHANGED <<die, got, mutex, back, mid, front, view, tmp, on, proc, callback, frames>>

(* The mutexes live on from init to dealloc, in whatever state they are. *)
StartExecution ==
  /\ Main("idle") /\ ~allocated
  /\ Allocated
  /\ die' = FALSE
  /\ UNCHANGED <<got, mutex, renderer, thread, on, proc, callback, sent>>
-----------------------------------------------------------------------------
(* The freenect thread.                                                    *)

Thread(at) == thread = at /\ ~(cb # "none" /\ by = "freenect")

SetUp_WithoutBuffer ==
  /\ Thread("start") /\ on = {}
  /\ got' = [c \in Channels |-> FALSE]
  /\ on' = {"depth"}
  /\ UNCHANGED <<die, mutex, back, mid, front, allocated, proc, renderer, thread, callback, frames>>
SetUp ==
  /\ Thread("start") /\ on = {}
  /\ got' = [c \in Channels |-> FALSE]
  /\ proc' = back
  /\ on' = {"depth"}
  /\ UNCHANGED <<die, mutex, back, mid, front, allocated, renderer, thread, callback, frames>>

StartVideo ==
  /\ Thread("start") /\ on = {"depth"}
  /\ on' = {"depth", "rgb"} /\ thread' = "loop"
  /\ UNCHANGED <<plugin, proc, renderer, callback, frames>>

(* _die is seen, or fakenect_process_events returns an error. *)
LeaveLoop ==
  /\ Thread("loop")
  /\ on' = {"rgb"} /\ thread' = "stop"
  /\ UNCHANGED <<plugin, proc, renderer, callback, frames>>

(* Streams stop when no callback runs any more; the device is closed. *)
Exit ==
  /\ Thread("stop") /\ cb = "none"
  /\ on' = {} /\ thread' = "exited"
  /\ UNCHANGED <<plugin, proc, renderer, callback, frames>>
-----------------------------------------------------------------------------
(* Frames and callbacks.                                                   *)

\* Where a thread may be when it handles events.
Handles(t) == IF t = "main" THEN main = "control" ELSE thread \in {"start", "loop", "stop"}

(* A frame begins to be converted into proc_buf, or arrives as depth. *)
Frame(t, c) ==
  /\ Handles(t) /\ cb = "none" /\ c \in on /\ sent < MaxFrames
  /\ cb' = IF c = "rgb" THEN "fill" ELSE "check"
  /\ by' = t /\ src' = c /\ rgb' = IF c = "rgb" THEN proc ELSE rgb
  /\ sent' = sent + 1
  /\ UNCHANGED <<plugin, renderer, thread, on, proc, content>>

Filled ==
  /\ cb = "fill"
  /\ content' = IF rgb \in Bufs THEN [content EXCEPT ![rgb] = sent] ELSE content
  /\ cb' = "check"
  /\ UNCHANGED <<plugin, renderer, thread, on, proc, by, src, rgb, sent>>

(* if (plugin && !plugin->_die) *)
Check ==
  /\ cb = "check"
  /\ cb' = IF die THEN "none" ELSE "lock"
  /\ UNCHANGED <<plugin, renderer, thread, on, proc, by, src, rgb, frames>>

(* A thread that holds the mutex already waits for itself. *)
Lock ==
  /\ cb = "lock" /\ mutex[src] = "free"
  /\ mutex' = [mutex EXCEPT ![src] = by]
  /\ cb' = IF src = "rgb" THEN "takemid" ELSE "write"
  /\ UNCHANGED <<die, got, back, mid, front, allocated, renderer, thread, on, proc, by, src, rgb, frames>>

(* rgb_cb: libfreenect gets mid to fill next ... *)
TakeMid_WithoutSetBuffer ==
  /\ cb = "takemid"
  /\ back' = mid["rgb"]
  /\ cb' = "givemid"
  /\ UNCHANGED <<die, got, mutex, mid, front, allocated, proc, renderer, thread, on, by, src, rgb, frames>>
TakeMid ==
  /\ cb = "takemid"
  /\ back' = mid["rgb"] /\ proc' = mid["rgb"]
  /\ cb' = "givemid"
  /\ UNCHANGED <<die, got, mutex, mid, front, allocated, renderer, thread, on, by, src, rgb, frames>>

(* ... and the frame it filled becomes mid. *)
GiveMid ==
  /\ cb = "givemid"
  /\ mid' = [mid EXCEPT !["rgb"] = rgb]
  /\ cb' = "got"
  /\ UNCHANGED <<die, got, mutex, back, front, allocated, renderer, thread, on, proc, by, src, rgb, frames>>

(* depth_cb colours a part of mid, which it reads again for each pixel; a  *)
(* buffer of which a part is coloured has the new frame's number.          *)
WriteMid ==
  /\ cb = "write"
  /\ content' = [content EXCEPT ![mid["depth"]] = sent]
  /\ \E at \in {"write", "got"} : cb' = at
  /\ UNCHANGED <<plugin, renderer, thread, on, proc, by, src, rgb, sent>>

SetGot ==
  /\ cb = "got"
  /\ got' = [got EXCEPT ![src] = TRUE]
  /\ cb' = "unlock"
  /\ UNCHANGED <<die, mutex, back, mid, front, allocated, renderer, thread, on, proc, by, src, rgb, frames>>

(* By now the mutex may have been unlocked, or taken, by main. *)
Unlock ==
  /\ cb = "unlock"
  /\ \E o \in {"free"} \cup ({mutex[src]} \ {by}) :
       mutex' = [mutex EXCEPT ![src] = o]
  /\ cb' = "none"
  /\ UNCHANGED <<die, got, back, mid, front, allocated, renderer, thread, on, proc, by, src, rgb, frames>>
-----------------------------------------------------------------------------
Rendering ==
  \/ SwapFront \/ SwapMid \/ ClearGot \/ RenderUnlock \/ Drawn

Working == CommandDone \/ Rejoined \/ OpenFails \/ Opened \/ Joined

Running == SetUp \/ StartVideo \/ LeaveLoop \/ Exit

CallingBack ==
  \/ Filled \/ Check \/ Lock \/ TakeMid \/ GiveMid \/ WriteMid \/ SetGot \/ Unlock

Next ==
  /\ \/ \E c \in Channels : RenderLocked(c) \/ RenderBusy(c)
     \/ Rendering
     \/ Command \/ Reopen \/ StopExecution \/ StartExecution \/ Working
     \/ Running
     \/ \E t \in Threads, c \in Channels : Frame(t, c)
     \/ CallingBack
  /\ UNCHANGED overlap

Spec == Init /\ [][Next]_vars

(* Both threads and the callbacks go on when they can. *)
FairSpec ==
  /\ Spec
  /\ WF_state(Rendering) /\ WF_state(Working) /\ WF_state(Running) /\ WF_state(CallingBack)
-----------------------------------------------------------------------------
TypeOK ==
  /\ die \in BOOLEAN /\ got \in [Channels -> BOOLEAN]
  /\ mutex \in [Channels -> Threads \cup {"free"}]
  /\ back \in Bufs /\ mid \in [Channels -> Bufs] /\ front \in [Channels -> Bufs]
  /\ allocated \in BOOLEAN
  /\ main \in {"idle", "swap", "swapmid", "clear", "unlock", "draw", "control",
               "rejoin", "open", "join"}
  /\ view \in Channels /\ tmp \in Bufs
  /\ thread \in {"none", "start", "loop", "stop", "exited"}
  /\ on \in SUBSET Channels
  /\ proc \in RgbBufs \cup {"none"}
  /\ cb \in {"none", "fill", "check", "lock", "takemid", "givemid", "write", "got", "unlock"}
  /\ by \in Threads /\ src \in Channels /\ rgb \in RgbBufs \cup {"none"}
  /\ content \in [Bufs -> 0 .. MaxFrames] /\ sent \in 0 .. MaxFrames

(* assert (plugin->_rgb_back == rgb) in rgb_cb: libfreenect fills the      *)
(* buffer the plug-in takes for back, through every render that meddles    *)
(* with mid and every restart of the thread.                               *)
RgbBackIsFilled == cb = "takemid" => back = rgb

(* The buffers are freed only when nothing writes into them any more.      *)
FreedAfterUse == ~allocated => cb = "none" /\ thread = "none"

\* No swap is under way on the channel.
Settled(c) ==
  /\ ~(main \in {"swap", "swapmid", "clear"} /\ view = c)
  /\ ~(cb \in {"takemid", "givemid", "write"} /\ src = c)

(* The exchange of buffers is correct as long as no render begins while a  *)
(* callback has the mutex: back, mid and front are three different         *)
(* buffers, and those of depth two ...                                     *)
BuffersDistinct ==
  ~overlap =>
    /\ Settled("rgb") => Cardinality({back, mid["rgb"], front["rgb"]}) = 3
    /\ Settled("depth") => mid["depth"] # front["depth"]

(* "front: owned by GL, currently being drawn": nobody writes the buffer   *)
(* that is being drawn, and depth is not drawn while it is half coloured.  *)
OwnedByGL ==
  main = "draw" =>
    /\ ~(view = "rgb" /\ cb = "fill" /\ rgb = front["rgb"])
    /\ ~(/\ view = "depth" /\ cb = "write"
         /\ mid["depth"] = front["depth"] \/ content[front["depth"]] = sent)

(* ... and under the condition above, nobody ever does, ...                *)
NoTearing == ~overlap => OwnedByGL

(* ... and the picture never goes back to an older frame.                  *)
NeverOlder ==
  [][~overlap /\ allocated /\ allocated' =>
       \A c \in Channels : content'[front'[c]] >= content[front[c]]]_vars

(* stopExecution returns.                                                  *)
StopReturns == main = "join" ~> main = "idle"
=============================================================================
