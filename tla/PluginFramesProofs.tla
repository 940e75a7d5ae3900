------------------------- MODULE PluginFramesProofs -------------------------
(***************************************************************************)
(* The frame exchange of the plug-in, for any number of frames.  What      *)
(* holds for renders at any moment: libfreenect fills the buffer that      *)
(* rgb_cb takes for back, and buffers outlive their use.  What holds as    *)
(* long as no render begins while a callback has the mutex: the buffers    *)
(* are distinct, pictures are not torn, and none is older than the last.   *)
(***************************************************************************)
EXTENDS PluginFrames, FiniteSetTheorems, TLAPS

(* Between streams there are no callbacks, and without a thread no streams.*)
ThreadInv ==
  /\ ~allocated => thread = "none" /\ main = "idle"
  /\ main = "open" => thread = "none"
  /\ thread \in {"none", "exited"} => on = {}
  /\ thread \in {"loop", "stop"} => on # {}
  /\ on = {} => cb = "none"
  /\ cb # "none" /\ by = "main" => main = "control"
  /\ on # {} => proc = back

(* Video buffers remain video buffers, and back is the one being filled.   *)
BackInv ==
  /\ back \in RgbBufs
  /\ \A c \in Channels : (mid[c] \in RgbBufs <=> c = "rgb") /\ (front[c] \in RgbBufs <=> c = "rgb")
  /\ main = "swapmid" => (tmp \in RgbBufs <=> view = "rgb")
  /\ cb \in {"fill", "takemid", "givemid"} => src = "rgb"
  /\ cb = "write" => src = "depth"
  /\ cb \in {"fill", "check", "lock", "takemid"} /\ src = "rgb" => rgb = back
  /\ cb = "givemid" => rgb \in RgbBufs

FramesInv == TypeOK /\ ThreadInv /\ BackInv

Swapping == main \in {"swap", "swapmid", "clear", "unlock"}
Locked == cb \in {"takemid", "givemid", "write", "got", "unlock"}

(* Each holder of a mutex is the only one in its critical section.         *)
MutexInv ==
  /\ Swapping => mutex[view] = "main"
  /\ Locked => mutex[src] = by

(* Where the pointers are, in the middle of an exchange, too.              *)
DistinctInv ==
  /\ CASE cb = "givemid" -> back # rgb /\ rgb # front["rgb"] /\ back # front["rgb"]
       [] main = "swapmid" /\ view = "rgb"
            -> back # mid["rgb"] /\ mid["rgb"] # tmp /\ back # tmp /\ front["rgb"] = mid["rgb"]
       [] OTHER -> back # mid["rgb"] /\ mid["rgb"] # front["rgb"] /\ back # front["rgb"]
  /\ IF main = "swapmid" /\ view = "depth"
     THEN mid["depth"] # tmp /\ front["depth"] = mid["depth"]
     ELSE mid["depth"] # front["depth"]

(* What has been filled, and what is newer.                                *)
ContentInv ==
  /\ \A b \in Bufs : content[b] =< sent
  /\ cb \in {"check", "lock", "takemid", "givemid"} /\ src = "rgb" => content[rgb] = sent
  /\ cb \in {"check", "lock", "write"} /\ src = "depth"
       => \A b \in Bufs : content[b] = sent => cb = "write" /\ b = mid["depth"]
  /\ cb = "got" => content[mid[src]] = sent
  /\ \A c \in Channels :
       IF main \in {"swap", "swapmid", "clear"} /\ view = c
       THEN main = "swap" => content[front[c]] =< content[mid[c]]
       ELSE got[c] => content[front[c]] =< content[mid[c]]

ApartInv == FramesInv /\ MutexInv /\ DistinctInv /\ ContentInv
-----------------------------------------------------------------------------
(* What main does in renderToBuffer.                                        *)
LEMMA RenderInv ==
  ASSUME FramesInv, Rendering \/ (\E c \in Channels : RenderLocked(c) \/ RenderBusy(c))
  PROVE  FramesInv'
<1> USE FramesAssumption
    DEF FramesInv, TypeOK, plugin, renderer, callback, frames, Channels, Threads, Bufs, RgbBufs
<1>1. CASE \E c \in Channels : RenderLocked(c)
  <2>1. TypeOK'
    BY <1>1 DEF RenderLocked, Render, Main, BackInv
  <2>2. ThreadInv'
    BY <1>1 DEF RenderLocked, Render, Main, ThreadInv
  <2>3. BackInv'
    BY <1>1 DEF RenderLocked, Render, Main, BackInv, ThreadInv
  <2> QED BY <2>1, <2>2, <2>3
<1>2. CASE \E c \in Channels : RenderBusy(c)
  <2>1. TypeOK'
    BY <1>2 DEF RenderBusy, Render, Main, BackInv
  <2>2. ThreadInv'
    BY <1>2 DEF RenderBusy, Render, Main, ThreadInv
  <2>3. BackInv'
    BY <1>2 DEF RenderBusy, Render, Main, BackInv, ThreadInv
  <2> QED BY <2>1, <2>2, <2>3
<1>3. CASE SwapFront
  <2>1. TypeOK'
    BY <1>3 DEF SwapFront, BackInv
  <2>2. ThreadInv'
    BY <1>3 DEF SwapFront, ThreadInv
  <2>3. BackInv'
    BY <1>3 DEF SwapFront, BackInv, ThreadInv
  <2> QED BY <2>1, <2>2, <2>3
<1>4. CASE SwapMid
  <2>1. TypeOK'
    BY <1>4 DEF SwapMid, BackInv
  <2>2. ThreadInv'
    BY <1>4 DEF SwapMid, ThreadInv
  <2>3. BackInv'
    BY <1>4 DEF SwapMid, BackInv, ThreadInv
  <2> QED BY <2>1, <2>2, <2>3
<1>5. CASE ClearGot
  <2>1. TypeOK'
    BY <1>5 DEF ClearGot, BackInv
  <2>2. ThreadInv'
    BY <1>5 DEF ClearGot, ThreadInv
  <2>3. BackInv'
    BY <1>5 DEF ClearGot, BackInv, ThreadInv
  <2> QED BY <2>1, <2>2, <2>3
<1>6. CASE RenderUnlock
  <2>1. TypeOK'
    BY <1>6 DEF RenderUnlock, BackInv
  <2>2. ThreadInv'
    BY <1>6 DEF RenderUnlock, ThreadInv
  <2>3. BackInv'
    BY <1>6 DEF RenderUnlock, BackInv, ThreadInv
  <2> QED BY <2>1, <2>2, <2>3
<1>7. CASE Drawn
  <2>1. TypeOK'
    BY <1>7 DEF Drawn, BackInv
  <2>2. ThreadInv'
    BY <1>7 DEF Drawn, ThreadInv
  <2>3. BackInv'
    BY <1>7 DEF Drawn, BackInv, ThreadInv
  <2> QED BY <2>1, <2>2, <2>3
<1> QED BY <1>1, <1>2, <1>3, <1>4, <1>5, <1>6, <1>7 DEF Rendering

(* What it does in execute, startExecution and stopExecution.              *)
LEMMA CallInv ==
  ASSUME FramesInv, Working \/ Command \/ Reopen \/ StopExecution \/ StartExecution
  PROVE  FramesInv'
<1> USE FramesAssumption
    DEF FramesInv, TypeOK, plugin, renderer, callback, frames, Channels, Threads, Bufs, RgbBufs
<1>1. CASE Command
  <2>1. TypeOK'
    BY <1>1 DEF Command, Main, BackInv
  <2>2. ThreadInv'
    BY <1>1 DEF Command, Main, ThreadInv
  <2>3. BackInv'
    BY <1>1 DEF Command, Main, BackInv, ThreadInv
  <2> QED BY <2>1, <2>2, <2>3
<1>2. CASE CommandDone
  <2>1. TypeOK'
    BY <1>2 DEF CommandDone, Main, BackInv
  <2>2. ThreadInv'
    BY <1>2 DEF CommandDone, Main, ThreadInv
  <2>3. BackInv'
    BY <1>2 DEF CommandDone, Main, BackInv, ThreadInv
  <2> QED BY <2>1, <2>2, <2>3
<1>3. CASE Reopen
  <2>1. TypeOK'
    <3>1. die' \in BOOLEAN /\ allocated' \in BOOLEAN
      BY <1>3 DEF Reopen
    <3> QED BY <3>1, <1>3 DEF Reopen, Main, BackInv
  <2>2. ThreadInv'
    BY <1>3 DEF Reopen, Main, ThreadInv
  <2>3. BackInv'
    BY <1>3 DEF Reopen, Main, BackInv, ThreadInv
  <2> QED BY <2>1, <2>2, <2>3
<1>4. CASE Rejoined
  <2>1. TypeOK'
    BY <1>4 DEF Rejoined, BackInv
  <2>2. ThreadInv'
    BY <1>4 DEF Rejoined, ThreadInv
  <2>3. BackInv'
    BY <1>4 DEF Rejoined, BackInv, ThreadInv
  <2> QED BY <2>1, <2>2, <2>3
<1>5. CASE OpenFails
  <2>1. TypeOK'
    BY <1>5 DEF OpenFails, BackInv
  <2>2. ThreadInv'
    BY <1>5 DEF OpenFails, ThreadInv
  <2>3. BackInv'
    BY <1>5 DEF OpenFails, BackInv, ThreadInv
  <2> QED BY <2>1, <2>2, <2>3
<1>6. CASE Opened
  <2>1. TypeOK'
    <3>1. die' \in BOOLEAN /\ allocated' \in BOOLEAN
      BY <1>6 DEF Opened
    <3> QED BY <3>1, <1>6 DEF Opened, BackInv
  <2>2. ThreadInv'
    BY <1>6 DEF Opened, ThreadInv
  <2>3. BackInv'
    BY <1>6 DEF Opened, BackInv, ThreadInv
  <2> QED BY <2>1, <2>2, <2>3
<1>7. CASE StopExecution
  <2>1. TypeOK'
    BY <1>7 DEF StopExecution, Main, BackInv
  <2>2. ThreadInv'
    BY <1>7 DEF StopExecution, Main, ThreadInv
  <2>3. BackInv'
    BY <1>7 DEF StopExecution, Main, BackInv, ThreadInv
  <2> QED BY <2>1, <2>2, <2>3
<1>8. CASE Joined
  <2>1. TypeOK'
    <3>1. die' \in BOOLEAN /\ allocated' \in BOOLEAN
      BY <1>8 DEF Joined
    <3> QED BY <3>1, <1>8 DEF Joined, BackInv
  <2>2. ThreadInv'
    BY <1>8 DEF Joined, ThreadInv
  <2>3. BackInv'
    BY <1>8 DEF Joined, BackInv, ThreadInv
  <2> QED BY <2>1, <2>2, <2>3
<1>9. CASE StartExecution
  <2>1. TypeOK'
    <3>1. die' \in BOOLEAN /\ allocated' \in BOOLEAN
      BY <1>9 DEF StartExecution, Allocated
    <3> QED BY <3>1, <1>9 DEF StartExecution, Main, Allocated, BackInv
  <2>2. ThreadInv'
    BY <1>9 DEF StartExecution, Main, Allocated, ThreadInv
  <2>3. BackInv'
    BY <1>9 DEF StartExecution, Main, Allocated, BackInv, ThreadInv
  <2> QED BY <2>1, <2>2, <2>3
<1> QED BY <1>1, <1>2, <1>3, <1>4, <1>5, <1>6, <1>7, <1>8, <1>9 DEF Working

(* What the freenect thread does.                                          *)
LEMMA RunInv ==
  ASSUME FramesInv, Running
  PROVE  FramesInv'
<1> USE FramesAssumption
    DEF FramesInv, TypeOK, plugin, renderer, callback, frames, Channels, Threads, Bufs, RgbBufs
<1>1. CASE SetUp
  <2>1. TypeOK'
    BY <1>1 DEF SetUp, Thread, BackInv
  <2>2. ThreadInv'
    BY <1>1 DEF SetUp, Thread, ThreadInv
  <2>3. BackInv'
    BY <1>1 DEF SetUp, Thread, BackInv, ThreadInv
  <2> QED BY <2>1, <2>2, <2>3
<1>2. CASE StartVideo
  <2>1. TypeOK'
    BY <1>2 DEF StartVideo, Thread, BackInv
  <2>2. ThreadInv'
    BY <1>2 DEF StartVideo, Thread, ThreadInv
  <2>3. BackInv'
    BY <1>2 DEF StartVideo, Thread, BackInv, ThreadInv
  <2> QED BY <2>1, <2>2, <2>3
<1>3. CASE LeaveLoop
  <2>1. TypeOK'
    BY <1>3 DEF LeaveLoop, Thread, BackInv
  <2>2. ThreadInv'
    BY <1>3 DEF LeaveLoop, Thread, ThreadInv
  <2>3. BackInv'
    BY <1>3 DEF LeaveLoop, Thread, BackInv, ThreadInv
  <2> QED BY <2>1, <2>2, <2>3
<1>4. CASE Exit
  <2>1. TypeOK'
    BY <1>4 DEF Exit, Thread, BackInv
  <2>2. ThreadInv'
    BY <1>4 DEF Exit, Thread, ThreadInv
  <2>3. BackInv'
    BY <1>4 DEF Exit, Thread, BackInv, ThreadInv
  <2> QED BY <2>1, <2>2, <2>3
<1> QED BY <1>1, <1>2, <1>3, <1>4 DEF Running

(* What a callback does, on either thread.                                 *)
LEMMA CallbackInv ==
  ASSUME FramesInv, CallingBack \/ (\E t \in Threads, c \in Channels : Frame(t, c))
  PROVE  FramesInv'
<1> USE FramesAssumption
    DEF FramesInv, TypeOK, plugin, renderer, callback, frames, Channels, Threads, Bufs, RgbBufs
<1>1. CASE \E t \in Threads, c \in Channels : Frame(t, c)
  <2>1. TypeOK'
    BY <1>1 DEF Frame, Handles, BackInv
  <2>2. ThreadInv'
    BY <1>1 DEF Frame, Handles, ThreadInv
  <2>3. BackInv'
    BY <1>1 DEF Frame, Handles, BackInv, ThreadInv
  <2> QED BY <2>1, <2>2, <2>3
<1>2. CASE Filled
  <2>1. TypeOK'
    BY <1>2 DEF Filled, BackInv
  <2>2. ThreadInv'
    BY <1>2 DEF Filled, ThreadInv
  <2>3. BackInv'
    BY <1>2 DEF Filled, BackInv, ThreadInv
  <2> QED BY <2>1, <2>2, <2>3
<1>3. CASE Check
  <2>1. TypeOK'
    BY <1>3 DEF Check, BackInv
  <2>2. ThreadInv'
    BY <1>3 DEF Check, ThreadInv
  <2>3. BackInv'
    BY <1>3 DEF Check, BackInv, ThreadInv
  <2> QED BY <2>1, <2>2, <2>3
<1>4. CASE Lock
  <2>1. TypeOK'
    BY <1>4 DEF Lock, BackInv
  <2>2. ThreadInv'
    BY <1>4 DEF Lock, ThreadInv
  <2>3. BackInv'
    BY <1>4 DEF Lock, BackInv, ThreadInv
  <2> QED BY <2>1, <2>2, <2>3
<1>5. CASE TakeMid
  <2>1. TypeOK'
    BY <1>5 DEF TakeMid, BackInv
  <2>2. ThreadInv'
    BY <1>5 DEF TakeMid, ThreadInv
  <2>3. BackInv'
    BY <1>5 DEF TakeMid, BackInv, ThreadInv
  <2> QED BY <2>1, <2>2, <2>3
<1>6. CASE GiveMid
  <2>1. TypeOK'
    BY <1>6 DEF GiveMid, BackInv
  <2>2. ThreadInv'
    BY <1>6 DEF GiveMid, ThreadInv
  <2>3. BackInv'
    BY <1>6 DEF GiveMid, BackInv, ThreadInv
  <2> QED BY <2>1, <2>2, <2>3
<1>7. CASE WriteMid
  <2>1. TypeOK'
    BY <1>7 DEF WriteMid, BackInv
  <2>2. ThreadInv'
    BY <1>7 DEF WriteMid, ThreadInv
  <2>3. BackInv'
    BY <1>7 DEF WriteMid, BackInv, ThreadInv
  <2> QED BY <2>1, <2>2, <2>3
<1>8. CASE SetGot
  <2>1. TypeOK'
    BY <1>8 DEF SetGot, BackInv
  <2>2. ThreadInv'
    BY <1>8 DEF SetGot, ThreadInv
  <2>3. BackInv'
    BY <1>8 DEF SetGot, BackInv, ThreadInv
  <2> QED BY <2>1, <2>2, <2>3
<1>9. CASE Unlock
  <2>1. TypeOK'
    BY <1>9 DEF Unlock, BackInv
  <2>2. ThreadInv'
    BY <1>9 DEF Unlock, ThreadInv
  <2>3. BackInv'
    BY <1>9 DEF Unlock, BackInv, ThreadInv
  <2> QED BY <2>1, <2>2, <2>3
<1> QED BY <1>1, <1>2, <1>3, <1>4, <1>5, <1>6, <1>7, <1>8, <1>9 DEF CallingBack

LEMMA InitFrames == Init => FramesInv
<1> SUFFICES ASSUME Init PROVE FramesInv
  OBVIOUS
<1>1. die \in BOOLEAN /\ allocated \in BOOLEAN /\ got \in [Channels -> BOOLEAN]
  BY DEF Init
<1>2. TypeOK
  BY <1>1, FramesAssumption DEF Init, TypeOK, Channels, Threads, Bufs, RgbBufs
<1> QED BY <1>2 DEF Init, FramesInv, ThreadInv, BackInv, Channels, RgbBufs

LEMMA NextFrames == FramesInv /\ [Next]_vars => FramesInv'
<1> SUFFICES ASSUME FramesInv, [Next]_vars PROVE FramesInv'
  OBVIOUS
<1>1. CASE UNCHANGED vars
  BY <1>1 DEF vars, state, plugin, renderer, callback, frames, FramesInv, TypeOK, ThreadInv, BackInv
<1> QED BY <1>1, RenderInv, CallInv, RunInv, CallbackInv DEF Next

(* Every variable keeps its type: video frames are only ever filled into   *)
(* video buffers of the plug-in.                                           *)
THEOREM FramesTypeCorrect == Spec => []TypeOK
<1>1. FramesInv => TypeOK
  BY DEF FramesInv
<1> QED BY <1>1, InitFrames, NextFrames, PTL DEF Spec

(* The assertion of rgb_cb never fails, and stopExecution frees no buffer  *)
(* that a callback may still use, whenever renders happen and whatever     *)
(* unlocking another thread's mutex does.                                  *)
THEOREM BuffersOutliveUse == Spec => [](RgbBackIsFilled /\ FreedAfterUse)
<1>1. FramesInv => RgbBackIsFilled /\ FreedAfterUse
  BY DEF FramesInv, ThreadInv, BackInv, RgbBackIsFilled, FreedAfterUse
<1> QED BY <1>1, InitFrames, NextFrames, PTL DEF Spec
-----------------------------------------------------------------------------
(* A render that swaps and a callback that exchanges are on different      *)
(* channels: both hold the mutex of theirs, and main cannot be in both.    *)
LEMMA Exclusive ==
  ASSUME FramesInv, MutexInv
  PROVE  ~(Swapping /\ Locked /\ view = src)
BY DEF FramesInv, TypeOK, ThreadInv, MutexInv, Swapping, Locked, Threads, Channels

(* Renders keep the exchange in order.                                     *)
LEMMA RenderApart ==
  ASSUME ~overlap, ApartInv, Rendering \/ (\E c \in Channels : RenderLocked(c) \/ RenderBusy(c))
  PROVE  MutexInv' /\ DistinctInv' /\ ContentInv'
<1> USE Exclusive, FramesAssumption
    DEF ApartInv, FramesInv, TypeOK, plugin, renderer, callback, frames, Swapping, Locked,
        Channels, Threads, Bufs, RgbBufs
<1>1. CASE \E c \in Channels : RenderLocked(c)
  <2>1. MutexInv'
    BY <1>1 DEF RenderLocked, Render, Main, MutexInv, ThreadInv
  <2>2. DistinctInv'
    BY <1>1 DEF RenderLocked, Render, Main, MutexInv, DistinctInv, BackInv, ThreadInv
  <2>3. ContentInv'
    BY <1>1 DEF RenderLocked, Render, Main, MutexInv, DistinctInv, ContentInv, BackInv, ThreadInv
  <2> QED BY <2>1, <2>2, <2>3
<1>2. CASE \E c \in Channels : RenderBusy(c)
  <2>1. MutexInv'
    BY <1>2 DEF RenderBusy, Render, Main, MutexInv, ThreadInv
  <2>2. DistinctInv'
    BY <1>2 DEF RenderBusy, Render, Main, MutexInv, DistinctInv, BackInv, ThreadInv
  <2>3. ContentInv'
    BY <1>2 DEF RenderBusy, Render, Main, MutexInv, DistinctInv, ContentInv, BackInv, ThreadInv
  <2> QED BY <2>1, <2>2, <2>3
<1>3. CASE SwapFront
  <2>1. MutexInv'
    BY <1>3 DEF SwapFront, MutexInv, ThreadInv
  <2>2. DistinctInv'
    BY <1>3 DEF SwapFront, MutexInv, DistinctInv, BackInv, ThreadInv
  <2>3. ContentInv'
    BY <1>3 DEF SwapFront, MutexInv, DistinctInv, ContentInv, BackInv, ThreadInv
  <2> QED BY <2>1, <2>2, <2>3
<1>4. CASE SwapMid
  <2>1. MutexInv'
    BY <1>4 DEF SwapMid, MutexInv, ThreadInv
  <2>2. DistinctInv'
    BY <1>4 DEF SwapMid, MutexInv, DistinctInv, BackInv, ThreadInv
  <2>3. ContentInv'
    BY <1>4 DEF SwapMid, MutexInv, DistinctInv, ContentInv, BackInv, ThreadInv
  <2> QED BY <2>1, <2>2, <2>3
<1>5. CASE ClearGot
  <2>1. MutexInv'
    BY <1>5 DEF ClearGot, MutexInv, ThreadInv
  <2>2. DistinctInv'
    BY <1>5 DEF ClearGot, MutexInv, DistinctInv, BackInv, ThreadInv
  <2>3. ContentInv'
    BY <1>5 DEF ClearGot, MutexInv, DistinctInv, ContentInv, BackInv, ThreadInv
  <2> QED BY <2>1, <2>2, <2>3
<1>6. CASE RenderUnlock
  <2>1. MutexInv'
    BY <1>6 DEF RenderUnlock, MutexInv, ThreadInv
  <2>2. DistinctInv'
    BY <1>6 DEF RenderUnlock, MutexInv, DistinctInv, BackInv, ThreadInv
  <2>3. ContentInv'
    BY <1>6 DEF RenderUnlock, MutexInv, DistinctInv, ContentInv, BackInv, ThreadInv
  <2> QED BY <2>1, <2>2, <2>3
<1>7. CASE Drawn
  <2>1. MutexInv'
    BY <1>7 DEF Drawn, MutexInv, ThreadInv
  <2>2. DistinctInv'
    BY <1>7 DEF Drawn, MutexInv, DistinctInv, BackInv, ThreadInv
  <2>3. ContentInv'
    BY <1>7 DEF Drawn, MutexInv, DistinctInv, ContentInv, BackInv, ThreadInv
  <2> QED BY <2>1, <2>2, <2>3
<1> QED BY <1>1, <1>2, <1>3, <1>4, <1>5, <1>6, <1>7 DEF Rendering

(* So do the calls of main ...                                             *)
LEMMA CallApart ==
  ASSUME ~overlap, ApartInv, Working \/ Command \/ Reopen \/ StopExecution \/ StartExecution
  PROVE  MutexInv' /\ DistinctInv' /\ ContentInv'
<1> USE Exclusive, FramesAssumption
    DEF ApartInv, FramesInv, TypeOK, plugin, renderer, callback, frames, Swapping, Locked,
        Channels, Threads, Bufs, RgbBufs
<1>1. CASE Command \/ CommandDone \/ Reopen \/ Rejoined \/ OpenFails \/ Opened \/ StopExecution \/ Joined
  <2>1. MutexInv'
    BY <1>1
    DEF Command, CommandDone, Reopen, Rejoined, OpenFails, Opened, StopExecution, Joined, Main, MutexInv, ThreadInv
  <2>2. DistinctInv'
    BY <1>1
    DEF Command, CommandDone, Reopen, Rejoined, OpenFails, Opened, StopExecution, Joined, Main,
        MutexInv, DistinctInv, BackInv, ThreadInv
  <2>3. ContentInv'
    BY <1>1
    DEF Command, CommandDone, Reopen, Rejoined, OpenFails, Opened, StopExecution, Joined, Main,
        MutexInv, DistinctInv, ContentInv, BackInv, ThreadInv
  <2> QED BY <2>1, <2>2, <2>3
<1>2. CASE StartExecution
  <2>1. MutexInv'
    BY <1>2 DEF StartExecution, Main, Allocated, MutexInv, ThreadInv
  <2>2. DistinctInv'
    BY <1>2 DEF StartExecution, Main, Allocated, MutexInv, DistinctInv, BackInv, ThreadInv
  <2>3. ContentInv'
    BY <1>2
    DEF StartExecution, Main, Allocated, MutexInv, DistinctInv, ContentInv, BackInv, ThreadInv
  <2> QED BY <2>1, <2>2, <2>3
<1> QED BY <1>1, <1>2 DEF Working

(* ... the freenect thread ...                                             *)
LEMMA RunApart ==
  ASSUME ~overlap, ApartInv, Running
  PROVE  MutexInv' /\ DistinctInv' /\ ContentInv'
<1> USE Exclusive, FramesAssumption
    DEF ApartInv, FramesInv, TypeOK, plugin, renderer, callback, frames, Swapping, Locked,
        Channels, Threads, Bufs, RgbBufs
<1>1. CASE SetUp
  <2>1. MutexInv'
    BY <1>1 DEF SetUp, Thread, MutexInv, ThreadInv
  <2>2. DistinctInv'
    BY <1>1 DEF SetUp, Thread, MutexInv, DistinctInv, BackInv, ThreadInv
  <2>3. ContentInv'
    BY <1>1 DEF SetUp, Thread, MutexInv, DistinctInv, ContentInv, BackInv, ThreadInv
  <2> QED BY <2>1, <2>2, <2>3
<1>2. CASE StartVideo \/ LeaveLoop \/ Exit
  <2>1. MutexInv'
    BY <1>2 DEF StartVideo, LeaveLoop, Exit, Thread, MutexInv, ThreadInv
  <2>2. DistinctInv'
    BY <1>2 DEF StartVideo, LeaveLoop, Exit, Thread, MutexInv, DistinctInv, BackInv, ThreadInv
  <2>3. ContentInv'
    BY <1>2
    DEF StartVideo, LeaveLoop, Exit, Thread, MutexInv, DistinctInv, ContentInv, BackInv, ThreadInv
  <2> QED BY <2>1, <2>2, <2>3
<1> QED BY <1>1, <1>2 DEF Running

(* ... and the callbacks.                                                  *)
LEMMA CallbackApart ==
  ASSUME ~overlap, ApartInv, CallingBack \/ (\E t \in Threads, c \in Channels : Frame(t, c))
  PROVE  MutexInv' /\ DistinctInv' /\ ContentInv'
<1> USE Exclusive, FramesAssumption
    DEF ApartInv, FramesInv, TypeOK, plugin, renderer, callback, frames, Swapping, Locked,
        Channels, Threads, Bufs, RgbBufs
<1>1. CASE \E t \in Threads, c \in Channels : Frame(t, c)
  <2>1. MutexInv'
    BY <1>1 DEF Frame, Handles, MutexInv, ThreadInv
  <2>2. DistinctInv'
    BY <1>1 DEF Frame, Handles, MutexInv, DistinctInv, BackInv, ThreadInv
  <2>3. ContentInv'
    BY <1>1 DEF Frame, Handles, MutexInv, DistinctInv, ContentInv, BackInv, ThreadInv
  <2> QED BY <2>1, <2>2, <2>3
<1>2. CASE Filled
  <2>1. MutexInv'
    BY <1>2 DEF Filled, MutexInv, ThreadInv
  <2>2. DistinctInv'
    BY <1>2 DEF Filled, MutexInv, DistinctInv, BackInv, ThreadInv
  <2>3. ContentInv'
    BY <1>2 DEF Filled, MutexInv, DistinctInv, ContentInv, BackInv, ThreadInv
  <2> QED BY <2>1, <2>2, <2>3
<1>3. CASE Check
  <2>1. MutexInv'
    BY <1>3 DEF Check, MutexInv, ThreadInv
  <2>2. DistinctInv'
    BY <1>3 DEF Check, MutexInv, DistinctInv, BackInv, ThreadInv
  <2>3. ContentInv'
    BY <1>3 DEF Check, MutexInv, DistinctInv, ContentInv, BackInv, ThreadInv
  <2> QED BY <2>1, <2>2, <2>3
<1>4. CASE Lock
  <2>1. MutexInv'
    BY <1>4 DEF Lock, MutexInv, ThreadInv
  <2>2. DistinctInv'
    BY <1>4 DEF Lock, MutexInv, DistinctInv, BackInv, ThreadInv
  <2>3. ContentInv'
    BY <1>4 DEF Lock, MutexInv, DistinctInv, ContentInv, BackInv, ThreadInv
  <2> QED BY <2>1, <2>2, <2>3
<1>5. CASE TakeMid
  <2>1. MutexInv'
    BY <1>5 DEF TakeMid, MutexInv, ThreadInv
  <2>2. DistinctInv'
    BY <1>5 DEF TakeMid, MutexInv, DistinctInv, BackInv, ThreadInv
  <2>3. ContentInv'
    BY <1>5 DEF TakeMid, MutexInv, DistinctInv, ContentInv, BackInv, ThreadInv
  <2> QED BY <2>1, <2>2, <2>3
<1>6. CASE GiveMid
  <2>1. MutexInv'
    BY <1>6 DEF GiveMid, MutexInv, ThreadInv
  <2>2. DistinctInv'
    BY <1>6 DEF GiveMid, MutexInv, DistinctInv, BackInv, ThreadInv
  <2>3. ContentInv'
    BY <1>6 DEF GiveMid, MutexInv, DistinctInv, ContentInv, BackInv, ThreadInv
  <2> QED BY <2>1, <2>2, <2>3
<1>7. CASE WriteMid
  <2>1. MutexInv'
    BY <1>7 DEF WriteMid, MutexInv, ThreadInv
  <2>2. DistinctInv'
    BY <1>7 DEF WriteMid, MutexInv, DistinctInv, BackInv, ThreadInv
  <2>3. ContentInv'
    BY <1>7 DEF WriteMid, MutexInv, DistinctInv, ContentInv, BackInv, ThreadInv
  <2> QED BY <2>1, <2>2, <2>3
<1>8. CASE SetGot
  <2>1. MutexInv'
    BY <1>8 DEF SetGot, MutexInv, ThreadInv
  <2>2. DistinctInv'
    BY <1>8 DEF SetGot, MutexInv, DistinctInv, BackInv, ThreadInv
  <2>3. ContentInv'
    BY <1>8 DEF SetGot, MutexInv, DistinctInv, ContentInv, BackInv, ThreadInv
  <2> QED BY <2>1, <2>2, <2>3
<1>9. CASE Unlock
  <2>1. MutexInv'
    BY <1>9 DEF Unlock, MutexInv, ThreadInv
  <2>2. DistinctInv'
    BY <1>9 DEF Unlock, MutexInv, DistinctInv, BackInv, ThreadInv
  <2>3. ContentInv'
    BY <1>9 DEF Unlock, MutexInv, DistinctInv, ContentInv, BackInv, ThreadInv
  <2> QED BY <2>1, <2>2, <2>3
<1> QED BY <1>1, <1>2, <1>3, <1>4, <1>5, <1>6, <1>7, <1>8, <1>9 DEF CallingBack

LEMMA InitApart == Init => ApartInv
BY InitFrames, FramesAssumption
DEF Init, ApartInv, MutexInv, DistinctInv, ContentInv, Swapping, Locked, Channels, Bufs, RgbBufs

LEMMA NextApart == ~overlap /\ ApartInv /\ [Next]_vars => ApartInv'
<1> SUFFICES ASSUME ~overlap, ApartInv, [Next]_vars
             PROVE  MutexInv' /\ DistinctInv' /\ ContentInv'
  BY NextFrames DEF ApartInv
<1>1. CASE UNCHANGED vars
  BY <1>1 DEF vars, state, plugin, renderer, callback, frames, ApartInv, MutexInv, DistinctInv,
     ContentInv, Swapping, Locked
<1> QED BY <1>1, RenderApart, CallApart, RunApart, CallbackApart DEF Next

LEMMA ApartInvariant == Spec => [](~overlap => ApartInv)
<1>1. [Next]_vars => overlap' = overlap
  BY DEF Next, vars, state
<1>2. (~overlap => ApartInv) /\ [Next]_vars => (~overlap => ApartInv)'
  BY <1>1, NextApart
<1>3. Init => (~overlap => ApartInv)
  BY InitApart
<1> QED BY <1>2, <1>3, PTL DEF Spec

LEMMA ThreeDistinct ==
  ASSUME NEW a, NEW b, NEW c, a # b, b # c, a # c
  PROVE  Cardinality({a, b, c}) = 3
<1>1. IsFiniteSet({}) /\ Cardinality({}) = 0
  BY FS_EmptySet
<1>2. IsFiniteSet({a}) /\ Cardinality({a}) = 1
  BY FS_Singleton
<1>3. IsFiniteSet({a, b}) /\ Cardinality({a, b}) = 2
  <2>1. {a} \cup {b} = {a, b} /\ b \notin {a}
    OBVIOUS
  <2> QED BY <1>2, <2>1, FS_AddElement
<1>4. {a, b} \cup {c} = {a, b, c} /\ c \notin {a, b}
  OBVIOUS
<1> QED BY <1>3, <1>4, FS_AddElement

(* The three pointers of video are distinct whenever no exchange is under  *)
(* way, and the two of depth; and nobody writes to what is being drawn:    *)
(* the exchange is correct as long as no render begins while a callback    *)
(* has the mutex, in spite of the inverted test of trylock.                *)
THEOREM ExchangeIsSafe == Spec => [](BuffersDistinct /\ NoTearing)
<1>1. (~overlap => ApartInv) => BuffersDistinct
  <2> SUFFICES ASSUME ~overlap, ApartInv PROVE BuffersDistinct
    BY DEF BuffersDistinct
  <2>1. Settled("rgb") => back # mid["rgb"] /\ mid["rgb"] # front["rgb"] /\ back # front["rgb"]
    BY DEF ApartInv, FramesInv, BackInv, DistinctInv, Settled
  <2>2. Settled("depth") => mid["depth"] # front["depth"]
    BY DEF ApartInv, DistinctInv, Settled
  <2> QED BY <2>1, <2>2, ThreeDistinct DEF BuffersDistinct
<1>2. (~overlap => ApartInv) => NoTearing
  BY DEF OwnedByGL, ApartInv, FramesInv, TypeOK, BackInv, DistinctInv, ContentInv, NoTearing, Channels
<1> QED BY <1>1, <1>2, ApartInvariant, PTL

(* A step changes a front buffer only for one that is at least as new.     *)
LEMMA FrontStep ==
  ASSUME ApartInv, Next, allocated, allocated', NEW c \in Channels
  PROVE  content'[front'[c]] >= content[front[c]]
<1> USE DEF ApartInv, FramesInv, plugin, renderer, callback, frames
<1>1. TypeOK /\ content[front[c]] \in Nat /\ sent \in Nat /\ content[front[c]] =< sent
  BY FramesAssumption DEF TypeOK, ContentInv
<1>2. CASE SwapFront
  BY <1>1, <1>2 DEF SwapFront, TypeOK, ContentInv
<1>3. CASE Filled
  BY <1>1, <1>3 DEF Filled, TypeOK
<1>4. CASE WriteMid
  BY <1>1, <1>4 DEF WriteMid, TypeOK
<1>5. CASE \/ \E d \in Channels : RenderLocked(d) \/ RenderBusy(d)
           \/ SwapMid \/ ClearGot \/ RenderUnlock \/ Drawn
  BY <1>1, <1>5 DEF RenderLocked, RenderBusy, SwapMid, ClearGot, RenderUnlock, Drawn
<1>6. CASE Command \/ Reopen \/ StopExecution \/ StartExecution \/ Working
  BY <1>1, <1>6 DEF Command, Reopen, StopExecution, StartExecution, Working, CommandDone,
     Rejoined, OpenFails, Opened, Joined
<1>7. CASE Running
  BY <1>1, <1>7 DEF Running, SetUp, StartVideo, LeaveLoop, Exit
<1>8. CASE \E t \in Threads, d \in Channels : Frame(t, d)
  BY <1>1, <1>8 DEF Frame
<1>9. CASE Check \/ Lock \/ TakeMid \/ GiveMid \/ SetGot \/ Unlock
  BY <1>1, <1>9 DEF Check, Lock, TakeMid, GiveMid, SetGot, Unlock
<1> QED BY <1>2, <1>3, <1>4, <1>5, <1>6, <1>7, <1>8, <1>9 DEF Next, Rendering, CallingBack

(* The picture never goes back to an older frame, under the same condition.*)
THEOREM NeverGoesBack == Spec => NeverOlder
<1>1. (~overlap => ApartInv) /\ [Next]_vars
        => [~overlap /\ allocated /\ allocated' =>
              \A c \in Channels : content'[front'[c]] >= content[front[c]]]_vars
  BY FrontStep
<1> QED BY <1>1, ApartInvariant, PTL DEF Spec, NeverOlder
=============================================================================
